CONSTANTS
  RespawnLimit = 1
  WaitTicks <- MCWait
  StallTicks = 2
  CheckTicks = 2
  Boot <- MCBoot
  MaxBytes = 4
  RingSize = 3
  Chunk = 2
  MaxKeys = 3
  Batch = 2
  Cells = {1, 2}
  Glyphs = {0, 1}
  MaxFrames = 2
SPECIFICATION MCSpec
INVARIANT  ScreenCurrent
PROPERTY SerialInOrder  AllArrive
CHECK_DEADLOCK FALSE
