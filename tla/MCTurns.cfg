SPECIFICATION TurnsSpec
CONSTANTS
  BootOrder <- Order13
  Boot = {3}
  Devices = {3}
  Users = {1, 3, 4}
  Quantum = 2
  MaxTimeout = 1
  Priorities = {3}
INVARIANTS MarksQueued
PROPERTIES EqualsKeepTurns HighFirst
