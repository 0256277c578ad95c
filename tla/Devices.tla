------------------------------- MODULE Devices -------------------------------
(* The three device lines under one kernel: IRQ0 serves all of them in one    *)
(* handler, and a driver's system call shuts out every other task.            *)
EXTENDS SerialLine, Ps2Port, VgaText

vars == <<hostVars, serialVars, ps2Vars, vgaVars>>

TypeOK == HostTypeOK /\ SerialTypeOK /\ Ps2TypeOK /\ VgaTypeOK

Init == HostInit /\ SerialInit /\ Ps2Init /\ VgaInit

(* timer_handler: task_ipc_wait_tick, then device_watchdog_tick.              *)
Tick == HostTick /\ SerialTick /\ Ps2Tick /\ VgaTick

OnlySerial == UNCHANGED <<ps2Vars, vgaVars>>
OnlyPs2 == UNCHANGED <<serialVars, vgaVars>>
OnlyVga == UNCHANGED <<serialVars, ps2Vars>>

(* What bin/serialdriver, bin/ps2driver and bin/vgadriver do when scheduled.  *)
SerialDriver ==
  \/ SerialClaim /\ OnlySerial
  \/ SerialEnter /\ OnlySerial
  \/ SerialSleep /\ OnlySerial
  \/ SerialResume /\ OnlySerial
  \/ SerialTake /\ OnlySerial
  \/ SerialOut /\ OnlySerial

Ps2Driver ==
  \/ Ps2Claim /\ OnlyPs2
  \/ Ps2Enter /\ OnlyPs2
  \/ Ps2Sleep /\ OnlyPs2
  \/ Ps2Resume /\ OnlyPs2
  \/ Ps2Return /\ OnlyPs2
  \/ Ps2Status /\ OnlyPs2
  \/ Ps2Read /\ OnlyPs2
  \/ Ps2SubmitBatch /\ OnlyPs2
  \/ Ps2Submit /\ OnlyPs2

VgaDriver ==
  \/ VgaClaim /\ OnlyVga
  \/ VgaSnapshot /\ OnlyVga
  \/ VgaEnter /\ OnlyVga
  \/ VgaSleep /\ OnlyVga
  \/ VgaResume /\ OnlyVga
  \/ VgaTake /\ OnlyVga
  \/ VgaPaint /\ OnlyVga

Interrupt1 == Irq1 /\ OnlyPs2

PollKeyboard == Poll /\ OnlyPs2

Next ==
  \/ Tick
  \/ SerialDriver
  \/ Ps2Driver
  \/ VgaDriver
  \/ WriteSerial /\ OnlySerial
  \/ SerialDie /\ OnlySerial
  \/ SerialSupervise /\ OnlySerial
  \/ KeyPress /\ OnlyPs2
  \/ Interrupt1
  \/ PollKeyboard
  \/ Ps2Die /\ OnlyPs2
  \/ Ps2Supervise /\ OnlyPs2
  \/ \E f \in Frames : Present(f) /\ OnlyVga
  \/ VgaDie /\ OnlyVga
  \/ VgaSupervise /\ OnlyVga

Spec == Init /\ [][Next]_vars

(* IRQ0 and IRQ1 are delivered; a driver is a HIGH priority task that the     *)
(* scheduler reaches; the console keeps reading the keyboard.                 *)
Fairness ==
  /\ WF_vars(Tick)
  /\ WF_vars(Interrupt1)
  /\ WF_vars(PollKeyboard)
  /\ WF_vars(SerialDriver)
  /\ WF_vars(Ps2Driver)

-------------------------------------------------------------------------------

(* Every byte given to write_serial and taken from the ring is in exactly one *)
(* place: in the chunk a driver holds, on the wire, or lost with a driver. So *)
(* is every scan code read from the keyboard controller.                      *)
NothingDoubledNorDropped ==
  /\ hand \cup out \cup lost = 1..tail
  /\ hand \cap out = {} /\ hand \cap lost = {} /\ out \cap lost = {}
  /\ hold \cup applied \cup keysLost = 1..fetched
  /\ hold \cap applied = {} /\ hold \cap keysLost = {}
  /\ applied \cap keysLost = {}

(* "single FIFO, order kept" (kernel.c, write_serial): whatever goes on the   *)
(* wire was written after everything already there, whoever of the driver,    *)
(* the watchdog, the owner check and write_serial puts it there; the one      *)
(* exception is a ring that overflowed while the driver held a chunk.         *)
SerialInOrder ==
  [][bypassed' \/ \A b \in out' \ out, a \in out : a < b]_vars

(* Key events reach the console in the order of the keys and once each, from  *)
(* whichever of IRQ1, the poll, the driver and the watchdog, unless the       *)
(* watchdog drained the port under a driver that was reading it.              *)
KeysInOrder ==
  [][raced' \/ (~doubled' /\ \A k \in applied' \ applied, j \in applied : j < k)]_vars

(* The driver has nothing left to do, or Ring 0 has the screen.               *)
Settled == ~Owned("vga") \/ (Serving("vga") /\ todo = {} /\ ~framePending)

(* A screen nobody has work for shows the console's frame, unless Ring 0      *)
(* painted over a live driver since its claim (the driver's cache of the      *)
(* screen is then wrong, and it leaves out cells that changed).               *)
ScreenCurrent == Settled => (overpainted \/ screen = frame)

(* Every byte written leaves, and every key is applied, or is lost in the     *)
(* hands of a driver that died: no wake-up lost in device_block, no stall,    *)
(* no death and no exhausted respawn budget strands it.                       *)
AllArrive ==
  /\ \A b \in 1..MaxBytes : (b <= written) ~> (b \in out \cup lost)
  /\ \A k \in 1..MaxKeys : (k <= pressed) ~> (k \in applied \cup keysLost)
===============================================================================
