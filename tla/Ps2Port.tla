------------------------------- MODULE Ps2Port -------------------------------
(* The PS/2 input path: the 8042 controller (external), IRQ1, the pending flag *)
(* of kernel/device_service.c, the Ring 0 reads of kernel/keyboard.c and       *)
(* bin/ps2driver. Scan codes are numbered in the order the keys produced them, *)
(* so the controller holds exactly fetched+1 .. pressed.                       *)
EXTENDS DriverHost

CONSTANTS
  MaxKeys,    \* bound: scan codes produced in a behaviour
  Batch       \* OS_INPUT_MAX_EVENTS

ASSUME Ps2Constants == MaxKeys \in Nat /\ Batch \in Nat \ {0}

VARIABLES
  pressed,    \* scan codes the controller received
  fetched,    \* the last one somebody read from port 0x60
  irq,        \* IRQ1 is latched and not delivered
  seq,        \* g_ps2.seq: interrupts counted for the driver
  pending,    \* g_ps2.pending
  pendAge,    \* ticks since pending_since, up to StallTicks
  mySeq,      \* the sequence number OS_DEV_OP_PS2_WAIT returned to the driver
  look,       \* what the driver's last read of the status port told it
  hold,       \* the codes the driver read and has not submitted
  applied,    \* the codes whose event reached the console
  keysLost,   \* the codes a driver died with
  doubled,    \* history: the driver read a code again that Ring 0 had read
  raced       \* history: Ring 0 drained the port under a driver at work

ps2Vars == <<pressed, fetched, irq, seq, pending, pendAge, mySeq, look, hold,
             applied, keysLost, doubled, raced>>

Ps2TypeOK ==
  /\ pressed \in 0..MaxKeys
  /\ fetched \in 0..pressed
  /\ irq \in BOOLEAN
  /\ seq \in Nat /\ mySeq \in Nat
  /\ pending \in BOOLEAN
  /\ pendAge \in 0..StallTicks
  /\ look \in {"unknown", "full", "empty"}
  /\ hold \in SUBSET (1..fetched)
  /\ applied \in SUBSET (1..fetched)
  /\ keysLost \in SUBSET (1..fetched)
  /\ doubled \in BOOLEAN /\ raced \in BOOLEAN

Ps2Init ==
  /\ pressed = 0 /\ fetched = 0
  /\ irq = FALSE
  /\ seq = 0 /\ mySeq = 0
  /\ pending = FALSE
  /\ pendAge = StallTicks
  /\ look = "unknown"
  /\ hold = {} /\ applied = {} /\ keysLost = {}
  /\ doubled = FALSE /\ raced = FALSE

Waiting == fetched + 1 .. pressed

(* External: a key. The controller raises IRQ1 when its output buffer fills,  *)
(* again after each read that leaves a byte behind it.                        *)
KeyPress ==
  /\ pressed < MaxKeys
  /\ pressed' = pressed + 1
  /\ irq' = (irq \/ Waiting = {})
  /\ UNCHANGED <<fetched, seq, pending, pendAge, mySeq, look, hold, applied,
                 keysLost, doubled, raced>>
  /\ UNCHANGED hostVars

(* Ring 0 reads the n oldest bytes and applies them itself (kbd_ring0_byte).  *)
Ring0Reads(n) ==
  /\ fetched' = fetched + n
  /\ applied' = applied \cup (fetched + 1 .. fetched + n)

(* keyboard_interrupt_handler: with an owner only count and wake; the byte    *)
(* stays in the controller. Without one read it, if the status says so.       *)
Irq1 ==
  /\ irq
  /\ IF Owned("ps2")
     THEN /\ seq' = seq + 1
          /\ pending' = TRUE
          /\ pendAge' = IF pending THEN pendAge ELSE 0
          /\ proc' = Woken("ps2", proc)
          /\ irq' = FALSE
          /\ UNCHANGED <<fetched, applied>>
     ELSE /\ IF Waiting = {} THEN UNCHANGED <<fetched, applied>>
                             ELSE Ring0Reads(1)
          /\ irq' = (pressed - fetched > 1)
          /\ UNCHANGED <<seq, pending, pendAge, proc>>
  /\ UNCHANGED <<pressed, mySeq, look, hold, keysLost, doubled, raced>>
  /\ UNCHANGED <<owner, handedOff, respawns, pid, left, inCall, checkAge>>

\* Mutant: the port is polled under a driver.
M_Poll ==
  /\ inCall = "none"
  /\ Waiting # {}
  /\ Ring0Reads(1)
  /\ irq' = (irq \/ pressed - fetched > 1)
  /\ UNCHANGED <<pressed, seq, pending, pendAge, mySeq, look, hold, keysLost,
                 doubled, raced>>
  /\ UNCHANGED hostVars

(* keyboard_poll_check: a task that reads the keyboard polls the port, with   *)
(* interrupts disabled, while no driver owns it.                              *)
Poll ==
  /\ inCall = "none"
  /\ ~Owned("ps2")
  /\ Waiting # {}
  /\ Ring0Reads(1)
  /\ irq' = (irq \/ pressed - fetched > 1)
  /\ UNCHANGED <<pressed, seq, pending, pendAge, mySeq, look, hold, keysLost,
                 doubled, raced>>
  /\ UNCHANGED hostVars

(* OS_DEV_OP_PS2_CLAIM                                                        *)
Ps2Claim ==
  /\ HostClaim("ps2", "loop")
  /\ pending' = FALSE
  /\ UNCHANGED <<pressed, fetched, irq, seq, pendAge, mySeq, look, hold,
                 applied, keysLost, doubled, raced>>

(* OS_DEV_OP_PS2_WAIT                                                         *)
Ps2Enter == EnterWait("ps2", pending) /\ UNCHANGED ps2Vars

Ps2Sleep == FallAsleep("ps2") /\ UNCHANGED ps2Vars

Ps2Resume == Resume("ps2", pending) /\ UNCHANGED ps2Vars

(* WAIT returns the sequence number, after an interrupt or a timeout.         *)
Ps2Return ==
  /\ LeaveCall("ps2", "work")
  /\ mySeq' = seq
  /\ UNCHANGED <<pressed, fetched, irq, seq, pending, pendAge, look, hold,
                 applied, keysLost, doubled, raced>>

(* inb(0x64) at CPL 3: is there a byte?                                       *)
Ps2Status ==
  /\ UserStep("ps2", "work", "work")
  /\ look = "unknown"
  /\ Cardinality(hold) < Batch
  /\ look' = IF Waiting # {} THEN "full" ELSE "empty"
  /\ UNCHANGED <<pressed, fetched, irq, seq, pending, pendAge, mySeq, hold,
                 applied, keysLost, doubled, raced>>

(* inb(0x60) at CPL 3: the next byte, or the last one again when the port was *)
(* drained since the status was read.                                         *)
Ps2Read ==
  /\ UserStep("ps2", "work", "work")
  /\ look = "full"
  /\ look' = "unknown"
  /\ IF Waiting # {}
     THEN /\ fetched' = fetched + 1
          /\ hold' = hold \cup {fetched + 1}
          /\ irq' = (irq \/ pressed - fetched > 1)
          /\ UNCHANGED doubled
     ELSE doubled' = TRUE /\ UNCHANGED <<fetched, hold, irq>>
  /\ UNCHANGED <<pressed, seq, pending, pendAge, mySeq, applied, keysLost, raced>>

(* devsvc_ps2_served: only the driver that saw the last interrupt clears it.  *)
Served(s) ==
  IF s # seq
  THEN /\ pending' = pending
       /\ pendAge' = IF pending THEN 0 ELSE pendAge
  ELSE /\ pending' = FALSE
       /\ pendAge' = pendAge

(* OS_DEV_OP_PS2_SUBMIT of a full batch: an old sequence number (seq - 1),    *)
(* the interrupt stays pending and the driver reads on.                       *)
Ps2SubmitBatch ==
  /\ UserStep("ps2", "work", "work")
  /\ look = "unknown"
  /\ Cardinality(hold) = Batch
  /\ applied' = applied \cup hold
  /\ hold' = {}
  /\ pendAge' = IF pending THEN 0 ELSE pendAge
  /\ UNCHANGED <<pressed, fetched, irq, seq, pending, mySeq, look, keysLost,
                 doubled, raced>>

(* OS_DEV_OP_PS2_SUBMIT at the end of the read loop.                          *)
Ps2Submit ==
  /\ UserStep("ps2", "work", "loop")
  /\ look = "empty"
  /\ look' = "unknown"
  /\ applied' = applied \cup hold
  /\ hold' = {}
  /\ Served(mySeq)
  /\ UNCHANGED <<pressed, fetched, irq, seq, mySeq, keysLost, doubled, raced>>

Ps2Die ==
  /\ HostDie("ps2")
  /\ keysLost' = keysLost \cup hold
  /\ hold' = {}
  /\ look' = "unknown"
  /\ UNCHANGED <<pressed, fetched, irq, seq, pending, pendAge, mySeq, applied,
                 doubled, raced>>

(* device_supervise: the dead owner is forgotten; the port is not drained.    *)
Ps2Supervise == HostSupervise("ps2") /\ UNCHANGED ps2Vars

(* devsvc_watchdog and the owner check: keyboard_ring0_drain reads the port   *)
(* for a driver that is gone or left an interrupt pending for StallTicks.     *)
Ps2Stalled == Owned("ps2") /\ pending /\ pendAge + 1 >= StallTicks

Ps2Tick ==
  /\ pendAge' = Older(pendAge, StallTicks)
  /\ pending' = (pending /\ ~Ps2Stalled)
  /\ IF Ps2Stalled \/ FoundGone("ps2")
     THEN /\ Ring0Reads(pressed - fetched)
          /\ irq' = (irq \/ pressed - fetched > 1)
          /\ raced' = (raced \/ (Waiting # {} /\ (hold # {} \/ look = "full")))
     ELSE UNCHANGED <<fetched, applied, irq, raced>>
  /\ UNCHANGED <<pressed, seq, mySeq, look, hold, keysLost, doubled>>

===============================================================================
