------------------------------ MODULE SerialLine ------------------------------
(* The COM1 line: write_serial, the byte ring of kernel/device_service.c, the *)
(* Ring 0 flush and bin/serialdriver. The bytes are numbered in the order     *)
(* write_serial got them, so the ring holds exactly tail+1 .. written.        *)
EXTENDS DriverHost

CONSTANTS
  MaxBytes,   \* bound: bytes written in a behaviour
  RingSize,   \* DEVICE_SERIAL_RING (one slot stays empty)
  Chunk       \* OS_SERIAL_CHUNK

ASSUME SerialConstants ==
  /\ MaxBytes \in Nat
  /\ RingSize \in Nat \ {0, 1}
  /\ Chunk \in Nat \ {0}

VARIABLES
  written,    \* bytes handed to write_serial
  tail,       \* the last byte that left the ring (or went out directly)
  inflight,   \* g_ser.inflight: a chunk was taken and is not finished
  takeAge,    \* ticks since last_take, up to StallTicks
  hand,       \* the bytes of its chunk the driver has not written
  out,        \* the bytes on the wire
  lost,       \* the bytes a driver died with
  bypassed    \* history: a full ring was flushed past a chunk in hand

serialVars == <<written, tail, inflight, takeAge, hand, out, lost, bypassed>>

SerialTypeOK ==
  /\ written \in 0..MaxBytes
  /\ tail \in 0..written
  /\ inflight \in BOOLEAN
  /\ takeAge \in 0..StallTicks
  /\ hand \in SUBSET (1..tail)
  /\ out \in SUBSET (1..tail)
  /\ lost \in SUBSET (1..tail)
  /\ bypassed \in BOOLEAN

SerialInit ==
  /\ written = 0 /\ tail = 0
  /\ inflight = FALSE
  /\ takeAge = StallTicks
  /\ hand = {} /\ out = {} /\ lost = {}
  /\ bypassed = FALSE

(* devsvc_serial_queued: the bytes waiting in the ring.                       *)
Queued == tail + 1 .. written

Full == written - tail = RingSize - 1

(* write_serial, in a task or an interrupt handler (it disables interrupts).  *)
(* Without an owner the leftovers and the byte go out from Ring 0. With one   *)
(* the byte is queued and the driver woken; a full ring is flushed first.     *)
WriteSerial ==
  /\ written < MaxBytes
  /\ written' = written + 1
  /\ \/ /\ ~Owned("serial")
        /\ out' = out \cup Queued \cup {written + 1}
        /\ tail' = written + 1
        /\ UNCHANGED <<bypassed, proc>>
     \/ /\ Owned("serial") /\ ~Full
        /\ proc' = Woken("serial", proc)
        /\ UNCHANGED <<out, tail, bypassed>>
     \/ /\ Owned("serial") /\ Full
        /\ out' = out \cup Queued
        /\ tail' = written
        /\ bypassed' = (bypassed \/ hand # {})
        /\ proc' = Woken("serial", proc)
  /\ UNCHANGED <<inflight, takeAge, hand, lost>>
  /\ UNCHANGED <<owner, handedOff, respawns, pid, left, inCall, checkAge>>

(* OS_DEV_OP_SERIAL_CLAIM                                                     *)
SerialClaim ==
  /\ HostClaim("serial", "loop")
  /\ inflight' = FALSE
  /\ UNCHANGED <<written, tail, takeAge, hand, out, lost, bypassed>>

(* OS_DEV_OP_SERIAL_TAKE: devsvc_serial_done, then device_block.              *)
SerialEnter ==
  /\ EnterWait("serial", Queued # {})
  /\ inflight' = FALSE
  /\ takeAge' = 0
  /\ UNCHANGED <<written, tail, hand, out, lost, bypassed>>

SerialSleep == FallAsleep("serial") /\ UNCHANGED serialVars

SerialResume == Resume("serial", Queued # {}) /\ UNCHANGED serialVars

(* devsvc_serial_take, with interrupts disabled: what the ring holds now.     *)
SerialTake ==
  LET n == IF written - tail < Chunk THEN written - tail ELSE Chunk
  IN /\ LeaveCall("serial", IF n > 0 THEN "work" ELSE "loop")
     /\ inflight' = (n > 0)
     /\ takeAge' = 0
     /\ hand' = tail + 1 .. tail + n
     /\ tail' = tail + n
     /\ UNCHANGED <<written, out, lost, bypassed>>

(* outb of the next byte of the chunk at CPL 3.                               *)
SerialOut ==
  \E b \in hand :
    /\ \A c \in hand : b <= c
    /\ UserStep("serial", "work", IF hand = {b} THEN "loop" ELSE "work")
    /\ hand' = hand \ {b}
    /\ out' = out \cup {b}
    /\ UNCHANGED <<written, tail, inflight, takeAge, lost, bypassed>>

(* The chunk dies with the driver; the kernel has not noticed yet.            *)
SerialDie ==
  /\ HostDie("serial")
  /\ lost' = lost \cup hand
  /\ hand' = {}
  /\ UNCHANGED <<written, tail, inflight, takeAge, out, bypassed>>

(* device_supervise: devsvc_owner_gone, no flush (the next byte or tick does).*)
SerialSupervise ==
  /\ HostSupervise("serial")
  /\ inflight' = (inflight /\ ~Owned("serial"))
  /\ UNCHANGED <<written, tail, takeAge, hand, out, lost, bypassed>>

\* Mutant: a chunk in flight is not looked at.
M_WatchdogFlushes ==
  \/ FoundGone("serial")
  \/ ~Owned("serial")
  \/ takeAge + 1 >= StallTicks

(* devsvc_watchdog and the owner check: Ring 0 flushes the ring of a driver   *)
(* that is gone or has not taken for StallTicks, never past a chunk in flight.*)
WatchdogFlushes ==
  \/ FoundGone("serial")
  \/ ~Owned("serial")
  \/ ~inflight /\ takeAge + 1 >= StallTicks

\* Mutant: the flushed bytes stay in the ring.
M_SerialTick ==
  /\ takeAge' = Older(takeAge, StallTicks)
  /\ inflight' = (inflight /\ ~FoundGone("serial"))
  /\ out' = IF WatchdogFlushes THEN out \cup Queued ELSE out
  /\ UNCHANGED <<written, tail, hand, lost, bypassed>>

SerialTick ==
  /\ takeAge' = Older(takeAge, StallTicks)
  /\ inflight' = (inflight /\ ~FoundGone("serial"))
  /\ IF WatchdogFlushes
     THEN out' = out \cup Queued /\ tail' = written
     ELSE UNCHANGED <<out, tail>>
  /\ UNCHANGED <<written, hand, lost, bypassed>>

===============================================================================
