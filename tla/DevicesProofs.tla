--------------------------- MODULE DevicesProofs ---------------------------
(***************************************************************************)
(* Bytes reach the serial wire in the order they were written, scan codes  *)
(* the console in the order they were typed, and each is in one place, for *)
(* any ring, chunk, time-out and respawn budget, with the three drivers,   *)
(* their deaths and the watchdog interleaved as they may be.               *)
(***************************************************************************)
EXTENDS Devices, TLAPS

\* The part of the drivers' state the argument needs.
HostShape ==
  /\ owner \in [Dev -> Nat] /\ pid \in [Dev -> Nat] /\ proc \in [Dev -> Stages]

LineShape ==
  /\ written \in Nat /\ tail \in Nat /\ tail <= written
  /\ hand \subseteq 1..tail /\ out \subseteq 1..tail

\* A driver past its claim is the owner, and only one at work, with a chunk in
\* flight, holds bytes.
Holder ==
  /\ proc["serial"] # "none" => pid["serial"] > 0
  /\ proc["serial"] \notin {"none", "born"} => owner["serial"] = pid["serial"]
  /\ hand # {} => inflight /\ proc["serial"] = "work"

\* What the driver holds was written after all that is on the wire.
HandAfterOut == bypassed \/ \A a \in out, b \in hand : a < b

LineInv == HostShape /\ LineShape /\ Holder /\ HandAfterOut

\* What SerialInOrder says of one step.
KeepsOrder == bypassed' \/ \A b \in out' \ out, a \in out : a < b

\* A step of the driver of d leaves those of the other devices alone.
Leaves(d) ==
  \A e \in Dev \ {d} : owner'[e] = owner[e] /\ pid'[e] = pid[e] /\ proc'[e] = proc[e]

\* The wait call of a driver concerns its own device only.
LEMMA WaitSteps ==
  ASSUME HostShape, NEW d \in Dev, NEW r,
         EnterWait(d, r) \/ FallAsleep(d) \/ Resume(d, r)
  PROVE  HostShape' /\ Leaves(d)
<1>1. "deciding" \in Stages /\ "blocked" \in Stages /\ "returning" \in Stages
  BY DEF Stages
<1>2. QED
  BY <1>1 DEF EnterWait, FallAsleep, Resume, HostShape, Leaves

\* The return of its call, its steps and its claim concern its own device.
LEMMA StageSteps ==
  ASSUME HostShape, NEW d \in Dev, NEW s \in Stages, NEW t \in Stages,
         LeaveCall(d, s) \/ UserStep(d, t, s) \/ HostClaim(d, s)
  PROVE  HostShape' /\ Leaves(d)
BY DEF LeaveCall, UserStep, HostClaim, HostShape, Leaves

\* Its death and its supervision concern its own device.
LEMMA EndSteps ==
  ASSUME HostShape, NEW d \in Dev, HostDie(d) \/ HostSupervise(d)
  PROVE  HostShape' /\ Leaves(d)
<1>1. "none" \in Stages /\ "born" \in Stages
  BY DEF Stages
<1>2. CASE HostDie(d)
  BY <1>1, <1>2 DEF HostDie, HostShape, Leaves
<1>3. CASE HostSupervise(d)
  BY <1>1, <1>3 DEF HostSupervise, HostShape, Leaves
<1>4. QED
  BY <1>2, <1>3

\* A step that leaves the serial line and its driver alone.
LEMMA Elsewhere ==
  ASSUME LineInv, HostShape', UNCHANGED serialVars, owner'["serial"] = owner["serial"],
         pid'["serial"] = pid["serial"], proc'["serial"] = proc["serial"]
  PROVE  LineInv' /\ KeepsOrder
BY DEF LineInv, LineShape, Holder, HandAfterOut, KeepsOrder, serialVars, Owned

\* device_wake_owner wakes the driver of d and nobody else.
LEMMA WakeStep ==
  ASSUME HostShape, NEW d \in Dev, proc' = Woken(d, proc),
         owner' = owner, pid' = pid
  PROVE  HostShape' /\ Leaves(d)
<1>1. "ready" \in Stages
  BY DEF Stages
<1>2. QED
  BY <1>1 DEF Woken, HostShape, Leaves

\* The steps of bin/ps2driver, of the keyboard and of IRQ1
LEMMA Ps2Steps ==
  ASSUME LineInv, OnlyPs2,
         \/ Ps2Driver \/ KeyPress \/ Irq1 \/ Poll \/ Ps2Die \/ Ps2Supervise
  PROVE  LineInv' /\ KeepsOrder
<1>1. UNCHANGED serialVars /\ "serial" \in Dev \ {"ps2"} /\ "ps2" \in Dev /\ HostShape
  BY DEF OnlyPs2, Dev, LineInv
<1>2. "loop" \in Stages /\ "work" \in Stages
  BY DEF Stages
<1>3. HostShape' /\ Leaves("ps2")
  <2>1. CASE Ps2Enter \/ Ps2Sleep \/ Ps2Resume
    BY <1>1, <2>1, WaitSteps DEF Ps2Enter, Ps2Sleep, Ps2Resume
  <2>2. CASE Ps2Claim \/ Ps2Return
    BY <1>1, <1>2, <2>2, StageSteps DEF Ps2Claim, Ps2Return
  <2>3. CASE Ps2Status \/ Ps2Read \/ Ps2SubmitBatch \/ Ps2Submit
    BY <1>1, <1>2, <2>3, StageSteps DEF Ps2Status, Ps2Read, Ps2SubmitBatch, Ps2Submit
  <2>4. CASE Ps2Die \/ Ps2Supervise
    BY <1>1, <2>4, EndSteps DEF Ps2Die, Ps2Supervise
  <2>5. CASE KeyPress \/ Poll
    BY <1>1, <2>5 DEF KeyPress, Poll, hostVars, HostShape, Leaves
  <2>6. CASE Irq1
    <3>1. owner' = owner /\ pid' = pid /\ (proc' = proc \/ proc' = Woken("ps2", proc))
      BY <2>6 DEF Irq1
    <3>2. CASE proc' = proc
      BY <1>1, <3>1, <3>2 DEF HostShape, Leaves
    <3>3. CASE proc' = Woken("ps2", proc)
      BY <1>1, <3>1, <3>3, WakeStep
    <3>4. QED
      BY <3>1, <3>2, <3>3
  <2>7. QED
    BY <2>1, <2>2, <2>3, <2>4, <2>5, <2>6 DEF Ps2Driver
<1>4. QED
  BY <1>1, <1>3, Elsewhere DEF Leaves

\* The steps of bin/vgadriver and of the console concern the screen only.
LEMMA VgaLeaves ==
  ASSUME HostShape,
         \/ VgaDriver \/ (\E f \in Frames : Present(f)) \/ VgaDie \/ VgaSupervise
  PROVE  HostShape' /\ Leaves("vga")
<1>a. "vga" \in Dev
  BY DEF Dev
<1>b. "loop" \in Stages /\ "work" \in Stages /\ "snap" \in Stages
  BY DEF Stages
<1>1. CASE VgaEnter \/ VgaSleep \/ VgaResume
  BY <1>a, <1>1, WaitSteps DEF VgaEnter, VgaSleep, VgaResume
<1>2. CASE VgaClaim
  BY <1>a, <1>b, <1>2, StageSteps DEF VgaClaim
<1>3. CASE VgaTake
  <2>1. \E s \in Stages : LeaveCall("vga", s)
    BY <1>b, <1>3 DEF VgaTake
  <2>2. QED
    BY <1>a, <1>b, <2>1, StageSteps
<1>4. CASE VgaSnapshot \/ VgaPaint
  <2>1. \E s, t \in Stages : UserStep("vga", t, s)
    BY <1>b, <1>4 DEF VgaSnapshot, VgaPaint
  <2>2. QED
    BY <1>a, <2>1, StageSteps
<1>5. CASE VgaDie \/ VgaSupervise
  BY <1>a, <1>5, EndSteps DEF VgaDie, VgaSupervise
<1>6. CASE \E f \in Frames : Present(f)
  <2>1. owner' = owner /\ pid' = pid /\ (proc' = proc \/ proc' = Woken("vga", proc))
    BY <1>6 DEF Present
  <2>2. CASE proc' = proc
    BY <1>a, <2>1, <2>2 DEF HostShape, Leaves
  <2>3. CASE proc' = Woken("vga", proc)
    BY <1>a, <2>1, <2>3, WakeStep
  <2>4. QED
    BY <2>1, <2>2, <2>3
<1>7. QED
  BY <1>1, <1>2, <1>3, <1>4, <1>5, <1>6 DEF VgaDriver

\* So they leave the serial line alone.
LEMMA VgaSteps ==
  ASSUME LineInv, OnlyVga,
         \/ VgaDriver \/ (\E f \in Frames : Present(f)) \/ VgaDie \/ VgaSupervise
  PROVE  LineInv' /\ KeepsOrder
<1>1. UNCHANGED serialVars /\ "serial" \in Dev \ {"vga"} /\ HostShape
  BY DEF OnlyVga, Dev, LineInv
<1>2. HostShape' /\ Leaves("vga")
  BY <1>1, VgaLeaves
<1>3. QED
  BY <1>1, <1>2, Elsewhere DEF Leaves

\* The steps of bin/serialdriver and write_serial concern the line only.
LEMMA SerialLeaves ==
  ASSUME HostShape, SerialDriver \/ WriteSerial \/ SerialDie \/ SerialSupervise
  PROVE  HostShape' /\ Leaves("serial")
<1>1. "serial" \in Dev
  BY DEF Dev
<1>2. "loop" \in Stages /\ "work" \in Stages
  BY DEF Stages
<1>3. CASE SerialEnter \/ SerialSleep \/ SerialResume
  BY <1>1, <1>3, WaitSteps DEF SerialEnter, SerialSleep, SerialResume
<1>4. CASE SerialClaim
  BY <1>1, <1>2, <1>4, StageSteps DEF SerialClaim
<1>5. CASE SerialTake
  <2>1. \E s \in Stages : LeaveCall("serial", s)
    BY <1>2, <1>5 DEF SerialTake
  <2>2. QED
    BY <1>1, <1>2, <2>1, StageSteps
<1>6. CASE SerialOut
  <2>1. \E s, t \in Stages : UserStep("serial", t, s)
    BY <1>2, <1>6 DEF SerialOut
  <2>2. QED
    BY <1>1, <2>1, StageSteps
<1>7. CASE SerialDie \/ SerialSupervise
  BY <1>1, <1>7, EndSteps DEF SerialDie, SerialSupervise
<1>8. CASE WriteSerial
  <2>1. owner' = owner /\ pid' = pid /\ (proc' = proc \/ proc' = Woken("serial", proc))
    BY <1>8 DEF WriteSerial
  <2>2. CASE proc' = proc
    BY <2>1, <2>2 DEF HostShape, Leaves
  <2>3. CASE proc' = Woken("serial", proc)
    BY <1>1, <2>1, <2>3, WakeStep
  <2>4. QED
    BY <2>1, <2>2, <2>3
<1>9. QED
  BY <1>3, <1>4, <1>5, <1>6, <1>7, <1>8 DEF SerialDriver

\* Ring 0 empties the ring: the driver holds nothing, or the step is the
\* overflow that bypasses it.
LEMMA FlushOrder ==
  ASSUME LineInv, NEW more, out' = out \cup Queued \cup more, tail' = written',
         written' \in Nat, written <= written', hand' = hand,
         more \subseteq (written + 1)..written',
         bypassed' \/ hand = {}
  PROVE  LineShape' /\ HandAfterOut' /\ KeepsOrder
<1>1. /\ written \in Nat /\ tail \in Nat /\ tail <= written
      /\ hand \subseteq 1..tail /\ out \subseteq 1..tail
  BY DEF LineInv, LineShape
<1>2. \A q \in Queued \cup more : q \in 1..written' /\ \A x \in 1..tail : x < q
  BY <1>1 DEF Queued
<1>3. 1..tail \subseteq 1..written'
  BY <1>1
<1>4. LineShape'
  <2>1. hand' \subseteq 1..tail' /\ out' \subseteq 1..tail'
    BY <1>1, <1>2, <1>3, Zenon
  <2>2. QED
    BY <2>1 DEF LineShape
<1>5. KeepsOrder
  BY <1>1, <1>2 DEF KeepsOrder
<1>6. QED
  BY <1>4, <1>5 DEF HandAfterOut


\* Serial steps other than a flush: the ring and the driver's chunk.
LEMMA SerialSteps ==
  ASSUME LineInv, SerialDriver \/ SerialDie \/ SerialSupervise
  PROVE  LineInv' /\ KeepsOrder
<1>1. HostShape /\ LineShape /\ Holder /\ HandAfterOut /\ "serial" \in Dev
  BY DEF LineInv, Dev
<1>2. /\ "loop" \in Stages /\ "work" \in Stages
      /\ written \in Nat /\ tail \in Nat /\ tail <= written
      /\ hand \subseteq 1..tail /\ out \subseteq 1..tail
  BY <1>1 DEF Stages, LineShape
<1>3. CASE SerialClaim
  <2>1. HostShape'
    BY <1>1, <1>2, <1>3, StageSteps DEF SerialClaim
  <2>2. hand = {}
    BY <1>1, <1>3 DEF SerialClaim, HostClaim, Holder
  <2>3. UNCHANGED <<written, tail, hand, out, bypassed>>
    BY <1>3 DEF SerialClaim
  <2>4. Holder'
    BY <1>1, <1>3, <2>2, <2>3 DEF SerialClaim, HostClaim, Holder, HostShape
  <2>5. QED
    BY <1>1, <2>1, <2>2, <2>3, <2>4 DEF LineInv, LineShape, HandAfterOut, KeepsOrder
<1>4. CASE SerialEnter \/ SerialSleep \/ SerialResume
  <2>1. HostShape'
    BY <1>1, <1>4, WaitSteps DEF SerialEnter, SerialSleep, SerialResume
  <2>2. hand = {}
    BY <1>1, <1>4 DEF SerialEnter, SerialSleep, SerialResume, EnterWait, FallAsleep, Resume, Holder
  <2>3. UNCHANGED <<written, tail, hand, out, bypassed>>
    BY <1>4 DEF SerialEnter, SerialSleep, SerialResume, serialVars
  <2>4. UNCHANGED <<owner, pid>> /\ proc["serial"] \notin {"none", "born"}
    BY <1>4 DEF SerialEnter, SerialSleep, SerialResume, EnterWait, FallAsleep, Resume
  <2>5. Holder'
    BY <1>1, <2>2, <2>3, <2>4 DEF Holder
  <2>6. QED
    BY <1>1, <2>1, <2>2, <2>3, <2>5 DEF LineInv, LineShape, HandAfterOut, KeepsOrder
<1>5. CASE SerialTake
  <2> DEFINE n == IF written - tail < Chunk THEN written - tail ELSE Chunk
             s == IF n > 0 THEN "work" ELSE "loop"
  <2>1. /\ LeaveCall("serial", s)
        /\ inflight' = (n > 0) /\ hand' = tail + 1 .. tail + n /\ tail' = tail + n
        /\ UNCHANGED <<written, out, lost, bypassed>>
    BY <1>5 DEF SerialTake
  <2>2. n \in Nat /\ tail + n <= written
    BY <1>2, SerialConstants
  <2>3. s \in Stages /\ (n > 0 => s = "work") /\ s \notin {"none", "born"}
    BY <1>2
  <2> HIDE DEF n, s
  <2>4. HostShape'
    BY <1>1, <1>2, <2>1, <2>3, StageSteps
  <2>5. /\ UNCHANGED <<owner, pid>> /\ proc["serial"] \notin {"none", "born"}
        /\ proc'["serial"] = s
    BY <1>1, <2>1 DEF LeaveCall, HostShape
  <2>6. LineShape'
    BY <1>2, <2>1, <2>2 DEF LineShape
  <2>7. HandAfterOut' /\ KeepsOrder
    BY <1>2, <2>1, <2>2 DEF HandAfterOut, KeepsOrder
  <2>8. Holder'
    <3>1. hand' # {} => n > 0
      BY <1>2, <2>1, <2>2
    <3>2. QED
      BY <1>1, <2>1, <2>3, <2>5, <3>1 DEF Holder
  <2>9. QED
    BY <2>4, <2>6, <2>7, <2>8 DEF LineInv
<1>6. CASE SerialOut
  <2>1. PICK b \in hand :
          /\ \A c \in hand : b <= c
          /\ UserStep("serial", "work", IF hand = {b} THEN "loop" ELSE "work")
          /\ hand' = hand \ {b} /\ out' = out \cup {b}
          /\ UNCHANGED <<written, tail, inflight, takeAge, lost, bypassed>>
    BY <1>6 DEF SerialOut
  <2>2. HostShape'
    <3>1. \E s \in Stages : UserStep("serial", "work", s)
      BY <1>2, <2>1
    <3>2. QED
      BY <1>1, <1>2, <3>1, StageSteps
  <2>3. LineShape'
    BY <1>2, <2>1 DEF LineShape
  <2>4. \A c \in hand \ {b} : b < c
    BY <1>2, <2>1
  <2>5. HandAfterOut' /\ KeepsOrder
    BY <1>1, <2>1, <2>4 DEF HandAfterOut, KeepsOrder
  <2>6. Holder'
    <3>1. /\ UNCHANGED <<owner, pid>> /\ proc["serial"] = "work"
          /\ proc'["serial"] = IF hand = {b} THEN "loop" ELSE "work"
      BY <1>1, <2>1 DEF UserStep, HostShape
    <3>2. hand' # {} => hand # {b}
      BY <2>1
    <3>3. QED
      BY <1>1, <2>1, <3>1, <3>2 DEF Holder
  <2>7. QED
    BY <2>2, <2>3, <2>5, <2>6 DEF LineInv
<1>7. CASE SerialDie
  <2>1. HostShape'
    BY <1>1, <1>7, EndSteps DEF SerialDie
  <2>2. hand' = {} /\ UNCHANGED <<written, tail, out, bypassed>>
    BY <1>7 DEF SerialDie
  <2>3. Holder'
    BY <1>1, <1>7, <2>2 DEF SerialDie, HostDie, Holder, HostShape
  <2>4. QED
    BY <1>1, <2>1, <2>2, <2>3 DEF LineInv, LineShape, HandAfterOut, KeepsOrder
<1>8. CASE SerialSupervise
  <2>1. HostShape'
    BY <1>1, <1>8, EndSteps DEF SerialSupervise
  <2>2. UNCHANGED <<written, tail, hand, out, bypassed>>
    BY <1>8 DEF SerialSupervise
  <2>3. HostSupervise("serial") /\ proc["serial"] \in {"none", "born"}
    BY <1>1, <1>8 DEF SerialSupervise, HostSupervise, Serving, OwnerAlive, Owned, Holder
  <2>4. hand = {}
    BY <1>1, <2>3 DEF Holder
  <2>5. Holder'
    BY <1>1, <2>2, <2>3, <2>4 DEF HostSupervise, Holder, HostShape
  <2>6. QED
    BY <1>1, <2>1, <2>2, <2>4, <2>5 DEF LineInv, LineShape, HandAfterOut, KeepsOrder
<1>9. QED
  BY <1>3, <1>4, <1>5, <1>6, <1>7, <1>8 DEF SerialDriver

\* write_serial: Ring 0 writes when nobody owns the line, and past a driver
\* with a chunk only when the ring is full.
LEMMA WriteStep ==
  ASSUME LineInv, WriteSerial
  PROVE  LineInv' /\ KeepsOrder
<1>1. HostShape /\ LineShape /\ Holder /\ HandAfterOut /\ "serial" \in Dev
  BY DEF LineInv, Dev
<1>2. /\ written \in Nat /\ tail \in Nat /\ tail <= written
      /\ written' = written + 1 /\ hand' = hand /\ inflight' = inflight
      /\ owner' = owner /\ pid' = pid
  BY <1>1 DEF LineShape, WriteSerial
<1>3. proc' = proc \/ proc' = Woken("serial", proc)
  BY DEF WriteSerial
<1>4. HostShape'
  <2>1. CASE proc' = proc
    BY <1>1, <1>2, <2>1 DEF HostShape
  <2>2. CASE proc' = Woken("serial", proc)
    BY <1>1, <1>2, <2>2, WakeStep
  <2>3. QED
    BY <1>3, <2>1, <2>2
<1>5. Holder'
  <2>1. CASE proc' = proc
    BY <1>1, <1>2, <2>1 DEF Holder
  <2>2. CASE proc' = Woken("serial", proc)
    BY <1>1, <1>2, <2>2 DEF Holder, Woken, HostShape
  <2>3. QED
    BY <1>3, <2>1, <2>2
<1>6. CASE ~Owned("serial")
  <2>1. hand = {}
    BY <1>1, <1>6 DEF Owned, Holder
  <2>2. out' = out \cup Queued \cup {written + 1} /\ tail' = written'
    BY <1>2, <1>6 DEF WriteSerial
  <2>3. {written + 1} \subseteq (written + 1)..written' /\ written' \in Nat /\ written <= written'
    BY <1>2
  <2>4. LineShape' /\ HandAfterOut' /\ KeepsOrder
    BY <1>2, <2>1, <2>2, <2>3, FlushOrder
  <2>5. QED
    BY <1>4, <1>5, <2>4 DEF LineInv
<1>7. CASE Owned("serial") /\ ~Full
  <2>1. UNCHANGED <<out, tail, bypassed>>
    BY <1>7 DEF WriteSerial
  <2>2. QED
    BY <1>1, <1>2, <1>4, <1>5, <2>1 DEF LineInv, LineShape, HandAfterOut, KeepsOrder
<1>8. CASE Owned("serial") /\ Full
  <2>1. out' = out \cup Queued /\ tail' = written /\ bypassed' = (bypassed \/ hand # {})
    BY <1>8 DEF WriteSerial
  <2>2. \A q \in Queued : q \in 1..written /\ \A x \in 1..tail : x < q
    BY <1>2 DEF Queued
  <2>3. LineShape'
    <3>1. hand \subseteq 1..written /\ out \subseteq 1..written
      BY <1>1, <1>2 DEF LineShape
    <3>2. hand' \subseteq 1..tail' /\ out' \subseteq 1..tail'
      BY <1>2, <2>1, <2>2, <3>1, Zenon
    <3>3. QED
      BY <1>2, <2>1, <3>2 DEF LineShape
  <2>4. KeepsOrder
    BY <1>1, <2>1, <2>2 DEF LineShape, KeepsOrder
  <2>5. HandAfterOut'
    BY <1>2, <2>1 DEF HandAfterOut
  <2>6. QED
    BY <1>4, <1>5, <2>3, <2>4, <2>5 DEF LineInv
<1>9. QED
  BY <1>6, <1>7, <1>8

\* IRQ0: the watchdog flushes only when the driver holds nothing.
LEMMA TickStep ==
  ASSUME LineInv, HostTick, SerialTick
  PROVE  LineInv' /\ KeepsOrder
<1>1. HostShape /\ LineShape /\ Holder /\ HandAfterOut /\ "serial" \in Dev
  BY DEF LineInv, Dev
<1>2. "ready" \in Stages /\ 0 \in Nat
  BY DEF Stages
<1>3. HostShape'
  BY <1>1, <1>2 DEF HostTick, HostShape
<1>4. /\ pid' = pid
      /\ proc'["serial"] = proc["serial"] \/ (proc["serial"] = "blocked" /\ proc'["serial"] = "ready")
      /\ owner'["serial"] = IF FoundGone("serial") THEN 0 ELSE owner["serial"]
  BY <1>1 DEF HostTick
<1>5. FoundGone("serial") => proc["serial"] \in {"none", "born"}
  BY <1>1 DEF FoundGone, OwnerAlive, Holder
<1>6. WatchdogFlushes => hand = {}
  BY <1>1, <1>5 DEF WatchdogFlushes, Holder, Owned
<1>7. hand' = hand /\ written' = written /\ bypassed' = bypassed
      /\ inflight' = (inflight /\ ~FoundGone("serial"))
  BY DEF SerialTick
<1>8. Holder'
  BY <1>1, <1>4, <1>5, <1>7 DEF Holder
<1>9. LineShape' /\ HandAfterOut' /\ KeepsOrder
  <2>1. CASE WatchdogFlushes
    <3>1. out' = out \cup Queued \cup {} /\ tail' = written' /\ hand = {}
      BY <1>6, <1>7, <2>1 DEF SerialTick
    <3>2. written' \in Nat /\ written <= written' /\ {} \subseteq (written + 1)..written'
      BY <1>1, <1>7 DEF LineShape
    <3>3. QED
      BY <1>7, <3>1, <3>2, FlushOrder
  <2>2. CASE ~WatchdogFlushes
    <3>1. out' = out /\ tail' = tail
      BY <2>2 DEF SerialTick
    <3>2. QED
      BY <1>1, <1>7, <3>1 DEF LineShape, HandAfterOut, KeepsOrder
  <2>3. QED
    BY <2>1, <2>2
<1>10. QED
  BY <1>3, <1>8, <1>9 DEF LineInv

\* The drivers the boot started have not claimed anything.
LEMMA LineInit == Init => LineInv
<1> SUFFICES ASSUME Init
             PROVE  LineInv
  OBVIOUS
<1>1. HostInit /\ SerialInit /\ "serial" \in Dev /\ "born" \in Stages /\ "none" \in Stages
  BY DEF Init, Dev, Stages
<1>2. HostShape /\ Holder
  BY <1>1 DEF HostInit, SerialInit, HostShape, Holder
<1>3. LineShape /\ HandAfterOut
  BY <1>1 DEF SerialInit, LineShape, HandAfterOut
<1>4. QED
  BY <1>2, <1>3 DEF LineInv

\* Every step keeps the invariant and the order on the wire.
LEMMA LineNext ==
  ASSUME LineInv, [Next]_vars
  PROVE  LineInv' /\ KeepsOrder
<1>1. CASE Tick
  BY <1>1, TickStep DEF Tick
<1>2. CASE SerialDriver \/ SerialDie \/ SerialSupervise
  BY <1>2, SerialSteps
<1>3. CASE WriteSerial
  BY <1>3, WriteStep
<1>4. CASE \/ Ps2Driver \/ (KeyPress /\ OnlyPs2) \/ Interrupt1 \/ PollKeyboard
           \/ (Ps2Die /\ OnlyPs2) \/ (Ps2Supervise /\ OnlyPs2)
  <2>1. OnlyPs2 /\ (Ps2Driver \/ KeyPress \/ Irq1 \/ Poll \/ Ps2Die \/ Ps2Supervise)
    BY <1>4 DEF Ps2Driver, Interrupt1, PollKeyboard
  <2>2. QED
    BY <2>1, Ps2Steps
<1>5. CASE \/ VgaDriver \/ (\E f \in Frames : Present(f) /\ OnlyVga)
           \/ (VgaDie /\ OnlyVga) \/ (VgaSupervise /\ OnlyVga)
  <2>1. OnlyVga /\ (VgaDriver \/ (\E f \in Frames : Present(f)) \/ VgaDie \/ VgaSupervise)
    BY <1>5 DEF VgaDriver
  <2>2. QED
    BY <2>1, VgaSteps
<1>6. CASE UNCHANGED vars
  BY <1>6, Elsewhere DEF vars, hostVars, LineInv, HostShape
<1>7. QED
  BY <1>1, <1>2, <1>3, <1>4, <1>5, <1>6 DEF Next

\* Whoever puts a byte on the wire, it was written after all that is there,
\* unless a full ring was flushed past a driver with a chunk.
THEOREM SerialKeepsOrder == Spec => SerialInOrder
<1>1. Init => LineInv
  BY LineInit
<1>2. LineInv /\ [Next]_vars => LineInv' /\ [KeepsOrder]_vars
  BY LineNext
<1>3. QED
  BY <1>1, <1>2, PTL DEF Spec, SerialInOrder, KeepsOrder

-----------------------------------------------------------------------------
(* The keyboard *)

KeyShape ==
  /\ pressed \in Nat /\ fetched \in Nat /\ fetched <= pressed
  /\ look \in {"unknown", "full", "empty"}

\* A driver past its claim is the owner, and only one at work has read the
\* status port or holds scan codes.
Reader ==
  /\ proc["ps2"] # "none" => pid["ps2"] > 0
  /\ proc["ps2"] \notin {"none", "born"} => owner["ps2"] = pid["ps2"]
  /\ hold # {} \/ look # "unknown" => proc["ps2"] = "work"

\* A driver told that there is a code finds one, and what it holds was typed
\* after all that was applied.
HoldAfterApplied ==
  \/ raced
  \/ /\ ~doubled /\ (look = "full" => fetched < pressed)
     /\ \A a \in applied, h \in hold : a < h

\* What NothingDoubledNorDropped says of scan codes.
KeysSplit ==
  /\ hold \cup applied \cup keysLost = 1..fetched
  /\ hold \cap applied = {} /\ hold \cap keysLost = {} /\ applied \cap keysLost = {}

KeyInv == KeyShape /\ Reader /\ HoldAfterApplied /\ KeysSplit

\* What KeysInOrder says of one step.
KeysKeepOrder ==
  raced' \/ (~doubled' /\ \A k \in applied' \ applied, j \in applied : j < k)

\* A step that leaves the keyboard and its driver alone.
LEMMA KeysElsewhere ==
  ASSUME KeyInv, UNCHANGED ps2Vars, owner'["ps2"] = owner["ps2"],
         pid'["ps2"] = pid["ps2"], proc'["ps2"] = proc["ps2"]
  PROVE  KeyInv' /\ KeysKeepOrder
BY DEF KeyInv, KeyShape, Reader, HoldAfterApplied, KeysSplit, KeysKeepOrder, ps2Vars

\* Ring 0 reads codes: nobody holds older ones, or the race is noted.
LEMMA Ring0Order ==
  ASSUME KeyInv, NEW n \in Nat, fetched + n <= pressed, Ring0Reads(n),
         UNCHANGED <<pressed, look, hold, keysLost, doubled>>,
         raced => raced', raced' \/ n = 0 \/ (hold = {} /\ look # "full")
  PROVE  KeyShape' /\ HoldAfterApplied' /\ KeysSplit' /\ KeysKeepOrder
<1> DEFINE new == fetched + 1 .. fetched + n
<1>1. /\ pressed \in Nat /\ fetched \in Nat /\ fetched' = fetched + n
      /\ applied' = applied \cup new
      /\ hold \cup applied \cup keysLost = 1..fetched
  BY DEF KeyInv, KeyShape, KeysSplit, Ring0Reads
<1>2. /\ 1..fetched' = (1..fetched) \cup new
      /\ \A k \in new : k \notin 1..fetched /\ \A j \in 1..fetched : j < k
      /\ n = 0 => new = {}
  BY <1>1
<1> HIDE DEF new
<1>3. KeyShape'
  BY <1>1 DEF KeyInv, KeyShape
<1>4. KeysSplit'
  <2>1. hold' \cup applied' \cup keysLost' = 1..fetched'
    BY <1>1, <1>2, Zenon
  <2>2. hold' \cap applied' = {} /\ hold' \cap keysLost' = {} /\ applied' \cap keysLost' = {}
    BY <1>1, <1>2 DEF KeyInv, KeysSplit
  <2>3. QED
    BY <2>1, <2>2 DEF KeysSplit
<1>5. KeysKeepOrder
  <2>1. \A k \in applied' \ applied, j \in applied : j < k
    BY <1>1, <1>2
  <2>2. QED
    BY <2>1 DEF KeyInv, HoldAfterApplied, KeysKeepOrder
<1>6. HoldAfterApplied'
  <2>1. CASE raced'
    BY <2>1 DEF HoldAfterApplied
  <2>2. CASE n = 0
    BY <1>1, <1>2, <2>2 DEF KeyInv, HoldAfterApplied
  <2>3. CASE ~raced' /\ hold = {} /\ look # "full"
    BY <2>3 DEF KeyInv, HoldAfterApplied
  <2>4. QED
    BY <2>1, <2>2, <2>3
<1>7. QED
  BY <1>3, <1>4, <1>5, <1>6

\* The steps of bin/ps2driver
LEMMA ReaderSteps ==
  ASSUME HostShape, KeyInv, Ps2Driver \/ Ps2Die \/ Ps2Supervise
  PROVE  KeyInv' /\ KeysKeepOrder
<1>1. KeyShape /\ Reader /\ HoldAfterApplied /\ KeysSplit /\ "ps2" \in Dev
  BY DEF KeyInv, Dev
<1>2. CASE Ps2Claim
  <2>1. hold = {} /\ look = "unknown"
    BY <1>1, <1>2 DEF Ps2Claim, HostClaim, Reader
  <2>2. UNCHANGED <<pressed, fetched, look, hold, applied, keysLost, doubled, raced>>
    BY <1>2 DEF Ps2Claim
  <2>3. Reader'
    BY <1>1, <1>2, <2>1, <2>2 DEF Ps2Claim, HostClaim, Reader, HostShape
  <2>4. QED
    BY <1>1, <2>2, <2>3 DEF KeyInv, KeyShape, HoldAfterApplied, KeysSplit, KeysKeepOrder
<1>3. CASE Ps2Enter \/ Ps2Sleep \/ Ps2Resume
  <2>1. hold = {} /\ look = "unknown" /\ proc["ps2"] \notin {"none", "born"}
    BY <1>1, <1>3 DEF Ps2Enter, Ps2Sleep, Ps2Resume, EnterWait, FallAsleep, Resume, Reader
  <2>2. UNCHANGED <<pressed, fetched, look, hold, applied, keysLost, doubled, raced, owner, pid>>
    BY <1>3 DEF Ps2Enter, Ps2Sleep, Ps2Resume, EnterWait, FallAsleep, Resume, ps2Vars
  <2>3. Reader'
    BY <1>1, <2>1, <2>2 DEF Reader
  <2>4. QED
    BY <1>1, <2>2, <2>3 DEF KeyInv, KeyShape, HoldAfterApplied, KeysSplit, KeysKeepOrder
<1>4. CASE Ps2Return
  <2>1. /\ UNCHANGED <<pressed, fetched, look, hold, applied, keysLost, doubled, raced, owner, pid>>
        /\ proc["ps2"] = "returning" /\ proc'["ps2"] = "work"
    BY <1>1, <1>4 DEF Ps2Return, LeaveCall, HostShape
  <2>2. Reader'
    BY <1>1, <2>1 DEF Reader
  <2>3. QED
    BY <1>1, <2>1, <2>2 DEF KeyInv, KeyShape, HoldAfterApplied, KeysSplit, KeysKeepOrder
<1>5. ASSUME NEW t, UserStep("ps2", "work", t)
      PROVE  proc["ps2"] = "work" /\ proc'["ps2"] = t /\ UNCHANGED <<owner, pid>>
  BY <1>1, <1>5 DEF UserStep, HostShape
<1>6. CASE Ps2Status
  <2>1. /\ UNCHANGED <<pressed, fetched, hold, applied, keysLost, doubled, raced>>
        /\ look' = IF Waiting # {} THEN "full" ELSE "empty"
        /\ UserStep("ps2", "work", "work")
    BY <1>6 DEF Ps2Status
  <2>2. Waiting # {} => fetched < pressed
    BY <1>1 DEF Waiting, KeyShape
  <2>3. Reader'
    BY <1>1, <1>5, <2>1 DEF Reader
  <2>4. QED
    BY <1>1, <2>1, <2>2, <2>3 DEF KeyInv, KeyShape, HoldAfterApplied, KeysSplit, KeysKeepOrder
<1>7. CASE Ps2Read
  <2>1. /\ UNCHANGED <<pressed, applied, keysLost, raced>> /\ look = "full" /\ look' = "unknown"
        /\ UserStep("ps2", "work", "work")
    BY <1>7 DEF Ps2Read
  <2>2. Reader'
    BY <1>1, <1>5, <2>1 DEF Reader
  <2>3. CASE Waiting # {}
    <3>1. fetched' = fetched + 1 /\ hold' = hold \cup {fetched + 1} /\ doubled' = doubled
      BY <1>7, <2>3 DEF Ps2Read
    <3>2. fetched \in Nat /\ fetched + 1 <= pressed
      BY <1>1, <2>3 DEF Waiting, KeyShape
    <3>3. /\ 1..fetched' = (1..fetched) \cup {fetched + 1} /\ fetched + 1 \notin 1..fetched
          /\ \A a \in 1..fetched : a < fetched + 1
      BY <3>1, <3>2
    <3>4. KeysSplit'
      BY <1>1, <2>1, <3>1, <3>3 DEF KeysSplit
    <3>5. \A a \in applied : a < fetched + 1
      BY <1>1, <3>3 DEF KeysSplit
    <3>6. HoldAfterApplied' /\ KeysKeepOrder
      BY <1>1, <2>1, <3>1, <3>5 DEF HoldAfterApplied, KeysKeepOrder
    <3>7. QED
      BY <1>1, <2>1, <2>2, <3>1, <3>2, <3>4, <3>6 DEF KeyInv, KeyShape
  <2>4. CASE Waiting = {}
    <3>1. UNCHANGED <<fetched, hold>> /\ raced
      BY <1>1, <1>7, <2>1, <2>4 DEF Ps2Read, Waiting, KeyShape, HoldAfterApplied
    <3>2. QED
      BY <1>1, <2>1, <2>2, <3>1 DEF KeyInv, KeyShape, HoldAfterApplied, KeysSplit, KeysKeepOrder
  <2>5. QED
    BY <2>3, <2>4
<1>8. CASE Ps2SubmitBatch \/ Ps2Submit
  <2>1. /\ applied' = applied \cup hold /\ hold' = {} /\ look' = "unknown"
        /\ UNCHANGED <<pressed, fetched, keysLost, doubled, raced>>
        /\ \E t \in {"work", "loop"} : UserStep("ps2", "work", t)
    BY <1>8 DEF Ps2SubmitBatch, Ps2Submit
  <2>2. Reader'
    BY <1>1, <1>5, <2>1 DEF Reader
  <2>3. KeysSplit'
    BY <1>1, <2>1 DEF KeysSplit
  <2>4. HoldAfterApplied' /\ KeysKeepOrder
    BY <1>1, <2>1 DEF HoldAfterApplied, KeysKeepOrder
  <2>5. QED
    BY <1>1, <2>1, <2>2, <2>3, <2>4 DEF KeyInv, KeyShape
<1>9. CASE Ps2Die
  <2>1. /\ keysLost' = keysLost \cup hold /\ hold' = {} /\ look' = "unknown"
        /\ UNCHANGED <<pressed, fetched, applied, doubled, raced, owner, pid>>
        /\ proc'["ps2"] = "none"
    BY <1>1, <1>9 DEF Ps2Die, HostDie, HostShape
  <2>2. QED
    BY <1>1, <2>1 DEF KeyInv, KeyShape, Reader, HoldAfterApplied, KeysSplit, KeysKeepOrder
<1>10. CASE Ps2Supervise
  <2>1. UNCHANGED ps2Vars /\ HostSupervise("ps2") /\ proc["ps2"] \in {"none", "born"}
    BY <1>1, <1>10 DEF Ps2Supervise, HostSupervise, Serving, OwnerAlive, Owned, Reader
  <2>2. hold = {} /\ look = "unknown"
    BY <1>1, <2>1 DEF Reader
  <2>3. UNCHANGED <<pressed, fetched, look, hold, applied, keysLost, doubled, raced>>
    BY <2>1 DEF ps2Vars
  <2>4. Reader'
    BY <1>1, <2>1, <2>2, <2>3 DEF HostSupervise, Reader, HostShape
  <2>5. QED
    BY <1>1, <2>3, <2>4 DEF KeyInv, KeyShape, HoldAfterApplied, KeysSplit, KeysKeepOrder
<1>11. QED
  BY <1>2, <1>3, <1>4, <1>6, <1>7, <1>8, <1>9, <1>10 DEF Ps2Driver

\* A key, IRQ1 and the poll: Ring 0 reads only when no driver owns the port.
LEMMA PortSteps ==
  ASSUME HostShape, KeyInv, KeyPress \/ Irq1 \/ Poll
  PROVE  KeyInv' /\ KeysKeepOrder
<1>1. KeyShape /\ Reader /\ HoldAfterApplied /\ KeysSplit /\ "ps2" \in Dev
  BY DEF KeyInv, Dev
<1>2. ~Owned("ps2") => hold = {} /\ look = "unknown"
  BY <1>1 DEF Reader, Owned
<1>3. Waiting # {} => fetched + 1 <= pressed
  BY <1>1 DEF Waiting, KeyShape
<1>4. CASE KeyPress
  <2>1. /\ pressed' = pressed + 1 /\ UNCHANGED hostVars
        /\ UNCHANGED <<fetched, look, hold, applied, keysLost, doubled, raced>>
    BY <1>4 DEF KeyPress
  <2>2. KeyShape' /\ (fetched < pressed => fetched' < pressed')
    BY <1>1, <2>1 DEF KeyShape
  <2>3. Reader'
    BY <1>1, <2>1 DEF Reader, hostVars
  <2>4. QED
    BY <1>1, <2>1, <2>2, <2>3 DEF KeyInv, HoldAfterApplied, KeysSplit, KeysKeepOrder
<1>5. CASE Poll
  <2>1. /\ ~Owned("ps2") /\ Waiting # {} /\ Ring0Reads(1) /\ UNCHANGED hostVars
        /\ UNCHANGED <<pressed, look, hold, keysLost, doubled, raced>>
    BY <1>5 DEF Poll
  <2>2. KeyShape' /\ HoldAfterApplied' /\ KeysSplit' /\ KeysKeepOrder
    BY <1>2, <1>3, <2>1, Ring0Order
  <2>3. Reader'
    BY <1>1, <2>1 DEF Reader, hostVars
  <2>4. QED
    BY <2>2, <2>3 DEF KeyInv
<1>6. CASE Irq1
  <2>1. /\ UNCHANGED <<pressed, look, hold, keysLost, doubled, raced, owner, pid>>
        /\ proc' = proc \/ proc' = Woken("ps2", proc)
    BY <1>6 DEF Irq1
  <2>2. Reader'
    <3>1. proc'["ps2"] = proc["ps2"] \/ (proc["ps2"] = "blocked" /\ proc'["ps2"] = "ready")
      BY <1>1, <2>1 DEF Woken, HostShape
    <3>2. QED
      BY <1>1, <2>1, <3>1 DEF Reader
  <2>3. CASE UNCHANGED <<fetched, applied>>
    BY <1>1, <2>1, <2>2, <2>3 DEF KeyInv, KeyShape, HoldAfterApplied, KeysSplit, KeysKeepOrder
  <2>4. CASE ~Owned("ps2") /\ Waiting # {} /\ Ring0Reads(1)
    <3>1. KeyShape' /\ HoldAfterApplied' /\ KeysSplit' /\ KeysKeepOrder
      BY <1>2, <1>3, <2>1, <2>4, Ring0Order
    <3>2. QED
      BY <2>2, <3>1 DEF KeyInv
  <2>5. QED
    BY <1>6, <2>3, <2>4 DEF Irq1
<1>7. QED
  BY <1>4, <1>5, <1>6

\* IRQ0: the watchdog drains the port of a driver that is gone, or notes that
\* it did so under one that was reading.
LEMMA DrainStep ==
  ASSUME HostShape, KeyInv, HostTick, Ps2Tick
  PROVE  KeyInv' /\ KeysKeepOrder
<1>1. KeyShape /\ Reader /\ HoldAfterApplied /\ KeysSplit /\ "ps2" \in Dev
  BY DEF KeyInv, Dev
<1>2. /\ UNCHANGED <<pressed, look, hold, keysLost, doubled>> /\ pid' = pid
      /\ proc'["ps2"] = proc["ps2"] \/ (proc["ps2"] = "blocked" /\ proc'["ps2"] = "ready")
      /\ owner'["ps2"] = IF FoundGone("ps2") THEN 0 ELSE owner["ps2"]
  BY <1>1 DEF HostTick, Ps2Tick
<1>3. FoundGone("ps2") => proc["ps2"] \in {"none", "born"}
  BY <1>1 DEF FoundGone, OwnerAlive, Reader
<1>4. Reader'
  BY <1>1, <1>2, <1>3 DEF Reader
<1>5. CASE Ps2Stalled \/ FoundGone("ps2")
  <2>1. /\ Ring0Reads(pressed - fetched)
        /\ raced' = (raced \/ (Waiting # {} /\ (hold # {} \/ look = "full")))
    BY <1>5 DEF Ps2Tick
  <2>2. /\ pressed - fetched \in Nat /\ fetched + (pressed - fetched) <= pressed
        /\ Waiting = {} => pressed - fetched = 0
    BY <1>1 DEF KeyShape, Waiting
  <2>3. /\ raced => raced'
        /\ raced' \/ pressed - fetched = 0 \/ (hold = {} /\ look # "full")
    BY <2>1, <2>2
  <2>4. KeyShape' /\ HoldAfterApplied' /\ KeysSplit' /\ KeysKeepOrder
    BY <1>2, <2>1, <2>2, <2>3, Ring0Order
  <2>5. QED
    BY <1>4, <2>4 DEF KeyInv
<1>6. CASE ~(Ps2Stalled \/ FoundGone("ps2"))
  <2>1. UNCHANGED <<fetched, applied, raced>>
    BY <1>6 DEF Ps2Tick
  <2>2. QED
    BY <1>1, <1>2, <1>4, <2>1 DEF KeyInv, KeyShape, HoldAfterApplied, KeysSplit, KeysKeepOrder
<1>7. QED
  BY <1>5, <1>6

\* Every step keeps the invariant and the order of the keys.
LEMMA KeysNext ==
  ASSUME LineInv, KeyInv, [Next]_vars
  PROVE  KeyInv' /\ KeysKeepOrder
<1>1. HostShape /\ "ps2" \in Dev \ {"serial"} /\ "ps2" \in Dev \ {"vga"}
  BY DEF LineInv, Dev
<1>2. CASE Tick
  BY <1>1, <1>2, DrainStep DEF Tick
<1>3. CASE Ps2Driver \/ Ps2Die \/ Ps2Supervise
  BY <1>1, <1>3, ReaderSteps
<1>4. CASE KeyPress \/ Interrupt1 \/ PollKeyboard
  BY <1>1, <1>4, PortSteps DEF Interrupt1, PollKeyboard
<1>5. CASE \/ SerialDriver \/ (WriteSerial /\ OnlySerial)
           \/ (SerialDie /\ OnlySerial) \/ (SerialSupervise /\ OnlySerial)
  <2>1. UNCHANGED ps2Vars
    BY <1>5 DEF SerialDriver, OnlySerial
  <2>2. Leaves("serial")
    BY <1>1, <1>5, SerialLeaves
  <2>3. QED
    BY <1>1, <2>1, <2>2, KeysElsewhere DEF Leaves
<1>6. CASE \/ VgaDriver \/ (\E f \in Frames : Present(f) /\ OnlyVga)
           \/ (VgaDie /\ OnlyVga) \/ (VgaSupervise /\ OnlyVga)
  <2>1. UNCHANGED ps2Vars
    BY <1>6 DEF VgaDriver, OnlyVga
  <2>2. Leaves("vga")
    BY <1>1, <1>6, VgaLeaves
  <2>3. QED
    BY <1>1, <2>1, <2>2, KeysElsewhere DEF Leaves
<1>7. CASE UNCHANGED vars
  BY <1>7, KeysElsewhere DEF vars, hostVars
<1>8. QED
  BY <1>2, <1>3, <1>4, <1>5, <1>6, <1>7 DEF Next

\* Nothing has been typed, and the drivers have not claimed anything.
LEMMA KeysInit == Init => KeyInv
<1> SUFFICES ASSUME Init
             PROVE  KeyInv
  OBVIOUS
<1>1. HostInit /\ Ps2Init /\ "ps2" \in Dev
  BY DEF Init, Dev
<1>2. Reader
  BY <1>1 DEF HostInit, Ps2Init, Reader
<1>3. KeyShape /\ HoldAfterApplied /\ KeysSplit
  BY <1>1 DEF Ps2Init, KeyShape, HoldAfterApplied, KeysSplit
<1>4. QED
  BY <1>2, <1>3 DEF KeyInv

\* Whoever of IRQ1, the poll, the driver and the watchdog applies a key, it was
\* typed after all that were applied, and none is applied twice, unless the
\* watchdog drained the port under a driver that was reading it.
THEOREM KeysKeptInOrder == Spec => KeysInOrder
<1>1. Init => LineInv /\ KeyInv
  BY LineInit, KeysInit
<1>2. LineInv /\ KeyInv /\ [Next]_vars => LineInv' /\ KeyInv' /\ [KeysKeepOrder]_vars
  BY LineNext, KeysNext
<1>3. QED
  BY <1>1, <1>2, PTL DEF Spec, KeysInOrder, KeysKeepOrder

-----------------------------------------------------------------------------
(* Nothing doubled nor dropped *)

\* What NothingDoubledNorDropped says of bytes.
BytesSplit ==
  /\ hand \cup out \cup lost = 1..tail
  /\ hand \cap out = {} /\ hand \cap lost = {} /\ out \cap lost = {}

\* Bytes that leave the ring go to one place.
LEMMA BytesLeave ==
  ASSUME LineInv, BytesSplit, NEW n \in Nat, tail' = tail + n, lost' = lost,
         \/ out' = out \cup (tail + 1 .. tail + n) /\ hand' = hand
         \/ hand' = hand \cup (tail + 1 .. tail + n) /\ out' = out
  PROVE  BytesSplit'
<1> DEFINE new == tail + 1 .. tail + n
<1>1. tail \in Nat
  BY DEF LineInv, LineShape
<1>2. 1..tail' = (1..tail) \cup new /\ \A k \in new : k \notin 1..tail
  BY <1>1
<1>3. \/ out' = out \cup new /\ hand' = hand
      \/ hand' = hand \cup new /\ out' = out
  OBVIOUS
<1> HIDE DEF new
<1>4. hand' \cup out' \cup lost' = 1..tail'
  BY <1>2, <1>3 DEF BytesSplit
<1>5. hand' \cap out' = {} /\ hand' \cap lost' = {} /\ out' \cap lost' = {}
  BY <1>2, <1>3 DEF BytesSplit
<1>6. QED
  BY <1>4, <1>5 DEF BytesSplit

\* Every step keeps each byte in one place.
LEMMA BytesNext ==
  ASSUME LineInv, BytesSplit, [Next]_vars
  PROVE  BytesSplit'
<1>1. /\ written \in Nat /\ tail \in Nat /\ tail <= written /\ written - tail \in Nat
      /\ tail + (written - tail) = written /\ tail + (written - tail + 1) = written + 1
  BY DEF LineInv, LineShape
<1>2. Queued = tail + 1 .. tail + (written - tail)
  BY <1>1 DEF Queued
<1>3. ASSUME UNCHANGED <<tail, hand, out, lost>>
      PROVE  BytesSplit'
  BY <1>3 DEF BytesSplit
<1>4. ASSUME out' = out \cup Queued, tail' = written, UNCHANGED <<hand, lost>>
      PROVE  BytesSplit'
  BY <1>1, <1>2, <1>4, BytesLeave
<1>5. CASE Tick
  <2>1. CASE WatchdogFlushes
    BY <1>4, <1>5, <2>1 DEF Tick, SerialTick
  <2>2. CASE ~WatchdogFlushes
    BY <1>3, <1>5, <2>2 DEF Tick, SerialTick
  <2>3. QED
    BY <2>1, <2>2
<1>6. CASE WriteSerial
  <2>1. CASE ~Owned("serial")
    <3>1. /\ out' = out \cup Queued \cup {written + 1} /\ tail' = written + 1
          /\ UNCHANGED <<hand, lost>>
      BY <1>6, <2>1 DEF WriteSerial
    <3>2. Queued \cup {written + 1} = tail + 1 .. tail + (written - tail + 1)
      BY <1>1 DEF Queued
    <3>3. out' = out \cup (tail + 1 .. tail + (written - tail + 1))
      BY <3>1, <3>2
    <3>4. tail' = tail + (written - tail + 1) /\ written - tail + 1 \in Nat
      BY <1>1, <3>1
    <3>5. QED
      BY <3>1, <3>3, <3>4, BytesLeave
  <2>2. CASE Owned("serial") /\ ~Full
    BY <1>3, <1>6, <2>2 DEF WriteSerial
  <2>3. CASE Owned("serial") /\ Full
    BY <1>4, <1>6, <2>3 DEF WriteSerial
  <2>4. QED
    BY <2>1, <2>2, <2>3
<1>7. CASE SerialClaim \/ SerialEnter \/ SerialSleep \/ SerialResume \/ SerialSupervise
  BY <1>3, <1>7
     DEF SerialClaim, SerialEnter, SerialSleep, SerialResume, SerialSupervise, serialVars
<1>8. CASE SerialTake
  <2> DEFINE n == IF written - tail < Chunk THEN written - tail ELSE Chunk
  <2>1. /\ proc["serial"] = "returning" /\ UNCHANGED <<out, lost>>
        /\ hand' = tail + 1 .. tail + n /\ tail' = tail + n
    BY <1>8 DEF SerialTake, LeaveCall
  <2>2. n \in Nat
    BY <1>1, SerialConstants
  <2>3. hand = {}
    BY <2>1 DEF LineInv, Holder
  <2> HIDE DEF n
  <2>4. hand' = hand \cup (tail + 1 .. tail + n)
    BY <2>1, <2>3
  <2>5. QED
    BY <2>1, <2>2, <2>4, BytesLeave
<1>9. CASE SerialOut
  <2>1. PICK b \in hand : hand' = hand \ {b} /\ out' = out \cup {b} /\ UNCHANGED <<tail, lost>>
    BY <1>9 DEF SerialOut
  <2>2. QED
    BY <2>1 DEF BytesSplit
<1>10. CASE SerialDie
  <2>1. lost' = lost \cup hand /\ hand' = {} /\ UNCHANGED <<tail, out>>
    BY <1>10 DEF SerialDie
  <2>2. QED
    BY <2>1 DEF BytesSplit
<1>11. CASE UNCHANGED serialVars
  BY <1>3, <1>11 DEF serialVars
<1>12. CASE SerialDriver
  BY <1>7, <1>8, <1>9, <1>12 DEF SerialDriver
<1>13. ASSUME Ps2Driver \/ VgaDriver \/ Interrupt1 \/ PollKeyboard
       PROVE  UNCHANGED serialVars
  BY <1>13 DEF Ps2Driver, VgaDriver, Interrupt1, PollKeyboard, OnlyPs2, OnlyVga
<1>14. CASE UNCHANGED vars
  BY <1>11, <1>14 DEF vars
<1>15. QED
  BY <1>5, <1>6, <1>7, <1>10, <1>11, <1>12, <1>13, <1>14 DEF Next, OnlyPs2, OnlyVga

\* Every byte taken from the ring and every scan code read from the port is in
\* exactly one place, whoever took it: with a driver, delivered, or lost with a
\* driver that died.
THEOREM EachInOnePlace == Spec => []NothingDoubledNorDropped
<1>1. Init => LineInv /\ KeyInv /\ BytesSplit
  <2>1. Init => BytesSplit
    BY DEF Init, SerialInit, BytesSplit
  <2>2. QED
    BY <2>1, LineInit, KeysInit
<1>2. LineInv /\ KeyInv /\ BytesSplit /\ [Next]_vars => LineInv' /\ KeyInv' /\ BytesSplit'
  BY LineNext, KeysNext, BytesNext
<1>3. KeyInv /\ BytesSplit => NothingDoubledNorDropped
  BY DEF KeyInv, KeysSplit, BytesSplit, NothingDoubledNorDropped
<1>4. QED
  BY <1>1, <1>2, <1>3, PTL DEF Spec
============================================================================
