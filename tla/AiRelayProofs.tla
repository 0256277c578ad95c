--------------------------- MODULE AiRelayProofs ---------------------------
(***************************************************************************)
(* The slot of AiRelay stays with its caller and the answer in it is the   *)
(* answer to its job, for all callers, workers and time limits.            *)
(***************************************************************************)
EXTENDS AiRelay, TLAPS

Inside == {"begun", "looping", "checked", "blocked", "ready"}

\* A slot in use is filled, and a worker half way through a reply has left
\* the answer to the slot's job in it.
SlotFilled ==
  /\ slot.state # "free" \/ inCall \in Workers =>
       slot.caller \in Callers /\ slot.worker \in Workers /\ slot.job \in Jobs
  /\ inCall \in Workers => slot.reply = slot.job /\ slot.job \in heard[slot.worker]

Inv == TypeOK /\ SlotKept /\ OwnAnswer /\ SlotFilled

\* The relay starts with a free slot and nobody inside.
LEMMA InitInv == Init => Inv
BY AiRelayAssumption
DEF Init, Inv, TypeOK, SlotKept, OwnAnswer, SlotFilled, CallerStates, SlotStates, Slots, Jobs, None

\* Waking the caller only turns "blocked" into "ready", which is inside too.
LEMMA WokenSound ==
  ASSUME TypeOK, NEW s
  PROVE  /\ Woken(s) \in [Callers -> CallerStates]
         /\ \A c \in Callers : Woken(s)[c] # pc[c] => pc[c] = "blocked" /\ Woken(s)[c] = "ready"
BY DEF TypeOK, Woken, CallerStates, None

\* What the caller does
LEMMA CallerStep ==
  ASSUME Inv, NEW c \in Callers
  PROVE  /\ Begin(c) => Inv'
         /\ Ring(c) => Inv'
         /\ RingRefused(c) => Inv'
         /\ Check(c) => Inv'
         /\ Block(c) => Inv'
         /\ Resume(c) => Inv'
         /\ \A done \in BOOLEAN : Leave(c, done) => Inv'
         /\ KillCaller(c) => Inv'
<1> USE AiRelayAssumption DEF Inv, TypeOK, SlotKept, OwnAnswer, SlotFilled, CallerStates, None
<1>1. Begin(c) => Inv'
  <2> SUFFICES ASSUME Begin(c) PROVE Inv'
    OBVIOUS
  <2>1. slot' \in Slots /\ nextJob' \in 1..(MaxJob + 1)
    BY DEF Begin, Slots, SlotStates, Jobs
  <2>2. TypeOK'
    BY <2>1 DEF Begin
  <2>3. SlotKept' /\ OwnAnswer' /\ SlotFilled'
    BY <2>2 DEF Begin, SlotFree
  <2> QED  BY <2>2, <2>3
<1>2. Ring(c) => Inv'
  BY DEF Ring, Slots, Jobs
<1>3. RingRefused(c) => Inv'
  BY DEF RingRefused, Slots, SlotStates
<1>4. Check(c) => Inv'
  BY DEF Check
<1>5. Block(c) => Inv'
  BY DEF Block
<1>6. Resume(c) => Inv'
  BY DEF Resume
<1>7. ASSUME NEW done \in BOOLEAN PROVE Leave(c, done) => Inv'
  BY DEF Leave, InFlight, Slots, SlotStates
<1>8. KillCaller(c) => Inv'
  BY DEF KillCaller
<1> QED  BY <1>1, <1>2, <1>3, <1>4, <1>5, <1>6, <1>7, <1>8

\* What the worker does
LEMMA WorkerStep ==
  ASSUME Inv, NEW w \in Workers
  PROVE  /\ \A j \in Jobs : Heartbeat(w, j) \/ Reply(w, j) => Inv'
         /\ Store(w) => Inv'
         /\ Register(w) => Inv'
<1> USE AiRelayAssumption DEF Inv, TypeOK, SlotKept, OwnAnswer, SlotFilled, CallerStates, None
<1>1. ASSUME NEW j \in Jobs PROVE Heartbeat(w, j) => Inv'
  BY DEF Heartbeat
<1>2. ASSUME NEW j \in Jobs PROVE Reply(w, j) => Inv'
  BY DEF Reply, Accepts, Slots
<1>3. Store(w) => Inv'
  <2> SUFFICES ASSUME Store(w) PROVE Inv'
    OBVIOUS
  <2>1. slot' \in Slots /\ slot'.state = "done" /\ slot'.reply = slot.reply /\ slot'.job = slot.job
        /\ slot'.worker = slot.worker /\ slot'.caller = slot.caller
    BY DEF Store, Slots, SlotStates
  <2>2. pc' = Woken(slot') /\ inCall = w /\ inCall' = None
        /\ UNCHANGED <<age, idle, nextJob, waiter, live, heard>>
    BY DEF Store
  <2>3. /\ pc' \in [Callers -> CallerStates]
        /\ \A c \in Callers : pc'[c] # pc[c] => pc[c] = "blocked" /\ pc'[c] = "ready"
    BY <2>2, WokenSound
  <2>4. TypeOK'
    BY <2>1, <2>2, <2>3
  <2>5. SlotKept'
    BY <2>1, <2>2, <2>3
  <2>6. OwnAnswer' /\ SlotFilled'
    BY <2>1, <2>2
  <2> QED  BY <2>4, <2>5, <2>6
<1>4. Register(w) => Inv'
  BY DEF Register
<1> QED  BY <1>1, <1>2, <1>3, <1>4

\* What the interrupts do, and a worker that goes away
LEMMA InterruptStep ==
  ASSUME Inv
  PROVE  /\ Tick => Inv'
         /\ Escape => Inv'
         /\ Unregister => Inv'
<1> USE AiRelayAssumption DEF Inv, TypeOK, SlotKept, OwnAnswer, SlotFilled, CallerStates, None
<1>1. Tick => Inv'
  <2> SUFFICES ASSUME Tick PROVE Inv'
    OBVIOUS
  <2>1. idle' \in 0..(StallTicks + 1) /\ age' \in 0..(TimeoutTicks + 1)
    BY DEF Tick, Older
  <2>2. /\ slot' \in Slots /\ slot'.reply = slot.reply /\ slot'.job = slot.job
        /\ slot'.worker = slot.worker /\ slot'.caller = slot.caller
        /\ slot'.state = "done" => slot.state = "done"
        /\ slot'.state # "free" => slot.state # "free"
        /\ slot'.state = "free" /\ slot.state # "free" => pc[slot.caller] = "dead" /\ pc' = pc
    BY DEF Tick, Slots, SlotStates
  <2>3. /\ pc' \in [Callers -> CallerStates]
        /\ \A c \in Callers : pc'[c] # pc[c] => pc[c] = "blocked" /\ pc'[c] = "ready"
    BY WokenSound DEF Tick
  <2> QED  BY <2>1, <2>2, <2>3 DEF Tick
<1>2. Escape => Inv'
  <2> SUFFICES ASSUME Escape PROVE Inv'
    OBVIOUS
  <2>1. slot' \in Slots /\ slot'.state = "failed" /\ slot'.reply = slot.reply /\ slot'.job = slot.job
        /\ slot'.worker = slot.worker /\ slot'.caller = slot.caller
    BY DEF Escape, Slots, SlotStates
  <2> QED  BY <2>1, WokenSound DEF Escape
<1>3. Unregister => Inv'
  BY DEF Unregister
<1> QED  BY <1>1, <1>2, <1>3

\* Every step keeps the invariant.
LEMMA NextInv == Inv /\ [Next]_vars => Inv'
<1> SUFFICES ASSUME Inv, [Next]_vars PROVE Inv'
  OBVIOUS
<1>1. CASE UNCHANGED vars
  BY <1>1 DEF vars, Inv, TypeOK, SlotKept, OwnAnswer, SlotFilled
<1>2. CASE Next
  BY <1>2, CallerStep, WorkerStep, InterruptStep DEF Next
<1> QED  BY <1>1, <1>2

\* The inductive invariant holds in every reachable state.
THEOREM Invariance == Spec => []Inv
BY InitInv, NextInv, PTL DEF Spec

\* Every variable of the relay keeps its type.
THEOREM TypeCorrect == Spec => []TypeOK
BY Invariance, PTL DEF Inv

\* At most one caller is in the relay, and the slot is its own until it takes
\* the result.
THEOREM SlotStaysWithCaller == Spec => []SlotKept
BY Invariance, PTL DEF Inv

\* An answer in the slot answers the slot's job.
THEOREM AnswersMatch == Spec => []OwnAnswer
BY Invariance, PTL DEF Inv
=============================================================================
