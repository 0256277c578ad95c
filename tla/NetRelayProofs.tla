--------------------------- MODULE NetRelayProofs ---------------------------
(***************************************************************************)
(* That a relayed network call is forwarded once and gets its own answer,  *)
(* for any clients, workers and limits.                                    *)
(*                                                                         *)
(* NetOwnAnswer needs two facts more.  SlotHeld: a call that has begun its *)
(* job still has the slot, so it finds no slot to begin another.           *)
(* DataMatch: what is staged in the slot, and what a worker fetched from   *)
(* it, is about the job it is held under.                                  *)
(***************************************************************************)
EXTENDS NetRelay, TLAPS

SlotRecord ==
  [state : {"free", "sent", "done"}, owner : Clients \cup {NoOne},
   worker : NetWorkers \cup {NoOne}, job : Nat, answer : Nat, bulkIn : Nat, bulkOut : Nat]
WorkRecord ==
  [at : {"waiting", "asked", "fetched", "ran", "dead"}, job : Nat, data : Nat]

NetTypeOK ==
  /\ client \in [Clients -> {"user", "calling", "dead"}]
  /\ begun \in [Clients -> Nat]
  /\ relay \in SlotRecord
  /\ lastJob \in Nat
  /\ driver \in NetWorkers \cup {NoOne}
  /\ work \in [NetWorkers -> WorkRecord]
  /\ mail \in [NetWorkers -> Seq(Nat)]

SlotHeld ==
  /\ relay.state # "free" => relay.owner \in Clients
  /\ \A c \in Clients : begun[c] <= 1
  /\ \A c \in Clients : client[c] = "calling" /\ begun[c] = 1 => Mine(c)

DataMatch ==
  /\ relay.state = "sent" => relay.bulkIn = relay.job /\ relay.bulkOut \in {NoOne, relay.job}
  /\ relay.state = "done" => relay.answer = relay.job /\ relay.bulkOut \in {NoOne, relay.job}
  /\ \A w \in NetWorkers : work[w].at = "fetched" => work[w].data = work[w].job

NetInv == NetTypeOK /\ SlotHeld /\ DataMatch

\* net_relay_cancel leaves a slot.
LEMMA SlotCancelled ==
  ASSUME NEW s \in SlotRecord
  PROVE  [s EXCEPT !.state = "free", !.owner = NoOne] \in SlotRecord
BY DEF SlotRecord

\* A mailbox holds job numbers, and still does when one is received.
LEMMA MailReceived ==
  ASSUME NEW q \in Seq(Nat), q # <<>>
  PROVE  Head(q) \in Nat /\ Tail(q) \in Seq(Nat)
OBVIOUS

\* A request put into one mailbox leaves all of them queues of job numbers.
LEMMA MailSent ==
  ASSUME NEW m \in [NetWorkers -> Seq(Nat)], NEW w, NEW n \in Nat
  PROVE  [m EXCEPT ![w] = Append(@, n)] \in [NetWorkers -> Seq(Nat)]
<1>1. \A q \in Seq(Nat) : Append(q, n) \in Seq(Nat)
  OBVIOUS
<1> QED
  BY <1>1

\* What net_worker.c holds keeps its type when the bulk calls return.
LEMMA WorkChanged ==
  ASSUME NEW r \in WorkRecord, NEW n \in Nat
  PROVE  /\ [r EXCEPT !.at = "fetched", !.data = n] \in WorkRecord
         /\ [r EXCEPT !.at = "ran"] \in WorkRecord
         /\ [r EXCEPT !.at = "ran", !.data = NoOne] \in WorkRecord
<1>1. [r EXCEPT !.at = "fetched", !.data = n] \in WorkRecord
  BY DEF WorkRecord
<1>2. [r EXCEPT !.at = "ran"] \in WorkRecord
  BY DEF WorkRecord
<1>3. [r EXCEPT !.at = "ran", !.data = NoOne] \in WorkRecord
  BY DEF WorkRecord, NoOne
<1> QED
  BY <1>1, <1>2, <1>3

\* The turns of a client: whatever it finds, the invariant is kept.
LEMMA ClientSteps ==
  ASSUME NetInv, NEW c \in Clients, Ask(c) \/ Turn(c) \/ ClientDies(c)
  PROVE  NetInv'
<1> USE NetRelayAssumption DEF NetInv, NetTypeOK, SlotHeld, DataMatch, SlotRecord, Mine, slotVars
<1>1. CASE Ask(c)
  BY <1>1 DEF Ask
<1>2. CASE ClientDies(c)
  BY <1>2 DEF ClientDies
<1>3. CASE Poll(c)
  BY <1>3 DEF Poll
<1>4. CASE GiveUp(c)
  BY <1>4 DEF GiveUp, Return, NoOne
<1>5. CASE Deliver(c)
  BY <1>5 DEF Deliver, Return
<1>6. CASE Queue(c)
  BY <1>6 DEF Queue
<1>7. CASE Local(c)
  BY <1>7 DEF Local, Return
<1>8. CASE Refuse(c)
  BY <1>8 DEF Refuse, MayBegin, Dropped, OwnerGone, Return, NoOne
<1>9. CASE Forward(c)
  <2>0. /\ relay' = Begun(c) /\ lastJob' = lastJob + 1
        /\ mail' = [mail EXCEPT ![driver] = Append(@, lastJob + 1)]
        /\ begun' = [begun EXCEPT ![c] = @ + 1]
        /\ client' = client /\ driver' = driver /\ work' = work
    BY <1>9, Zenon DEF Forward
  <2>1. Begun(c) \in SlotRecord /\ lastJob + 1 \in Nat
    BY DEF Begun, NoOne
  <2>2. mail' \in [NetWorkers -> Seq(Nat)]
    <3> HIDE DEF SlotHeld, DataMatch, SlotRecord
    <3>1. mail \in [NetWorkers -> Seq(Nat)] /\ lastJob + 1 \in Nat
      BY <2>1
    <3> HIDE DEF NetInv, NetTypeOK
    <3> QED
      BY <2>0, <3>1, MailSent
  <2>3. SlotHeld'
    <3>1. client[c] = "calling" /\ ~Mine(c) /\ (relay.state = "free" \/ OwnerGone)
      BY <1>9, Zenon DEF Forward, MayBegin
    <3>2. Begun(c).state = "sent" /\ Begun(c).owner = c
      BY DEF Begun
    <3> QED
      BY <2>0, <3>1, <3>2 DEF OwnerGone
  <2>4. DataMatch'
    BY <2>0 DEF Begun
  <2>5. begun' \in [Clients -> Nat]
    BY <2>0
  <2> HIDE DEF SlotHeld, DataMatch, SlotRecord
  <2> QED
    BY <2>0, <2>1, <2>2, <2>3, <2>4, <2>5
<1>10. CASE MailboxFull(c)
  <2>0. Begun(c) \in SlotRecord
    BY DEF Begun, NoOne
  <2>1. lastJob' \in Nat /\ relay' = [Begun(c) EXCEPT !.state = "free", !.owner = NoOne]
    BY <1>10 DEF MailboxFull
  <2>2. SlotHeld'
    BY <1>10 DEF MailboxFull, MayBegin, Begun, OwnerGone, Return
  <2>3. DataMatch'
    BY <1>10 DEF MailboxFull, Begun
  <2> HIDE DEF SlotHeld, DataMatch, SlotRecord
  <2>4. relay' \in SlotRecord
    BY <2>0, <2>1, SlotCancelled
  <2> QED
    BY <1>10, <2>1, <2>2, <2>3, <2>4 DEF MailboxFull, Return
<1> QED
  BY <1>1, <1>2, <1>3, <1>4, <1>5, <1>6, <1>7, <1>8, <1>9, <1>10 DEF Turn

\* The steps of a worker: only the holder of the current job changes the slot.
LEMMA WorkerSteps ==
  ASSUME NetInv, NEW w \in NetWorkers,
         \/ Receive(w) \/ Fetch(w) \/ Put(w) \/ Answer(w)
         \/ Enrol(w) \/ Resign(w) \/ WorkerDies(w)
  PROVE  NetInv'
<1> USE NetRelayAssumption
    DEF NetInv, NetTypeOK, SlotHeld, DataMatch, SlotRecord, WorkRecord, Mine, slotVars,
        Works, Idle, NoOne
<1>1. CASE Receive(w)
  <2>0. mail[w] \in Seq(Nat) /\ mail[w] # <<>>
    BY <1>1 DEF Receive
  <2>1. Head(mail[w]) \in Nat /\ Tail(mail[w]) \in Seq(Nat)
    BY <2>0, MailReceived
  <2> DEFINE held == [at |-> "asked", job |-> Head(mail[w]), data |-> NoOne]
  <2>2. work' = [work EXCEPT ![w] = held]
    BY <1>1 DEF Receive
  <2>3. held \in WorkRecord
    BY <2>1
  <2>4. work' \in [NetWorkers -> WorkRecord]
    BY <2>2, <2>3
  <2>5. mail' \in [NetWorkers -> Seq(Nat)]
    BY <1>1, <2>1 DEF Receive
  <2>6. DataMatch'
    BY <1>1, <2>2 DEF Receive
  <2> QED
    BY <1>1, <2>4, <2>5, <2>6 DEF Receive
<1>2. CASE Fetch(w)
  <2> DEFINE fetched == [work[w] EXCEPT !.at = "fetched", !.data = relay.bulkIn]
             refused == [work[w] EXCEPT !.at = "ran"]
  <2>0. fetched \in WorkRecord /\ refused \in WorkRecord
    <3>1. work[w] \in WorkRecord /\ relay \in SlotRecord /\ relay.bulkIn \in Nat
      OBVIOUS
    <3> HIDE DEF WorkRecord, SlotRecord
    <3> QED
      BY <3>1, WorkChanged
  <2>1. work' \in [NetWorkers -> WorkRecord]
    BY <1>2, <2>0 DEF Fetch
  <2>2. \A v \in NetWorkers : work'[v].at = "fetched" => work'[v].data = work'[v].job
    BY <1>2 DEF Fetch, Current
  <2> QED
    BY <1>2, <2>1, <2>2 DEF Fetch
<1>3. CASE Put(w)
  <2>0. [work[w] EXCEPT !.at = "ran", !.data = NoOne] \in WorkRecord
    <3>1. work[w] \in WorkRecord /\ relay \in SlotRecord /\ relay.bulkIn \in Nat
      OBVIOUS
    <3> HIDE DEF WorkRecord, SlotRecord, NoOne
    <3> QED
      BY <3>1, WorkChanged
  <2>1. work' \in [NetWorkers -> WorkRecord]
    BY <1>3, <2>0 DEF Put
  <2>2. relay' \in SlotRecord
    BY <1>3 DEF Put
  <2>3. SlotHeld'
    BY <1>3 DEF Put
  <2>4. DataMatch'
    BY <1>3 DEF Put, Current
  <2> QED
    BY <1>3, <2>1, <2>2, <2>3, <2>4 DEF Put
<1>4. CASE Answer(w)
  BY <1>4 DEF Answer, Current
<1>5. CASE Enrol(w)
  BY <1>5 DEF Enrol
<1>6. CASE Resign(w)
  BY <1>6 DEF Resign
<1>7. CASE WorkerDies(w)
  <2>1. mail' \in [NetWorkers -> Seq(Nat)]
    BY <1>7 DEF WorkerDies
  <2>2. work' \in [NetWorkers -> WorkRecord]
    BY <1>7 DEF WorkerDies, Dead
  <2>3. DataMatch'
    BY <1>7 DEF WorkerDies, Dead
  <2> QED
    BY <1>7, <2>1, <2>2, <2>3 DEF WorkerDies
<1> QED
  BY <1>1, <1>2, <1>3, <1>4, <1>5, <1>6, <1>7

\* A call is forwarded at most once, and what its client takes from the slot
\* is about its own job, however late or lost the worker's replies are.
THEOREM RelayedOnceAnsweredOwn == NetSpec => []NetOwnAnswer
<1>1. NetInit => NetInv
  BY NetRelayAssumption
  DEF NetInit, NetInv, NetTypeOK, SlotHeld, DataMatch, SlotRecord, WorkRecord, FreeSlot,
      Idle, NoOne, Mine
<1>2. NetInv /\ [NetNext]_netVars => NetInv'
  <2> SUFFICES ASSUME NetInv, [NetNext]_netVars
               PROVE  NetInv'
    OBVIOUS
  <2>1. CASE NetTick
    BY <2>1 DEF NetTick, NetInv, NetTypeOK, SlotHeld, DataMatch, Mine
  <2>2. CASE UNCHANGED netVars
    BY <2>2 DEF netVars, NetInv, NetTypeOK, SlotHeld, DataMatch, Mine
  <2> QED
    BY <2>1, <2>2, ClientSteps, WorkerSteps DEF NetNext
<1>3. NetInv => NetOwnAnswer
  BY DEF NetInv, SlotHeld, DataMatch, NetOwnAnswer
<1> QED
  BY <1>1, <1>2, <1>3, PTL DEF NetSpec
=============================================================================
