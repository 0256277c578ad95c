----------------------------- MODULE IpcProofs -----------------------------
(***************************************************************************)
(* Proofs that no wake-up is lost, for every number of tasks, capacity and *)
(* range of the tick counter.                                              *)
(*                                                                         *)
(* The kernel's notices are applied to a box one after the other, so the   *)
(* invariant is stated of a box: Sound(b).  Each operator of Ipc that      *)
(* changes a box keeps it sound, and each action is a few of them.         *)
(***************************************************************************)
EXTENDS Ipc, TLAPS

States == {"unborn", "user", "blocked", "woken", "gone"}
Waits == [blocked : BOOLEAN, forever : BOOLEAN, timedOut : BOOLEAN, deadline : 0..Forever]
Boxes == [pc : [Tasks -> States], mail : [Tasks -> Seq(Messages)],
          spill : [Tasks -> Seq(Notices)], wait : [Tasks -> Waits],
          parent : [Tasks -> Tasks \cup {Kernel}]]

\* A blocked task has nothing pending and an armed wait record.
Rests(b, t) == b.pc[t] = "blocked" => ~Pending(b, t) /\ b.wait[t].blocked

Sound(b) == b \in Boxes /\ \A t \in Tasks : Rests(b, t)

\* The wait record after Woken: a box in which t may have something pending,
\* but all others rest, becomes sound.
LEMMA WokenSound ==
  ASSUME NEW b \in Boxes, NEW t \in Tasks,
         \A u \in Tasks \ {t} : Rests(b, u),
         b.pc[t] = "blocked" => b.wait[t].blocked
  PROVE  Sound(Woken(b, t))
<1>1. CASE b.pc[t] = "blocked" /\ b.wait[t].blocked
  <2> DEFINE c == [b EXCEPT !.pc[t] = "woken", !.wait[t].blocked = FALSE]
  <2>1. Woken(b, t) = c
    BY <1>1 DEF Woken
  <2>2. c \in Boxes
    <3>1. [b.wait[t] EXCEPT !.blocked = FALSE] \in Waits
      BY DEF Boxes, Waits
    <3> QED  BY <3>1 DEF Boxes, States
  <2>3. \A u \in Tasks : Rests(c, u)
    BY DEF Boxes, Waits, States, Rests, Pending
  <2> QED  BY <2>1, <2>2, <2>3 DEF Sound
<1>2. CASE ~(b.pc[t] = "blocked" /\ b.wait[t].blocked)
  <2>1. Woken(b, t) = b
    BY <1>2 DEF Woken
  <2> QED  BY <2>1, <1>2 DEF Sound, Rests
<1> QED  BY <1>1, <1>2

\* Putting a message into a mailbox, with the wake-up that follows
LEMMA MailedSound ==
  ASSUME NEW b, Sound(b), NEW t \in Tasks,
         NEW from \in Tasks \cup {Kernel}, NEW body \in Bodies \cup Notices
  PROVE  Sound(Mailed(b, t, from, body))
<1> DEFINE m == [from |-> from, body |-> body]
           c == [b EXCEPT !.mail[t] = Append(@, m)]
<1>1. m \in Messages
  BY DEF Messages
<1>2. c \in Boxes
  <2>1. Append(b.mail[t], m) \in Seq(Messages)
    BY <1>1 DEF Sound, Boxes
  <2> QED  BY <2>1 DEF Sound, Boxes
<1>3. \A u \in Tasks \ {t} : Rests(c, u)
  BY DEF Sound, Boxes, Rests, Pending
<1>4. c.pc[t] = "blocked" => c.wait[t].blocked
  BY DEF Sound, Boxes, Rests
<1>5. Sound(Woken(c, t))
  <2> HIDE DEF c
  <2> QED  BY <1>2, <1>3, <1>4, WokenSound
<1> QED  BY <1>5 DEF Mailed

\* Putting a notice into the spill queue, with the wake-up that follows
LEMMA SpilledSound ==
  ASSUME NEW b, Sound(b), NEW t \in Tasks, NEW body \in Notices
  PROVE  Sound(Spilled(b, t, body))
<1> DEFINE c == [b EXCEPT !.spill[t] = Append(@, body)]
<1>2. c \in Boxes
  <2>1. Append(b.spill[t], body) \in Seq(Notices)
    BY DEF Sound, Boxes
  <2> QED  BY <2>1 DEF Sound, Boxes
<1>3. \A u \in Tasks \ {t} : Rests(c, u)
  BY DEF Sound, Boxes, Rests, Pending
<1>4. c.pc[t] = "blocked" => c.wait[t].blocked
  BY DEF Sound, Boxes, Rests
<1>5. Sound(Woken(c, t))
  <2> HIDE DEF c
  <2> QED  BY <1>2, <1>3, <1>4, WokenSound
<1> QED  BY <1>5 DEF Spilled

\* Notices of any kind keep a box sound.
LEMMA NotifiedSound ==
  ASSUME NEW b, Sound(b), NEW t \in Tasks, NEW body \in Notices
  PROVE  Sound(Notified(b, t, body)) /\ Sound(ExitNoticed(b, t))
BY MailedSound, SpilledSound DEF Notified, ExitNoticed, Notices

\* The purge of a departing task, or of the target of a refused kill
LEMMA PurgedSound ==
  ASSUME NEW b, Sound(b), NEW t \in Tasks, NEW w \in Tasks \cup {None}
  PROVE  Sound(Purged(b, t, w))
<1> DEFINE c == IF w # None THEN Notified(b, w, "change") ELSE b
<1>1. Sound(c)
  BY NotifiedSound DEF Notices
<1> HIDE DEF c
<1>2. Sound(Cleared(c, t))
  <2>1. <<>> \in Seq(Notices)
    OBVIOUS
  <2>2. Cleared(c, t) \in Boxes
    BY <1>1, <2>1 DEF Sound, Boxes, Cleared
  <2>3. \A u \in Tasks : Rests(Cleared(c, t), u)
    BY <1>1 DEF Sound, Boxes, Cleared, Rests, Pending
  <2> QED  BY <2>2, <2>3 DEF Sound
<1> QED  BY <1>2 DEF Purged, c

\* The notices to the parent
LEMMA ReportedSound ==
  ASSUME NEW b, Sound(b), NEW t \in Tasks, NEW asked \in BOOLEAN
  PROVE  Sound(Reported(b, t, asked))
<1> DEFINE p == parent[t]
           c == IF asked THEN Notified(b, p, "change") ELSE b
<1>1. CASE p \notin Alive
  BY <1>1 DEF Reported
<1>2. CASE p \in Alive
  <2>1. p \in Tasks
    BY <1>2 DEF Alive
  <2>2. Sound(c)
    BY <2>1, NotifiedSound DEF Notices
  <2>3. Sound(ExitNoticed(c, p))
    <3> HIDE DEF c, p
    <3> QED  BY <2>1, <2>2, NotifiedSound DEF Notices
  <2> QED  BY <1>2, <2>3 DEF Reported
<1> QED  BY <1>1, <1>2

\* A task that is gone rests, and so does everyone else.
LEMMA GoneSound ==
  ASSUME NEW b, Sound(b), NEW t \in Tasks
  PROVE  Sound(Gone(b, t))
<1> DEFINE q == [u \in Tasks |-> IF b.parent[u] = t THEN b.parent[t] ELSE b.parent[u]]
           c == [b EXCEPT !.pc[t] = "gone", !.mail[t] = <<>>, !.wait[t] = NoWait, !.parent = q]
<1>1. Gone(b, t) = c
  BY DEF Gone, Sound, Boxes
<1>2. q \in [Tasks -> Tasks \cup {Kernel}]
  BY DEF Sound, Boxes
<1>3. NoWait \in Waits
  BY IpcAssumption DEF NoWait, Waits, Forever, Half
<1>4. c \in Boxes
  <2> HIDE DEF q
  <2>1. <<>> \in Seq(Messages)
    OBVIOUS
  <2> QED  BY <1>2, <1>3, <2>1 DEF Sound, Boxes, States
<1>5. \A u \in Tasks : Rests(c, u)
  BY DEF Sound, Boxes, Rests, Pending
<1> QED  BY <1>1, <1>4, <1>5 DEF Sound

\* sys_ipc_receive leaves the receiver awake or with less to receive.
LEMMA ReceivedSound ==
  ASSUME NEW b, Sound(b), NEW t \in Tasks, Pending(b, t)
  PROVE  Sound(Received(b, t))
<1>1. CASE b.mail[t] # <<>>
  <2>1. Tail(b.mail[t]) \in Seq(Messages)
    BY <1>1 DEF Sound, Boxes
  <2>2. Received(b, t) \in Boxes
    BY <1>1, <2>1 DEF Received, Sound, Boxes
  <2>3. \A u \in Tasks : Rests(Received(b, t), u)
    BY <1>1 DEF Received, Sound, Boxes, Rests, Pending
  <2> QED  BY <2>2, <2>3 DEF Sound
<1>2. CASE b.mail[t] = <<>>
  <2>1. Tail(b.spill[t]) \in Seq(Notices)
    BY <1>2 DEF Sound, Boxes, Pending
  <2>2. Received(b, t) \in Boxes
    BY <1>2, <2>1 DEF Received, Sound, Boxes
  <2>3. \A u \in Tasks : Rests(Received(b, t), u)
    BY <1>2 DEF Received, Sound, Boxes, Rests, Pending
  <2> QED  BY <2>2, <2>3 DEF Sound
<1> QED  BY <1>1, <1>2

\* A task that returns to user mode rests.
LEMMA ReturnSound ==
  ASSUME NEW b, Sound(b), NEW t \in Tasks
  PROVE  Sound([b EXCEPT !.pc[t] = "user", !.wait[t] = NoWait])
<1>1. NoWait \in Waits
  BY IpcAssumption DEF NoWait, Waits, Forever, Half
<1> DEFINE c == [b EXCEPT !.pc[t] = "user", !.wait[t] = NoWait]
<1>2. c \in Boxes
  BY <1>1 DEF Sound, Boxes, States
<1>3. \A u \in Tasks : Rests(c, u)
  BY DEF Sound, Boxes, Rests, Pending
<1> QED  BY <1>2, <1>3 DEF Sound

Inv == Sound(Box) /\ now \in 0..Forever /\ doomed \subseteq Tasks

\* The inductive invariant is the two checked invariants taken together.
LEMMA InvTypes == Inv <=> TypeOK /\ NoLostWakeup
BY DEF Inv, TypeOK, NoLostWakeup, Sound, Boxes, Box, States, Waits, Rests

\* A step that makes the box b is sound when b is.
LEMMA BecomesSound ==
  ASSUME NEW b, Sound(b), Becomes(b)
  PROVE  Sound(Box)'
<1>1. Box' = b
  BY DEF Becomes, Box, Sound, Boxes
<1> QED  BY <1>1 DEF Sound, Rests, Pending, Boxes

\* At boot every mailbox is empty and nobody waits.
LEMMA InitInv == Init => Inv
<1> SUFFICES ASSUME Init PROVE Inv
  OBVIOUS
<1>1. 0 \in 0..Forever /\ NoWait \in Waits
  BY IpcAssumption DEF NoWait, Waits, Forever, Half
<1>2. Box \in Boxes
  BY <1>1 DEF Init, Box, Boxes, States
<1>3. \A t \in Tasks : Rests(Box, t)
  BY DEF Init, Box, Rests
<1> QED  BY <1>1, <1>2, <1>3 DEF Init, Inv, Sound

\* The calls that make, send or receive messages
LEMMA CallStep ==
  ASSUME Inv, NEW s \in Tasks, NEW t \in Tasks
  PROVE  /\ Start(s, t) => Inv'
         /\ \A body \in Bodies : Send(s, t, body) => Inv'
         /\ Notify(s, t) => Inv'
         /\ Recv(t) => Inv'
         /\ DeviceWake(t) => Inv'
<1>1. ASSUME Start(s, t) PROVE Inv'
  <2>1. Box' \in Boxes
    BY <1>1 DEF Start, Inv, Sound, Box, Boxes, States
  <2>2. \A u \in Tasks : Rests(Box', u)
    BY <1>1 DEF Start, Inv, Sound, Box, Boxes, Rests, Pending
  <2> QED  BY <1>1, <2>1, <2>2 DEF Start, Inv, Sound, Rests, Pending, Boxes
<1>2. ASSUME NEW body \in Bodies, Send(s, t, body) PROVE Inv'
  BY <1>2, MailedSound, BecomesSound DEF Send, Inv
<1>3. ASSUME Notify(s, t) PROVE Inv'
  <2>1. Sound(Notified(Box, t, "change"))
    BY NotifiedSound DEF Notices, Inv
  <2> QED  BY <1>3, <2>1, BecomesSound DEF Notify, Inv
<1>4. ASSUME Recv(t) PROVE Inv'
  BY <1>4, ReceivedSound, BecomesSound DEF Recv, Inv
<1>5. ASSUME DeviceWake(t) PROVE Inv'
  <2>1. Sound(Woken(Box, t))
    BY WokenSound DEF Inv, Sound, Rests
  <2> QED  BY <1>5, <2>1, BecomesSound DEF DeviceWake, Inv
<1> QED  BY <1>1, <1>2, <1>3, <1>4, <1>5

\* Falling asleep, and what follows a wake-up
LEMMA WaitStep ==
  ASSUME Inv, NEW t \in Tasks
  PROVE  /\ \A timeout \in Timeouts : RecvWait(t, timeout) => Inv'
         /\ ResumeWithMessage(t) => Inv'
         /\ ResumeTimedOut(t) => Inv'
         /\ ResumeSpurious(t) => Inv'
<1>1. ASSUME NEW timeout \in Timeouts, RecvWait(t, timeout) PROVE Inv'
  <2> DEFINE w == [blocked |-> TRUE, forever |-> timeout = Forever,
                   timedOut |-> FALSE, deadline |-> (now + timeout) % Wrap]
  <2>1. w \in Waits
    <3>1. now + timeout \in Nat /\ Wrap \in Nat \ {0}
      BY IpcAssumption DEF Inv, Forever, Half
    <3>2. (now + timeout) % Wrap \in 0..(Wrap - 1)
      BY <3>1
    <3> QED  BY <3>2 DEF Waits, Forever
  <2>2. /\ wait' = [wait EXCEPT ![t] = w] /\ pc' = [pc EXCEPT ![t] = "blocked"]
        /\ UNCHANGED <<mail, spill, parent>> /\ ~Pending(Box, t)
    BY <1>1 DEF RecvWait
  <2>3. w.blocked
    OBVIOUS
  <2> HIDE DEF w
  <2>4. Box' \in Boxes
    BY <2>1, <2>2 DEF Inv, Sound, Box, Boxes, States
  <2>6. \A u \in Tasks : Rests(Box', u)
    BY <2>2, <2>3 DEF Inv, Sound, Box, Boxes, Rests, Pending
  <2> QED  BY <1>1, <2>4, <2>6 DEF RecvWait, Inv, Sound, Rests, Pending, Boxes
<1>2. ASSUME ResumeWithMessage(t) PROVE Inv'
  <2>1. Sound(Received(Box, t))
    BY <1>2, ReceivedSound DEF ResumeWithMessage, Inv
  <2> QED  BY <1>2, <2>1, ReturnSound, BecomesSound DEF ResumeWithMessage, Inv
<1>3. ASSUME ResumeTimedOut(t) PROVE Inv'
  BY <1>3, ReturnSound, BecomesSound DEF ResumeTimedOut, Inv
<1>4. ASSUME ResumeSpurious(t) PROVE Inv'
  <2> DEFINE c == [Box EXCEPT !.pc[t] = "blocked", !.wait[t].blocked = TRUE]
  <2>1. c \in Boxes
    <3>1. [Box.wait[t] EXCEPT !.blocked = TRUE] \in Waits
      BY DEF Inv, Sound, Boxes, Waits
    <3> QED  BY <3>1 DEF Inv, Sound, Boxes, States
  <2>2. \A u \in Tasks : Rests(c, u)
    BY <1>4 DEF ResumeSpurious, Inv, Sound, Boxes, Waits, Rests, Pending
  <2> HIDE DEF c
  <2>3. Sound(c)
    BY <2>1, <2>2 DEF Sound
  <2> QED  BY <1>4, <2>3, BecomesSound DEF ResumeSpurious, Inv, c
<1> QED  BY <1>1, <1>2, <1>3, <1>4

\* Departures
LEMMA DepartureStep ==
  ASSUME Inv, NEW s \in Tasks, NEW t \in Tasks,
         NEW w \in Tasks \cup {None}, NEW asked \in BOOLEAN
  PROVE  /\ Exit(t, w, asked) => Inv'
         /\ Kill(s, t, w, asked) => Inv'
         /\ KillRefused(s, t, w) => Inv'
         /\ KillChildren(s) => Inv'
         /\ KillNext(t, asked) => Inv'
<1>1. Sound(Purged(Box, t, w))
  BY PurgedSound DEF Inv
<1>2. Sound(Gone(Reported(Purged(Box, t, w), t, asked), t))
  <2>1. Sound(Reported(Purged(Box, t, w), t, asked))
    BY <1>1, ReportedSound
  <2> QED  BY <2>1, GoneSound
<1>3. Sound(Gone(Reported(Box, t, asked), t))
  <2>1. Sound(Reported(Box, t, asked))
    BY ReportedSound DEF Inv
  <2> QED  BY <2>1, GoneSound
<1>4. Exit(t, w, asked) => Inv'
  BY <1>2, BecomesSound DEF Exit, Inv
<1>5. Kill(s, t, w, asked) => Inv'
  BY <1>2, BecomesSound DEF Kill, Inv
<1>6. KillRefused(s, t, w) => Inv'
  BY <1>1, BecomesSound DEF KillRefused, Inv
<1>7. KillChildren(s) => Inv'
  BY DEF KillChildren, Inv, Alive, Sound, Rests, Pending, Boxes, Box
<1>8. KillNext(t, asked) => Inv'
  BY <1>3, BecomesSound DEF KillNext, Inv
<1> QED  BY <1>4, <1>5, <1>6, <1>7, <1>8

\* A tick wakes tasks and moves the clock; whoever stays blocked has not moved.
LEMMA TickStep == Inv /\ Tick => Inv'
<1> SUFFICES ASSUME Inv, Tick PROVE Inv'
  OBVIOUS
<1> DEFINE due == Due(now')
<1>1. now' \in 0..Forever
  <2>1. now + 1 \in Nat /\ Wrap \in Nat \ {0}
    BY IpcAssumption DEF Inv, Forever, Half
  <2>2. (now + 1) % Wrap \in 0..(Wrap - 1)
    BY <2>1
  <2> QED  BY <2>2 DEF Tick, Forever
<1>2. \A t \in Tasks : [wait[t] EXCEPT !.blocked = FALSE, !.timedOut = TRUE] \in Waits
  BY DEF Inv, Sound, Boxes, Box, Waits
<1> HIDE DEF due
<1>3. wait' = [t \in Tasks |-> IF t \in due
                              THEN [wait[t] EXCEPT !.blocked = FALSE, !.timedOut = TRUE]
                              ELSE wait[t]]
  BY DEF Tick, TimedOut, due
<1>4. pc' = [t \in Tasks |-> IF t \in due THEN "woken" ELSE pc[t]]
  BY DEF Tick, due
<1>5. UNCHANGED <<mail, spill, parent, doomed>>
  BY DEF Tick
<1>6. wait' \in [Tasks -> Waits]
  BY <1>2, <1>3 DEF Inv, Sound, Boxes, Box
<1>7. Box' \in Boxes
  BY <1>4, <1>5, <1>6 DEF Inv, Sound, Boxes, Box, States
<1>8. \A t \in Tasks : Rests(Box', t)
  BY <1>3, <1>4, <1>5 DEF Inv, Sound, Boxes, Box, Rests, Pending
<1> QED  BY <1>1, <1>5, <1>7, <1>8 DEF Inv, Sound, Rests, Pending, Boxes

\* Every step keeps the invariant.
LEMMA NextInv == Inv /\ [Next]_vars => Inv'
<1> SUFFICES ASSUME Inv, [Next]_vars PROVE Inv'
  OBVIOUS
<1>1. CASE Next
  BY <1>1, TickStep, CallStep, WaitStep, DepartureStep DEF Next
<1>2. CASE UNCHANGED vars
  BY <1>2 DEF vars, Inv, Box, Sound, Rests, Pending, Boxes
<1> QED  BY <1>1, <1>2

\* Boxes stay sound, the clock in range, and only tasks are doomed.
THEOREM Invariance == Spec => []Inv
BY InitInv, NextInv, PTL DEF Spec

\* Every variable keeps its type, deadlines and ticks their range.
THEOREM TypeCorrect == Spec => []TypeOK
<1>1. Inv => TypeOK
  BY InvTypes
<1> QED  BY <1>1, Invariance, PTL

\* No wake-up is lost: a task blocked in SYS_IPC_RECV_WAIT has nothing to
\* receive and is still to be woken, whatever messages, notices, purges,
\* kills and ticks came in which order.
THEOREM NoWakeupLost == Spec => []NoLostWakeup
<1>1. Inv => NoLostWakeup
  BY InvTypes
<1> QED  BY <1>1, Invariance, PTL
=============================================================================
