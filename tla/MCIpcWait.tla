----------------------------- MODULE MCIpcWait -----------------------------
(***************************************************************************)
(* Ipc with the history that the time-out properties need: for each task   *)
(* the time-out of its wait and the ticks since it began, counted without  *)
(* wrapping.                                                               *)
(***************************************************************************)
EXTENDS Ipc

VARIABLES asked, slept
wvars == <<vars, asked, slept>>

WInit == Init /\ asked = [t \in Tasks |-> 0] /\ slept = [t \in Tasks |-> 0]

NoteWait ==
  /\ asked' = [t \in Tasks |->
                 IF pc[t] # "user" \/ pc'[t] # "blocked" THEN asked[t]
                 ELSE CHOOSE n \in Timeouts : RecvWait(t, n)]
  /\ slept' = [t \in Tasks |->
                 IF pc'[t] \notin {"blocked", "woken"} THEN 0
                 ELSE IF now' # now /\ slept[t] < 2 * Wrap THEN slept[t] + 1 ELSE slept[t]]

\* A READY task is given the CPU before the counter has gone half its range
\* past the deadline (248 days).
Prompt == \A t \in Tasks : pc'[t] = "woken" => slept'[t] - asked'[t] < Half

\* With the fairness of Ipc
WSpec == WInit /\ [][Next /\ NoteWait /\ Prompt]_wvars /\ Fairness

\* A wait with a time-out of at most half the range of the tick counter is
\* over when its time has passed, wherever the counter wraps.
DeadlineKept ==
  \A t \in Tasks : pc[t] = "blocked" /\ asked[t] <= Half => slept[t] < asked[t]

TimesOut(t) == ResumeTimedOut(t) /\ pc'[t] = "user"

\* OS_IPC_TIMEOUT is only answered when the time has passed and nothing has
\* come in, for time-outs of at most half the range.
NoEarlyTimeout ==
  [][\A t \in Tasks : TimesOut(t) /\ asked[t] <= Half => slept[t] >= asked[t]]_wvars
=============================================================================
