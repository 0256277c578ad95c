------------------------------ MODULE MCTurns ------------------------------
(***************************************************************************)
(* Scheduler with the history that the turn-taking properties need: for    *)
(* each task, who was given the CPU since it last became READY.            *)
(***************************************************************************)
EXTENDS Scheduler

\* The shell followed by a device driver, as kernel_main queues them
Order13 == <<1, 3>>

VARIABLE seen
mcvars == <<vars, seen>>

\* schedule() gave the CPU back to the task that had handed it over, in the
\* same quantum.
Resumed == current' = resume /\ resume = anchor /\ priority[current] >= HIGH

\* A task left, the reader of SYS_GETS narrows the choice, or a priority
\* changed: turns are counted anew.
Disturbed ==
  \/ gets' # None
  \/ priority' # priority
  \/ \E t \in Users : (state[t] = "gone") # (state'[t] = "gone")

NoteTurns ==
  seen' = [t \in Users |->
             IF state'[t] # "ready" \/ Disturbed THEN {}
             ELSE IF current' # current /\ ~Resumed THEN seen[t] \cup {current'}
             ELSE seen[t]]

TurnsInit == Init /\ seen = [t \in Users |-> {}]
TurnsNext == Next /\ NoteTurns
TurnsSpec == TurnsInit /\ [][TurnsNext]_mcvars

PassedOver(t) ==
  /\ current' # current /\ ~Resumed /\ ~Disturbed
  /\ current' \in seen[t] /\ state'[t] = "ready"
  /\ priority[t] = priority[current']

\* Below HIGH, equals keep turns: no task runs twice while another one of its
\* priority stays READY, whatever drivers run in between.
EqualsKeepTurns ==
  [][\A t \in Users : priority[t] < HIGH => ~PassedOver(t)]_mcvars
=============================================================================
