-------------------------------- MODULE Ipc --------------------------------
(***************************************************************************)
(* Mailboxes (kernel/ipc.c), the blocking receive (kernel/ipc_wait.c and   *)
(* sys_ipc_receive_wait), the kernel's own notices and the queue they      *)
(* spill into when a mailbox is full (kernel/service_registry.c), and what *)
(* happens to all of them when a task leaves.                              *)
(*                                                                         *)
(* Which task runs is left open: a step of a task is one system call, and  *)
(* the timer may interrupt between any two.  pc[t] is "user" outside the   *)
(* blocking receive, "blocked" in TASK_BLOCKED_IPC, "woken" when made READY *)
(* and not yet back on the CPU.                                            *)
(***************************************************************************)
EXTENDS Integers, Sequences, FiniteSets, SequencesExt

CONSTANTS
  Tasks,             \* pids of user tasks; a pid is used once
  First,             \* the tasks kernel_main starts
  Shell,             \* the one of them that is the root shell
  Services,          \* tasks that own a service name
  Devices,           \* tasks a device interrupt may wake
  Bodies,            \* what a task may send
  EndpointCapacity,  \* IPC_ENDPOINT_CAPACITY
  ServiceCapacity,   \* IPC_SERVICE_ENDPOINT_CAPACITY
  SpillCapacity,     \* SERVICE_IPC_SPILL_CAPACITY
  ChildCapacity,     \* OS_TASK_CHILD_CAPACITY
  Wrap,              \* 2^32: ticks wrap around
  Timeouts           \* time-outs a task may ask for

Kernel == 0
None == -1
Forever == Wrap - 1    \* OS_IPC_WAIT_FOREVER
Half == Wrap \div 2

\* Kernel messages: a service changed hands or a supervised child changed its
\* state; a child is gone.
Notices == {"change", "exit"}

ASSUME IpcAssumption ==
  /\ Tasks \subseteq Nat \ {0} /\ First \subseteq Tasks /\ Shell \in First
  /\ Services \subseteq Tasks /\ Devices \subseteq Tasks
  /\ Bodies \cap Notices = {}
  /\ EndpointCapacity \in Nat \ {0} /\ ServiceCapacity \in 1..EndpointCapacity
  /\ SpillCapacity \in Nat /\ ChildCapacity \in Nat \ {0}
  /\ Half \in Nat \ {0} /\ Wrap = 2 * Half /\ Timeouts \subseteq 0..Forever

VARIABLES
  pc,       \* where a task is
  mail,     \* ipc_endpoint: messages [from, body], oldest first
  spill,    \* bodies of the spill slots used for a task, by order
  wait,     \* ipc_wait: blocked, forever, timedOut, deadline
  parent,   \* parent_pid
  now,      \* timer_ticks
  doomed    \* children a running SYS_TASK_KILL_CHILDREN has yet to end

vars == <<pc, mail, spill, wait, parent, now, doomed>>

Messages == [from : Tasks \cup {Kernel}, body : Bodies \cup Notices]
NoWait == [blocked |-> FALSE, forever |-> FALSE, timedOut |-> FALSE, deadline |-> 0]
Alive == {t \in Tasks : pc[t] \in {"user", "blocked", "woken"}}

-----------------------------------------------------------------------------
(* Queues.  b is a record of pc, mail, spill, wait and parent: kernel code *)
(* that sends several notices works on them one after the other.           *)

Box == [pc |-> pc, mail |-> mail, spill |-> spill, wait |-> wait, parent |-> parent]

Becomes(b) ==
  /\ pc' = b.pc /\ mail' = b.mail /\ spill' = b.spill
  /\ wait' = b.wait /\ parent' = b.parent

\* task_ipc_message_queued and ipc_wait_on_message
Woken(b, t) ==
  IF b.pc[t] = "blocked" /\ b.wait[t].blocked
  THEN [b EXCEPT !.pc[t] = "woken", !.wait[t].blocked = FALSE]
  ELSE b

HasRoom(b, t) == Len(b.mail[t]) < EndpointCapacity

\* ipc_endpoint_send with room, then the wake-up
Mailed(b, t, from, body) ==
  Woken([b EXCEPT !.mail[t] = Append(@, [from |-> from, body |-> body])], t)

\* service_registry_ipc_spill_push with a free slot, then the wake-up
Spilled(b, t, body) ==
  Woken([b EXCEPT !.spill[t] = Append(@, body)], t)

\* Spill slots in use; the slots are shared by all tasks.
Used(b) == Cardinality({slot \in Tasks \X (1..SpillCapacity) : slot[2] <= Len(b.spill[slot[1]])})

\* A notice that may spill: mailbox, else spill queue, else it is lost and
\* counted.
Notified(b, t, body) ==
  IF HasRoom(b, t) THEN Mailed(b, t, Kernel, body)
  ELSE IF Used(b) < SpillCapacity THEN Spilled(b, t, body)
  ELSE b

\* The exit notice never spills.
ExitNoticed(b, t) == IF HasRoom(b, t) THEN Mailed(b, t, Kernel, "exit") ELSE b

\* ipc_spill_clear_pid
Cleared(b, t) == [b EXCEPT !.spill[t] = <<>>]

\* Mutant: the newest message is taken.
M_Received(b, t) ==
  IF b.mail[t] # <<>> THEN [b EXCEPT !.mail[t] = Front(@)]
  ELSE [b EXCEPT !.spill[t] = Tail(@)]

\* sys_ipc_receive with something there: the mailbox, then the oldest spilled
\* notice
Received(b, t) ==
  IF b.mail[t] # <<>> THEN [b EXCEPT !.mail[t] = Tail(@)]
  ELSE [b EXCEPT !.spill[t] = Tail(@)]

Pending(b, t) == b.mail[t] # <<>> \/ b.spill[t] # <<>>

-----------------------------------------------------------------------------
Init ==
  /\ pc = [t \in Tasks |-> IF t \in First THEN "user" ELSE "unborn"]
  /\ mail = [t \in Tasks |-> <<>>]
  /\ spill = [t \in Tasks |-> <<>>]
  /\ wait = [t \in Tasks |-> NoWait]
  /\ parent = [t \in Tasks |-> Kernel]
  /\ now = 0
  /\ doomed = {}

\* t may make a system call: it is not in one, and nobody else is half way
\* through one.
Runs(t) == pc[t] = "user" /\ doomed = {}

\* SYS_SPAWN of t by s
Start(s, t) ==
  /\ Runs(s) /\ pc[t] = "unborn"
  /\ pc' = [pc EXCEPT ![t] = "user"]
  /\ parent' = [parent EXCEPT ![t] = s]
  /\ UNCHANGED <<mail, spill, wait, now, doomed>>

\* sys_ipc_send: a service owner takes fewer messages from tasks than from
\* the kernel.
Send(s, t, body) ==
  /\ Runs(s) /\ t \in Alive
  /\ t \in Services => Len(mail[t]) < ServiceCapacity
  /\ HasRoom(Box, t)
  /\ Becomes(Mailed(Box, t, s, body))
  /\ UNCHANGED <<now, doomed>>

\* service_notify_change and task_notify_supervision_event from a system call
\* of s, to one watcher or parent t
Notify(s, t) ==
  /\ Runs(s) /\ t \in Alive
  /\ Becomes(Notified(Box, t, "change"))
  /\ UNCHANGED <<now, doomed>>

\* SYS_IPC_RECV, and SYS_IPC_RECV_WAIT when it finds a message
Recv(t) ==
  /\ Runs(t) /\ Pending(Box, t)
  /\ Becomes(Received(Box, t))
  /\ UNCHANGED <<now, doomed>>

\* SYS_IPC_RECV_WAIT with nothing there: ipc_wait_begin, TASK_BLOCKED_IPC
RecvWait(t, timeout) ==
  /\ Runs(t) /\ ~Pending(Box, t) /\ timeout # 0
  /\ pc' = [pc EXCEPT ![t] = "blocked"]
  /\ wait' = [wait EXCEPT ![t] = [blocked |-> TRUE, forever |-> timeout = Forever,
                                  timedOut |-> FALSE, deadline |-> (now + timeout) % Wrap]]
  /\ UNCHANGED <<mail, spill, parent, now, doomed>>

\* Mutant: tick values compared as plain numbers.
M_Reached(w, tick) == ~w.forever /\ tick >= w.deadline

\* Mutant: the deadline itself does not count.
M_ReachedLate(w, tick) == ~w.forever /\ (tick - w.deadline) % Wrap \in 1..(Half - 1)

\* (int32_t)(now - deadline) >= 0
Reached(w, tick) == ~w.forever /\ (tick - w.deadline) % Wrap < Half

Due(tick) ==
  {t \in Tasks : pc[t] = "blocked" /\ wait[t].blocked /\ Reached(wait[t], tick)}

TimedOut(S) ==
  [t \in Tasks |-> IF t \in S THEN [wait[t] EXCEPT !.blocked = FALSE, !.timedOut = TRUE]
                  ELSE wait[t]]

\* Mutant: the wait record is told, the task is not made READY.
M_Tick ==
  /\ now' = (now + 1) % Wrap
  /\ wait' = TimedOut(Due(now'))
  /\ UNCHANGED <<pc, mail, spill, parent, doomed>>

\* timer_handler, task_ipc_wait_tick: every waiter whose deadline is reached
\* becomes READY.
Tick ==
  /\ now' = (now + 1) % Wrap
  /\ wait' = TimedOut(Due(now'))
  /\ pc' = [t \in Tasks |-> IF t \in Due(now') THEN "woken" ELSE pc[t]]
  /\ UNCHANGED <<mail, spill, parent, doomed>>

\* device_wake_owner, from an interrupt: nothing is in the mailbox.
DeviceWake(t) ==
  /\ t \in Devices
  /\ Becomes(Woken(Box, t)) /\ UNCHANGED <<now, doomed>>

\* The woken task is on the CPU again: receive, and ipc_wait_after_wake.  The
\* next wait sets every field of the record, so none is kept.
ResumeWithMessage(t) ==
  /\ pc[t] = "woken" /\ doomed = {} /\ Pending(Box, t)
  /\ Becomes([Received(Box, t) EXCEPT !.pc[t] = "user", !.wait[t] = NoWait])
  /\ UNCHANGED <<now, doomed>>

ResumeTimedOut(t) ==
  /\ pc[t] = "woken" /\ doomed = {} /\ ~Pending(Box, t)
  /\ wait[t].timedOut \/ Reached(wait[t], now)
  /\ Becomes([Box EXCEPT !.pc[t] = "user", !.wait[t] = NoWait])
  /\ UNCHANGED <<now, doomed>>

\* Mutant: the wait record is not armed again.
M_ResumeSpurious(t) ==
  /\ pc[t] = "woken" /\ doomed = {} /\ ~Pending(Box, t)
  /\ ~wait[t].timedOut /\ ~Reached(wait[t], now)
  /\ pc' = [pc EXCEPT ![t] = "blocked"]
  /\ UNCHANGED <<mail, spill, wait, parent, now, doomed>>

\* Woken for nothing: back to sleep until the same deadline
ResumeSpurious(t) ==
  /\ pc[t] = "woken" /\ doomed = {} /\ ~Pending(Box, t)
  /\ ~wait[t].timedOut /\ ~Reached(wait[t], now)
  /\ Becomes([Box EXCEPT !.pc[t] = "blocked", !.wait[t].blocked = TRUE])
  /\ UNCHANGED <<now, doomed>>

-----------------------------------------------------------------------------
(* Departures *)

\* service_notify_purge_pid of t: its watcher w, if any, is told; then
\* service_registry_remove_watcher_pid drops what t has in the spill queue.
Purged(b, t, w) ==
  Cleared(IF w # None THEN Notified(b, w, "change") ELSE b, t)

\* task_report_parent_exit: the supervision notice when the parent asked for
\* it, then the exit notice
Reported(b, t, asked) ==
  LET p == parent[t]
  IN  IF p \notin Alive THEN b
      ELSE ExitNoticed(IF asked THEN Notified(b, p, "change") ELSE b, p)

\* task_reparent_children, and the record is given back
Gone(b, t) ==
  [b EXCEPT !.pc[t] = "gone", !.mail[t] = <<>>, !.wait[t] = NoWait,
            !.parent = [u \in Tasks |-> IF @[u] = t THEN @[t] ELSE @[u]]]

Watchers(t) == {None} \cup (IF t \in Services THEN Alive ELSE {})

\* SYS_EXIT
Exit(t, w, asked) ==
  /\ Runs(t) /\ w \in Watchers(t)
  /\ Becomes(Gone(Reported(Purged(Box, t, w), t, asked), t))
  /\ UNCHANGED <<now, doomed>>

\* task_kill: the parent, or the root shell for a boot service
MayKill(s, t) == parent[t] = s \/ (s = Shell /\ t \in First \ {Shell})

\* SYS_KILL
Kill(s, t, w, asked) ==
  /\ Runs(s) /\ t \in Alive \ {s} /\ MayKill(s, t) /\ w \in Watchers(t)
  /\ Becomes(Gone(Reported(Purged(Box, t, w), t, asked), t))
  /\ UNCHANGED <<now, doomed>>

\* SYS_KILL that task_kill refuses: sys_kill has already purged the target.
KillRefused(s, t, w) ==
  /\ Runs(s) /\ t \in Alive /\ (s = t \/ ~MayKill(s, t)) /\ w \in Watchers(t)
  /\ Becomes(Purged(Box, t, w))
  /\ UNCHANGED <<now, doomed>>

\* task_kill_direct_children: ChildCapacity of the children s has now, or all
\* when there are fewer, are listed ...
KillChildren(s) ==
  /\ Runs(s)
  /\ LET children == {t \in Alive : parent[t] = s}
     IN  \E D \in SUBSET children :
           /\ Cardinality(D) <= ChildCapacity
           /\ D = children \/ Cardinality(D) = ChildCapacity
           /\ doomed' = D
  /\ UNCHANGED <<pc, mail, spill, wait, parent, now>>

\* ... and ended one after the other, without the purge of sys_kill.
KillNext(t, asked) ==
  /\ t \in doomed
  /\ Becomes(Gone(Reported(Box, t, asked), t))
  /\ doomed' = doomed \ {t}
  /\ UNCHANGED now

Next ==
  \/ Tick
  \/ \E t \in Tasks :
       \/ Recv(t) \/ DeviceWake(t) \/ KillChildren(t)
       \/ ResumeWithMessage(t) \/ ResumeTimedOut(t) \/ ResumeSpurious(t)
       \/ \E timeout \in Timeouts : RecvWait(t, timeout)
       \/ \E w \in Tasks \cup {None}, asked \in BOOLEAN : Exit(t, w, asked)
       \/ \E asked \in BOOLEAN : KillNext(t, asked)
       \/ \E s \in Tasks :
            \/ Start(s, t)
            \/ \E body \in Bodies : Send(s, t, body)
            \/ Notify(s, t)
            \/ \E w \in Tasks \cup {None} : KillRefused(s, t, w)
            \/ \E w \in Tasks \cup {None}, asked \in BOOLEAN : Kill(s, t, w, asked)

Spec == Init /\ [][Next]_vars

\* The timer ticks, and a READY task gets the CPU in the end.
Resume(t) == ResumeWithMessage(t) \/ ResumeTimedOut(t) \/ ResumeSpurious(t)
Fairness ==
  /\ WF_vars(Tick) /\ \A t \in Tasks : WF_vars(\E asks \in BOOLEAN : KillNext(t, asks))
  /\ \A t \in Tasks : SF_vars(Resume(t))
-----------------------------------------------------------------------------
(* Properties *)

\* Every variable keeps its type; deadlines and the tick counter stay in the
\* range of an unsigned word, which ipc_wait_begin obtains by wrapping.
TypeOK ==
  /\ pc \in [Tasks -> {"unborn", "user", "blocked", "woken", "gone"}]
  /\ mail \in [Tasks -> Seq(Messages)] /\ spill \in [Tasks -> Seq(Notices)]
  /\ wait \in [Tasks -> [blocked : BOOLEAN, forever : BOOLEAN, timedOut : BOOLEAN,
                         deadline : 0..Forever]]
  /\ parent \in [Tasks -> Tasks \cup {Kernel}]
  /\ now \in 0..Forever /\ doomed \subseteq Tasks

\* A task asleep in SYS_IPC_RECV_WAIT has nothing to receive, neither in its
\* mailbox nor in the spill queue, and its wait record agrees that it sleeps,
\* so that the next message or its deadline wakes it.
NoLostWakeup ==
  \A t \in Tasks : pc[t] = "blocked" => ~Pending(Box, t) /\ wait[t].blocked

\* A receive with a time-out comes back, with a message or without, whoever
\* dies or is killed meanwhile.
WaitEnds ==
  \A t \in Tasks : (pc[t] = "blocked" /\ ~wait[t].forever) ~> pc[t] \in {"user", "gone"}

-----------------------------------------------------------------------------
(* The channels this implements, for the senders S: their bodies in the     *)
(* order a receiver would take them                                         *)

Queue(t) ==
  mail[t] \o [i \in DOMAIN spill[t] |-> [from |-> Kernel, body |-> spill[t][i]]]
Chan(s, t) ==
  LET q == SelectSeq(Queue(t), LAMBDA m : m.from = s)
  IN  [i \in DOMAIN q |-> q[i].body]

TaskChannels == INSTANCE IpcChannels WITH
  Senders <- Tasks, Receivers <- Tasks, Bodies <- Bodies, Bound <- EndpointCapacity,
  chan <- [s \in Tasks |-> [t \in Tasks |-> Chan(s, t)]], open <- Alive

\* What tasks send one another arrives in order and once.
InOrder == TaskChannels!CSpec
=============================================================================
