------------------------------ MODULE TaskTree ------------------------------
(***************************************************************************)
(* Task lifecycle of the kernel: creation, exit, kill, waiting for a       *)
(* child, suspension and delegation (kernel/task/task.c and the SYS_EXEC,  *)
(* SYS_SPAWN, SYS_EXIT, SYS_KILL and SYS_TASK_* cases of                   *)
(* kernel/syscall/syscall.c).                                              *)
(*                                                                         *)
(* One CPU: a system call runs to its end or to its call of schedule(), so *)
(* every handler is one action, and the caller is always `current'.  The   *)
(* scheduler's choice among READY tasks is left open here; priorities and  *)
(* round robin are the subject of module Scheduler.  Pids are never reused *)
(* (next_task_id only grows); MaxPid bounds them for model checking.       *)
(***************************************************************************)
EXTENDS Integers, FiniteSets

CONSTANTS MaxPid,          \* largest pid handed out (bound of the model)
          Drivers,         \* number of boot services started with the shell
          ChildCapacity,   \* OS_TASK_CHILD_CAPACITY
          GlobalCapacity   \* OS_TASK_GLOBAL_CAPACITY

Kernel == 0
NoPid == -1
Pids == 1..MaxPid
Tasks == 0..MaxPid
Shell == 1                     \* g_root_shell_pid: "the shell keeps PID 1"
BootTasks == 2..(Drivers + 1)  \* boot_service set by kernel_main

ASSUME TaskTreeAssumption ==
  /\ MaxPid \in Nat /\ Drivers \in Nat /\ Drivers < MaxPid
  /\ ChildCapacity \in Nat
  /\ GlobalCapacity \in Nat /\ Drivers + 2 <= GlobalCapacity

VARIABLES
  state,     \* task_t.state; "free" when the task is not in the queue
  parent,    \* task_t.parent_pid, NoPid for a root
  waiter,    \* task_t.waiter_pid, 0 for none
  boot,      \* tasks with boot_service set
  current,   \* current_task
  reap,      \* deferred_reap_task, NoPid for none
  nextId,    \* next_task_id
  resched    \* g_reschedule_needed

vars == <<state, parent, waiter, boot, current, reap, nextId, resched>>

TaskStates ==
  {"free", "ready", "running", "waiting", "suspended", "blocked"}

-----------------------------------------------------------------------------
(* The queue and the family relation *)

Queued == {t \in Tasks : state[t] # "free"}
Children(p) == {t \in Queued : parent[t] = p}

\* task_static_acquire finds a slot unless the queue and the task waiting
\* to be reaped hold them all.
SlotFree ==
  Cardinality(Queued) + (IF reap = NoPid THEN 0 ELSE 1) < GlobalCapacity

\* task_can_create_child, then task_can_create_global
CanCreateChild ==
  /\ Cardinality(Children(current)) < ChildCapacity
  /\ Cardinality(Queued) < GlobalCapacity

\* Mutant: only the supervisor and its parent are compared.
M_OnChain(a, s) == a \in {s, parent[s]}

\* The chain the delegation check walks from a supervisor to its root: the
\* smallest set of tasks that holds s and the parent of each member.
OnChain(a, s) ==
  \A S \in SUBSET Queued :
    (s \in S /\ \A t \in S : parent[t] \in Queued => parent[t] \in S)
      => a \in S

\* Mutants: the waiter is not woken; any stopped waiter is woken.
M_NoWake(s, D) == s
M_WakeStopped(s, D) ==
  [t \in Tasks |->
     IF s[t] \in {"waiting", "suspended"} /\ \E d \in D : waiter[d] = t
       THEN "ready" ELSE s[t]]

\* task_wake_waiter on every task of the set D, the states being s: only a
\* waiter that is still WAITING becomes READY.
Woken(s, D) ==
  [t \in Tasks |->
     IF s[t] = "waiting" /\ \E d \in D : waiter[d] = t THEN "ready" ELSE s[t]]

\* task_reparent_children for the departing tasks D, none of which is the
\* parent of another: children move up to the parent of the departing task,
\* and the departing tasks' records are cleared (task_static_release).
Reparented(D) ==
  [t \in Tasks |->
     CASE t \in D -> NoPid
       [] t \notin D /\ parent[t] \in D -> parent[parent[t]]
       [] OTHER -> parent[t]]

\* Tasks D leave the queue: waiters woken, children moved up, D unlinked.
Departed(D) ==
  [t \in Tasks |-> IF t \in D THEN "free" ELSE Woken(state, D)[t]]

-----------------------------------------------------------------------------
(* schedule() *)

ReadyUsers(s) == {t \in Pids : s[t] = "ready"}

\* A READY user task is preferred; the kernel's idle task, always READY when
\* it does not run, is the fallback.
Eligible(s) == IF ReadyUsers(s) # {} THEN ReadyUsers(s) ELSE {Kernel}

\* Mutant: the task that ran stays RUNNING.
M_Preempted(s) == s

\* A task that still runs becomes READY before the choice.
Preempted(s) ==
  [s EXCEPT ![current] = IF @ = "running" THEN "ready" ELSE @]

\* schedule() with the states s the handler leaves: the task deferred by an
\* earlier exit is released, `dead' (NoPid for none) takes its place.
Dispatch(s, dead) ==
  /\ reap' = dead
  /\ \E t \in Eligible(Preempted(s)) :
       /\ current' = t
       /\ state' = [Preempted(s) EXCEPT ![t] = "running"]

-----------------------------------------------------------------------------
Init ==
  /\ state = [t \in Tasks |->
                CASE t = Kernel -> "running"
                  [] t \in BootTasks \cup {Shell} -> "ready"
                  [] OTHER -> "free"]
  /\ parent = [t \in Tasks |-> NoPid]
  /\ waiter = [t \in Tasks |-> 0]
  /\ boot = BootTasks
  /\ current = Kernel
  /\ reap = NoPid
  /\ nextId = Drivers + 2
  /\ resched = TRUE

InSyscall == current \in Pids

\* create_task_from_initrd_file: the new task enters the queue READY.
Created(s) == [s EXCEPT ![nextId] = "ready"]

\* SYS_SPAWN: the child starts READY and the parent gives way to it.
Spawn ==
  /\ InSyscall /\ CanCreateChild /\ SlotFree /\ nextId \in Pids
  /\ parent' = [parent EXCEPT ![nextId] = current]
  /\ nextId' = nextId + 1
  /\ Dispatch(Created(state), NoPid)
  /\ UNCHANGED <<waiter, boot, resched>>

\* SYS_EXEC: as SYS_SPAWN, and the parent waits for the child.
Exec ==
  /\ InSyscall /\ CanCreateChild /\ SlotFree /\ nextId \in Pids
  /\ parent' = [parent EXCEPT ![nextId] = current]
  /\ waiter' = [waiter EXCEPT ![nextId] = current]
  /\ nextId' = nextId + 1
  /\ Dispatch([Created(state) EXCEPT ![current] = "waiting"], NoPid)
  /\ UNCHANGED <<boot, resched>>

\* A supervisor (device_supervise, ata_supervisor_respawn, pci_supervise)
\* starts a driver again inside some task's system call.  It checks no
\* capacity but the slot, and the driver has no parent.
Respawn ==
  /\ InSyscall /\ SlotFree /\ nextId \in Pids
  /\ state' = Created(state)
  /\ parent' = [parent EXCEPT ![nextId] = NoPid]
  /\ boot' = boot \cup {nextId}
  /\ nextId' = nextId + 1
  /\ UNCHANGED <<waiter, current, reap, resched>>

\* SYS_EXIT, and the end of a task that faults at Ring 3.
Exit ==
  /\ InSyscall
  /\ parent' = Reparented({current})
  /\ waiter' = [waiter EXCEPT ![current] = 0]
  /\ boot' = boot \ {current}
  /\ Dispatch(Departed({current}), current)
  /\ UNCHANGED <<nextId, resched>>

\* task_kill: by the parent, or by the root shell for a boot service.
Kill(t) ==
  /\ InSyscall
  /\ t \in Pids /\ state[t] # "free" /\ t # current
  /\ \/ parent[t] = current
     \/ t \in boot /\ current = Shell
  /\ state' = Departed({t})
  /\ parent' = Reparented({t})
  /\ waiter' = [waiter EXCEPT ![t] = 0]
  /\ boot' = boot \ {t}
  /\ UNCHANGED <<current, reap, nextId, resched>>

\* task_kill_direct_children takes the first ChildCapacity children in queue
\* order.  A task with a parent was queued when its pid was drawn, so for
\* children that order is the order of pids.
FirstChildren(p) ==
  {t \in Children(p) : Cardinality({u \in Children(p) : u < t}) < ChildCapacity}

KillChildren ==
  /\ InSyscall
  /\ state' = Departed(FirstChildren(current))
  /\ parent' = Reparented(FirstChildren(current))
  /\ waiter' = [t \in Tasks |-> IF t \in FirstChildren(current) THEN 0 ELSE waiter[t]]
  /\ UNCHANGED <<boot, current, reap, nextId, resched>>

\* A child that already has another waiter refuses the wait
\* (OS_TASK_CONTROL_DENIED).
Deniers(p) == {t \in Children(p) : waiter[t] \notin {0, p}}

\* SYS_TASK_WAIT
Wait(c) ==
  /\ InSyscall
  /\ c \in Children(current) \ Deniers(current)
  /\ waiter' = [waiter EXCEPT ![c] = current]
  /\ Dispatch([state EXCEPT ![current] = "waiting"], NoPid)
  /\ UNCHANGED <<parent, boot, nextId, resched>>

\* SYS_TASK_WAIT_ANY marks the children one by one and waits ...
WaitAny ==
  /\ InSyscall
  /\ Children(current) # {} /\ Deniers(current) = {}
  /\ waiter' = [t \in Tasks |-> IF t \in Children(current) THEN current ELSE waiter[t]]
  /\ Dispatch([state EXCEPT ![current] = "waiting"], NoPid)
  /\ UNCHANGED <<parent, boot, nextId, resched>>

\* ... or stops at the first child that refuses, the ones before it marked.
WaitAnyDenied ==
  /\ InSyscall
  /\ Deniers(current) # {}
  /\ waiter' = [t \in Tasks |->
                  IF t \in Children(current) /\ \A d \in Deniers(current) : t < d
                    THEN current ELSE waiter[t]]
  /\ UNCHANGED <<state, parent, boot, current, reap, nextId, resched>>

\* task_suspend_child and task_resume_child
Suspend(c) ==
  /\ InSyscall
  /\ c \in Children(current) /\ state[c] = "ready"
  /\ state' = [state EXCEPT ![c] = "suspended"]
  /\ UNCHANGED <<parent, waiter, boot, current, reap, nextId, resched>>

Resume(c) ==
  /\ InSyscall
  /\ c \in Children(current) /\ state[c] = "suspended"
  /\ state' = [state EXCEPT ![c] = "ready"]
  /\ UNCHANGED <<parent, waiter, boot, current, reap, nextId, resched>>

\* task_delegate_child: no waiter on the child, room at the supervisor, and
\* the supervisor's chain of parents does not hold the child.
DelegateAllowed(c, s) ==
  /\ s \in Queued \cap Pids /\ s \notin {current, c}
  /\ waiter[c] = 0
  /\ Cardinality(Children(s)) < ChildCapacity
  /\ ~OnChain(c, s)

Delegate(c, s) ==
  /\ InSyscall
  /\ c \in Children(current)
  /\ DelegateAllowed(c, s)
  /\ parent' = [parent EXCEPT ![c] = s]
  /\ UNCHANGED <<state, waiter, boot, current, reap, nextId, resched>>

\* The caller blocks inside a system call (SYS_IPC_RECV_WAIT, a device wait,
\* the ATA sector RPC); what ends the wait is modelled with those parts.
Block ==
  /\ InSyscall
  /\ Dispatch([state EXCEPT ![current] = "blocked"], NoPid)
  /\ UNCHANGED <<parent, waiter, boot, nextId, resched>>

Unblock(t) ==
  /\ state[t] = "blocked"
  /\ state' = [state EXCEPT ![t] = "ready"]
  /\ UNCHANGED <<parent, waiter, boot, current, reap, nextId, resched>>

\* SYS_YIELD, and the IRQ0 preemption of a Ring 3 frame.
Yield ==
  /\ InSyscall
  /\ Dispatch(state, NoPid)
  /\ UNCHANGED <<parent, waiter, boot, nextId, resched>>

\* timer_handler: the boot hand-off requested by kernel_main.
HandOff ==
  /\ resched
  /\ resched' = FALSE
  /\ Dispatch(state, NoPid)
  /\ UNCHANGED <<parent, waiter, boot, nextId>>

Next ==
  \/ Spawn \/ Exec \/ Respawn \/ Exit \/ KillChildren
  \/ WaitAny \/ WaitAnyDenied \/ Block \/ Yield \/ HandOff
  \/ \E t \in Pids : Kill(t) \/ Wait(t) \/ Suspend(t) \/ Resume(t) \/ Unblock(t)
  \/ \E c, s \in Pids : Delegate(c, s)

Spec == Init /\ [][Next]_vars

-----------------------------------------------------------------------------
(* Properties *)

\* Every variable keeps its type; a free pid that was never handed out has
\* no waiter, and pids at or above next_task_id are not in the queue.
TypeOK ==
  /\ state \in [Tasks -> TaskStates]
  /\ parent \in [Tasks -> Pids \cup {NoPid}]
  /\ waiter \in [Tasks -> Tasks]
  /\ boot \subseteq Pids
  /\ current \in Tasks
  /\ reap \in Tasks \cup {NoPid}
  /\ nextId \in 1..(MaxPid + 1)
  /\ resched \in BOOLEAN
  /\ \A t \in Tasks : t >= nextId => state[t] = "free" /\ waiter[t] = 0

\* Exactly the current task is RUNNING, whatever handler called schedule()
\* last, and the idle task can always be chosen.
OneRunning ==
  /\ \A t \in Tasks : state[t] = "running" <=> t = current
  /\ state[Kernel] \in {"ready", "running"}

\* A queued task's parent is a queued task or it is a root: exits, kills and
\* delegations never leave a task under a pid that has gone.
ParentQueued ==
  \A t \in Queued : parent[t] = NoPid \/ parent[t] \in Queued

\* The family relation has no cycle: in every set of queued tasks some task
\* has its parent outside the set.  (What OS_TASK_BAD_DELEGATE is for.)
NoFamilyCycle ==
  \A S \in SUBSET Queued : S # {} => \E t \in S : parent[t] \notin S

\* No lost wake-up: a WAITING task has a queued child that will wake it.
WaiterHasChild ==
  \A p \in Tasks : state[p] = "waiting" =>
    \E c \in Queued : parent[c] = p /\ waiter[c] = p

\* The waiter of a task is its parent, or a task that has left the queue:
\* a delegation never separates a wait from its parent.
WaiterIsParentOrGone ==
  \A c \in Queued : waiter[c] # 0 =>
    waiter[c] = parent[c] \/ waiter[c] \notin Queued

\* Only its parent takes a task out of SUSPENDED: neither a wake-up left over
\* from an earlier wait nor the scheduler does.
OnlyParentResumes ==
  [][\A t \in Tasks : state[t] = "suspended" /\ state'[t] # "suspended"
       => current = parent[t]]_vars
=============================================================================
