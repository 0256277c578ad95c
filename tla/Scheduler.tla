----------------------------- MODULE Scheduler -----------------------------
(***************************************************************************)
(* schedule() of kernel/task/task.c and the timer interrupt that calls it  *)
(* (kernel/timer.c, kernel/sched_quantum.h): priorities, round robin with  *)
(* its anchor, the hand-over to Ring 3 drivers and back, sleeping with a   *)
(* deadline, and the idle task.                                            *)
(*                                                                         *)
(* Families and waits are in TaskTree, mailboxes in Ipc.  task_sched_only, *)
(* which narrows the choice to one task during a disk request, belongs to  *)
(* the ATA bridge; here it is NULL.                                        *)
(***************************************************************************)
EXTENDS Integers, Sequences, FiniteSets, SequencesExt

CONSTANTS BootOrder,   \* the queue of user tasks kernel_main builds
          Boot,        \* tasks with boot_service
          Devices,     \* the boot services that drive a device
          Users,       \* all user tasks; one that left may be started again
          Quantum,     \* TIMER_PREEMPT_QUANTUM
          MaxTimeout,  \* longest time-out of a sleep
          Priorities   \* priorities a task may ask for

Kernel == 0
None == -1
NORMAL == 2            \* OS_TASK_PRIORITY_NORMAL
HIGH == 3              \* OS_TASK_PRIORITY_HIGH

ASSUME SchedulerAssumption ==
  /\ Users \subseteq Nat \ {0} /\ IsFiniteSet(Users)
  /\ Devices \subseteq Boot /\ Boot \subseteq Range(BootOrder)
  /\ Range(BootOrder) \subseteq Users /\ IsInjective(BootOrder)
  /\ Quantum \in Nat \ {0} /\ MaxTimeout \in Nat /\ Priorities \subseteq 1..HIGH

Tasks == Users \cup {Kernel}

VARIABLES
  queue,     \* the circular queue from task_queue on, the idle task first
  state,     \* task_t.state; "gone" when the task is not in the queue
  priority,  \* task_t.priority
  current,   \* current_task
  anchor,    \* g_rr_anchor
  resume,    \* g_resume_after_high
  age,       \* ticks since last_scheduled_ticks, Quantum standing for more
  sleep,     \* ticks a sleeping task has left, None without a time-out
  gets,      \* task_gets_waiter
  resched    \* g_reschedule_needed

vars == <<queue, state, priority, current, anchor, resume, age, sleep, gets, resched>>

\* "sleeping": in SYS_IPC_RECV_WAIT or a device wait; "relayed": blocked on a
\* job of the ai-engine.
States == {"gone", "ready", "running", "sleeping", "relayed"}

FirstPriority(t) == IF t \in Devices THEN HIGH ELSE NORMAL

-----------------------------------------------------------------------------
(* The choice made by schedule() *)

\* The queue in the order of the scan: from the task after t round to t.
ScanFrom(q, t) ==
  LET i == CHOOSE n \in DOMAIN q : q[n] = t
  IN  SubSeq(q, i + 1, Len(q)) \o SubSeq(q, 1, i)

First(q, S) ==
  q[CHOOSE n \in DOMAIN q : q[n] \in S /\ \A m \in 1..(n - 1) : q[m] \notin S]

\* task_sched_allowed: while g waits for a key in SYS_GETS, only g and the
\* boot services run.
Allowed(g, t) == g \in {None, t} \/ t \in Boot

\* Mutant: the scan always starts at the task that runs.
M_Start(c, a) == c

\* After a HIGH task the scan starts at the last lower task that ran.
Start(c, a) == IF priority[c] >= HIGH /\ a # None THEN a ELSE c

\* The first allowed user task of the highest priority in scan order; without
\* one, the first READY task.
Chosen(q, s, from, g) ==
  LET ready == {t \in Users : s[t] = "ready" /\ Allowed(g, t)}
      best == {t \in ready : \A u \in ready : priority[u] <= priority[t]}
  IN  First(ScanFrom(q, from),
            IF best # {} THEN best ELSE {t \in Tasks : s[t] = "ready"})

\* Mutant: a HIGH task that is ready is not looked at.
M_ResumesAnchor(s, ag, c, next, a, r, g) ==
  /\ priority[c] >= HIGH
  /\ a # None /\ a = r /\ a # next
  /\ s[a] = "ready" /\ Allowed(g, a) /\ ag[a] < Quantum

\* A driver that ran for an instant gives the CPU back to the task that
\* handed it over, while that task's quantum is not spent.
ResumesAnchor(s, ag, c, next, a, r, g) ==
  /\ priority[c] >= HIGH /\ priority[next] < HIGH
  /\ a # None /\ a = r /\ a # next
  /\ s[a] = "ready" /\ Allowed(g, a) /\ ag[a] < Quantum

\* schedule() makes a running current_task READY before it looks for another.
Preempted(s, c) == [s EXCEPT ![c] = IF @ = "running" THEN "ready" ELSE @]

\* schedule() with the queue q, states s0, ages ag, the task c in
\* current_task, the marks a and r, and the reader g of SYS_GETS.  A reader
\* that is chosen resumes in sys_gets_cooperative and clears the mark.
Schedule(q, s0, ag, c, a, r, g) ==
  LET s == Preempted(s0, c)
      next == Chosen(q, s, Start(c, a), g)
      back == ResumesAnchor(s, ag, c, next, a, r, g)
      t == IF back THEN a ELSE next
      low == t # Kernel /\ priority[t] < HIGH
  IN  /\ current' = t
      /\ state' = [s EXCEPT ![t] = "running"]
      /\ age' = [ag EXCEPT ![t] = IF back THEN @ ELSE 0]
      /\ anchor' = IF low THEN t ELSE a
      /\ resume' = IF low THEN None ELSE r
      /\ gets' = IF t = g THEN None ELSE g

-----------------------------------------------------------------------------
Init ==
  /\ queue = <<Kernel>> \o BootOrder
  /\ state = [t \in Tasks |->
                IF t = Kernel THEN "running"
                ELSE IF t \in Range(BootOrder) THEN "ready" ELSE "gone"]
  /\ priority = [t \in Tasks |-> IF t = Kernel THEN NORMAL ELSE FirstPriority(t)]
  /\ current = Kernel
  /\ anchor = None /\ resume = None
  /\ age = [t \in Tasks |-> 0]
  /\ sleep = [t \in Tasks |-> None]
  /\ gets = None
  /\ resched = TRUE

InSyscall == current \in Users

\* SYS_YIELD, and every system call that ends in schedule() with the caller
\* still running.
Yield ==
  /\ InSyscall
  /\ Schedule(queue, state, age, current, anchor, resume, gets)
  /\ UNCHANGED <<queue, priority, sleep, resched>>

\* The end of a system call while a device driver is READY and has work
\* (device_driver_wants_cpu): task_yield_to_driver.
YieldToDriver ==
  /\ InSyscall
  /\ \E d \in Devices \ {current} : state[d] = "ready"
  /\ Schedule(queue, state, age, current, anchor, current, gets)
  /\ UNCHANGED <<queue, priority, sleep, resched>>

\* SYS_GETS without a key: the reader gives way to the boot services.
PollKey ==
  /\ InSyscall /\ current \notin Boot
  /\ Schedule(queue, state, age, current, anchor, resume, current)
  /\ UNCHANGED <<queue, priority, sleep, resched>>

\* The caller sleeps for n ticks, or without a time-out.
Sleep(n) ==
  /\ InSyscall
  /\ Schedule(queue, [state EXCEPT ![current] = "sleeping"],
              age, current, anchor, resume, gets)
  /\ sleep' = [sleep EXCEPT ![current] = n]
  /\ UNCHANGED <<queue, priority, resched>>

\* The caller waits for the ai-engine (ai_relay_dispatch).
Relay ==
  /\ InSyscall /\ current \notin Boot
  /\ Schedule(queue, [state EXCEPT ![current] = "relayed"],
              age, current, anchor, resume, gets)
  /\ UNCHANGED <<queue, priority, sleep, resched>>

\* A message or an answer queued by the caller, or by a device interrupt.
Wake(t) ==
  /\ InSyscall \/ t \in Devices
  /\ state[t] \in {"sleeping", "relayed"}
  /\ state' = [state EXCEPT ![t] = "ready"]
  /\ sleep' = [sleep EXCEPT ![t] = None]
  /\ UNCHANGED <<queue, priority, current, anchor, resume, age, gets, resched>>

\* unlink_task clears a mark that points to the task.
Unmarked(m, t) == IF m = t THEN None ELSE m

\* SYS_EXIT: current_task becomes the next task of the queue, from which
\* schedule() then chooses.  The record is given back: a task started later
\* under the same name has the priority and the age of a new one.
Exit ==
  /\ InSyscall
  /\ LET q == Remove(queue, current)
     IN  /\ queue' = q
         /\ Schedule(q, [state EXCEPT ![current] = "gone"], [age EXCEPT ![current] = 0],
                     Head(ScanFrom(queue, current)),
                     Unmarked(anchor, current), Unmarked(resume, current), gets)
  /\ priority' = [priority EXCEPT ![current] = FirstPriority(current)]
  /\ UNCHANGED <<sleep, resched>>

\* Mutant: the marks of the round robin stay on the killed task.
M_Kill(t) ==
  /\ InSyscall /\ current \notin Boot
  /\ t # current /\ state[t] # "gone"
  /\ queue' = Remove(queue, t)
  /\ state' = [state EXCEPT ![t] = "gone"]
  /\ sleep' = [sleep EXCEPT ![t] = None]
  /\ age' = [age EXCEPT ![t] = 0]
  /\ priority' = [priority EXCEPT ![t] = FirstPriority(t)]
  /\ UNCHANGED <<current, anchor, resume, gets, resched>>

\* task_kill of another task; boot services have no children to kill
Kill(t) ==
  /\ InSyscall /\ current \notin Boot
  /\ t # current /\ state[t] # "gone"
  /\ queue' = Remove(queue, t)
  /\ state' = [state EXCEPT ![t] = "gone"]
  /\ sleep' = [sleep EXCEPT ![t] = None]
  /\ anchor' = Unmarked(anchor, t) /\ resume' = Unmarked(resume, t)
  /\ age' = [age EXCEPT ![t] = 0]
  /\ priority' = [priority EXCEPT ![t] = FirstPriority(t)]
  /\ UNCHANGED <<current, gets, resched>>

\* SYS_SPAWN: the child is queued last, and the parent gives way.
Spawn(t) ==
  /\ InSyscall /\ current \notin Boot /\ state[t] = "gone" /\ t \notin Boot
  /\ queue' = Append(queue, t)
  /\ Schedule(Append(queue, t), [state EXCEPT ![t] = "ready"],
              age, current, anchor, resume, gets)
  /\ UNCHANGED <<priority, sleep, resched>>

\* A supervisor starts a boot service again, last (device_supervise) or first
\* (ata_supervisor_respawn, task_queue_move_first_user).
Respawn(t) ==
  /\ InSyscall /\ state[t] = "gone" /\ t \in Boot
  /\ queue' = IF t \in Devices THEN Append(queue, t) ELSE InsertAt(queue, 2, t)
  /\ state' = [state EXCEPT ![t] = "ready"]
  /\ UNCHANGED <<priority, current, anchor, resume, age, sleep, gets, resched>>

\* SYS_TASK_SET_PRIORITY, of the caller or of a task it started
SetPriority(t, p) ==
  /\ InSyscall /\ state[t] # "gone" /\ (t = current \/ {t, current} \cap Boot = {})
  /\ priority' = [priority EXCEPT ![t] = p]
  /\ UNCHANGED <<queue, state, current, anchor, resume, age, sleep, gets, resched>>

\* sched_quantum_preempt_due on the ages and states of this tick
PreemptDue(userFrame, s, ag) ==
  /\ userFrame /\ current \in Users
  /\ \E t \in Users \ {current} : s[t] = "ready"
  /\ ag[current] >= Quantum

Older == [t \in Tasks |-> IF age[t] < Quantum THEN age[t] + 1 ELSE Quantum]

\* task_ipc_wait_tick: sleepers whose deadline is reached, by a tick
Expired == {t \in Users : state[t] = "sleeping" /\ sleep[t] = 1}

\* timer_handler.  userFrame: the interrupted frame is a Ring 3 one.  The
\* ai-engine watchdog may release a caller, W; the schedule() it then makes
\* from the idle task is the only one besides the boot hand-off that idle
\* time leads to.
Tick(userFrame, W) ==
  LET s == [t \in Tasks |-> IF t \in Expired \cup W THEN "ready" ELSE state[t]]
  IN  /\ sleep' = [t \in Tasks |->
                     IF state[t] = "sleeping" /\ sleep[t] > 1 THEN sleep[t] - 1
                     ELSE IF t \in Expired THEN None ELSE sleep[t]]
      /\ \/ /\ W # {} /\ current = Kernel
            /\ Schedule(queue, s, Older, current, anchor, resume, gets)
            /\ UNCHANGED resched
         \/ /\ ~(W # {} /\ current = Kernel)
            /\ resched \/ PreemptDue(userFrame, s, Older)
            /\ Schedule(queue, s, Older, current, anchor, resume, gets)
            /\ resched' = FALSE
         \/ /\ ~(W # {} /\ current = Kernel)
            /\ ~resched /\ ~PreemptDue(userFrame, s, Older)
            /\ state' = s /\ age' = Older
            /\ UNCHANGED <<current, anchor, resume, gets, resched>>
      /\ UNCHANGED <<queue, priority>>

Timer ==
  \E userFrame \in BOOLEAN, W \in {{}} \cup {{t} : t \in {u \in Users : state[u] = "relayed"}} :
    (userFrame => InSyscall) /\ Tick(userFrame, W)

Next ==
  \/ Yield \/ YieldToDriver \/ PollKey \/ Relay \/ Exit \/ Timer
  \/ \E n \in {None} \cup 1..MaxTimeout : Sleep(n)
  \/ \E t \in Users : Wake(t) \/ Kill(t) \/ Spawn(t) \/ Respawn(t)
  \/ \E t \in Users, p \in Priorities : SetPriority(t, p)

Spec == Init /\ [][Next]_vars

-----------------------------------------------------------------------------
(* Properties *)

\* The queue holds each living task once, the idle task first, and the marks
\* g_rr_anchor, g_resume_after_high and task_gets_waiter never point to a
\* task that has left it.
MarksQueued ==
  /\ Range(queue) = {t \in Tasks : state[t] # "gone"} /\ IsInjective(queue)
  /\ Head(queue) = Kernel
  /\ {current, anchor, resume, gets} \subseteq Range(queue) \cup {None}

\* The CPU never goes to a task below HIGH while a HIGH task that may run is
\* READY, nor to the idle task while a user task that may run is.
HighFirst ==
  [][current' # current =>
       \A t \in Users : state'[t] = "ready" /\ Allowed(gets, t) /\ Allowed(gets', t) =>
         current' # Kernel /\ (priority'[t] >= HIGH => priority'[current'] >= HIGH)]_vars
=============================================================================
