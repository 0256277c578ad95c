------------------------------ MODULE DriverHost ------------------------------
(* What the kernel keeps for every Ring 3 device driver: who owns the device, *)
(* the respawn budget, and the sleep of the driver in its wait call.          *)
(*   kernel/device_service.c  g_dev, set_owner, owner_gone, should_respawn    *)
(*   kernel/syscall/syscall.c device_block, device_wake_owner,                *)
(*                            device_owner_alive, device_supervise            *)
(* A call runs with interrupts enabled and is never preempted: while inCall   *)
(* names a driver only interrupts (IRQ0, IRQ1) interleave with it.            *)
EXTENDS Naturals, FiniteSets

CONSTANTS
  RespawnLimit,   \* DEVICE_RESPAWN_LIMIT
  WaitTicks,      \* [Dev -> ticks a driver asks to sleep]: TAKE 2, WAIT 50
  StallTicks,     \* DEVICE_STALL_TICKS
  CheckTicks,     \* the 10 ticks between two owner checks of the watchdog
  Boot            \* the sets of drivers the boot may have started

Dev == {"ps2", "serial", "vga"}

ASSUME HostConstants ==
  /\ RespawnLimit \in Nat
  /\ WaitTicks \in [Dev -> Nat \ {0}]
  /\ StallTicks \in Nat \ {0}
  /\ CheckTicks \in Nat \ {0}
  /\ Boot \subseteq SUBSET Dev

VARIABLES
  owner,      \* [Dev -> Nat]: g_dev[dev].owner, 0 when Ring 0 has the device
  handedOff,  \* [Dev -> BOOLEAN]: a driver claimed the device once
  respawns,   \* [Dev -> 0..RespawnLimit]: respawns used
  pid,        \* [Dev -> Nat]: the latest driver process of the device
  proc,       \* [Dev -> Stages]: where that process is
  left,       \* [Dev -> Nat]: ticks to the deadline of its wait
  inCall,     \* the driver whose system call runs, or "none"
  checkAge    \* ticks since the last owner check, up to CheckTicks

hostVars == <<owner, handedOff, respawns, pid, proc, left, inCall, checkAge>>

(* none: dead or never started.  born: started, not yet owner.  snap: the     *)
(* video driver reads the screen.  loop: about to make its wait call.         *)
(* deciding: saw no work, not yet asleep.  blocked: TASK_BLOCKED_IPC.         *)
(* ready: woken.  returning: about to fetch its work.  work: at CPL 3 with it *)
Stages == {"none", "born", "snap", "loop", "deciding", "blocked", "ready",
           "returning", "work"}

HostTypeOK ==
  /\ owner \in [Dev -> Nat]
  /\ handedOff \in [Dev -> BOOLEAN]
  /\ respawns \in [Dev -> 0..RespawnLimit]
  /\ pid \in [Dev -> Nat]
  /\ proc \in [Dev -> Stages]
  /\ left \in [Dev -> Nat]
  /\ inCall \in Dev \cup {"none"}
  /\ checkAge \in 0..CheckTicks

HostInit ==
  /\ owner = [d \in Dev |-> 0]
  /\ handedOff = [d \in Dev |-> FALSE]
  /\ respawns = [d \in Dev |-> 0]
  /\ \E b \in Boot :
       /\ pid = [d \in Dev |-> IF d \in b THEN 1 ELSE 0]
       /\ proc = [d \in Dev |-> IF d \in b THEN "born" ELSE "none"]
  /\ left = [d \in Dev |-> 0]
  /\ inCall = "none"
  /\ checkAge = 0

Owned(d) == owner[d] > 0

(* device_owner_alive: the owner is still a running task.                     *)
OwnerAlive(d) == owner[d] = pid[d] /\ proc[d] # "none"

(* The driver has the device and is in its service loop.                      *)
Serving(d) == Owned(d) /\ OwnerAlive(d)

Older(age, limit) == IF age < limit THEN age + 1 ELSE limit

(* device_wake_owner: only a task already asleep is woken.                    *)
Woken(d, p) == IF p[d] = "blocked" THEN [p EXCEPT ![d] = "ready"] ELSE p

(* The wait call begins: device_block returns at once when there is work, or  *)
(* when the task may not block (a relayed call is under way: refused).        *)
EnterWait(d, ready) ==
  /\ inCall = "none"
  /\ proc[d] = "loop"
  /\ inCall' = d
  /\ \E refused \in BOOLEAN :
       IF ready \/ refused
       THEN /\ proc' = [proc EXCEPT ![d] = "returning"]
            /\ left' = left
       ELSE /\ proc' = [proc EXCEPT ![d] = "deciding"]
            /\ left' = [left EXCEPT ![d] = WaitTicks[d]]
  /\ UNCHANGED <<owner, handedOff, respawns, pid, checkAge>>

(* state = TASK_BLOCKED_IPC, and the CPU goes to another task.                *)
FallAsleep(d) ==
  /\ inCall = d
  /\ proc[d] = "deciding"
  /\ proc' = [proc EXCEPT ![d] = "blocked"]
  /\ inCall' = "none"
  /\ UNCHANGED <<owner, handedOff, respawns, pid, left, checkAge>>

(* ipc_wait_after_wake: return on work or past the deadline, else sleep again.*)
Resume(d, ready) ==
  /\ inCall = "none"
  /\ proc[d] = "ready"
  /\ inCall' = d
  /\ proc' = [proc EXCEPT ![d] = IF ready \/ left[d] = 0 THEN "returning"
                                                         ELSE "deciding"]
  /\ UNCHANGED <<owner, handedOff, respawns, pid, left, checkAge>>

(* The call returns to CPL 3 in stage s.                                      *)
LeaveCall(d, s) ==
  /\ inCall = d
  /\ proc[d] = "returning"
  /\ proc' = [proc EXCEPT ![d] = s]
  /\ left' = [left EXCEPT ![d] = 0]
  /\ inCall' = "none"
  /\ UNCHANGED <<owner, handedOff, respawns, pid, checkAge>>

(* A step of the driver's own code at CPL 3, from stage s to stage t.         *)
UserStep(d, s, t) ==
  /\ inCall = "none"
  /\ proc[d] = s
  /\ proc' = [proc EXCEPT ![d] = t]
  /\ UNCHANGED <<owner, handedOff, respawns, pid, left, inCall, checkAge>>

(* OS_DEV_OP_*_CLAIM: devsvc_set_owner.                                       *)
HostClaim(d, s) ==
  /\ inCall = "none"
  /\ proc[d] = "born"
  /\ owner' = [owner EXCEPT ![d] = pid[d]]
  /\ handedOff' = [handedOff EXCEPT ![d] = TRUE]
  /\ proc' = [proc EXCEPT ![d] = s]
  /\ UNCHANGED <<respawns, pid, left, inCall, checkAge>>

(* The driver is killed, faults or returns, at CPL 3 or asleep.               *)
HostDie(d) ==
  /\ proc[d] # "none"
  /\ inCall = "none"
  /\ proc' = [proc EXCEPT ![d] = "none"]
  /\ left' = [left EXCEPT ![d] = 0]
  /\ UNCHANGED <<owner, handedOff, respawns, pid, inCall, checkAge>>

(* device_supervise, for one device: a dead owner is forgotten, and a device  *)
(* that was handed off gets a new process while the budget lasts; a process   *)
(* that cannot be created uses the budget too.                                *)
HostSupervise(d) ==
  /\ inCall = "none"
  /\ ~Serving(d)
  /\ owner' = [owner EXCEPT ![d] = 0]
  /\ IF proc[d] = "none" /\ handedOff[d] /\ respawns[d] < RespawnLimit
     THEN /\ respawns' = [respawns EXCEPT ![d] = @ + 1]
          /\ \E created \in BOOLEAN :
               /\ pid' = IF created THEN [pid EXCEPT ![d] = @ + 1] ELSE pid
               /\ proc' = IF created THEN [proc EXCEPT ![d] = "born"] ELSE proc
     ELSE UNCHANGED <<respawns, pid, proc>>
  /\ UNCHANGED <<handedOff, left, inCall, checkAge>>

(* IRQ0: the deadlines (task_ipc_wait_tick), then the owner check every       *)
(* CheckTicks (device_watchdog_tick).                                         *)
CheckDue == checkAge + 1 >= CheckTicks

\* Mutant: the owner check leaves the serial line out.
M_FoundGone(d) == CheckDue /\ Owned(d) /\ ~OwnerAlive(d) /\ d # "serial"

FoundGone(d) == CheckDue /\ Owned(d) /\ ~OwnerAlive(d)

HostTick ==
  /\ left' = [d \in Dev |-> IF left[d] > 0 THEN left[d] - 1 ELSE 0]
  /\ proc' = [d \in Dev |-> IF proc[d] = "blocked" /\ left'[d] = 0
                            THEN "ready" ELSE proc[d]]
  /\ owner' = [d \in Dev |-> IF FoundGone(d) THEN 0 ELSE owner[d]]
  /\ checkAge' = IF CheckDue THEN 0 ELSE checkAge + 1
  /\ UNCHANGED <<handedOff, respawns, pid, inCall>>

===============================================================================
