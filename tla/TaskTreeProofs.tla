--------------------------- MODULE TaskTreeProofs ---------------------------
(***************************************************************************)
(* Proofs about TaskTree for every number of pids, drivers and capacities. *)
(***************************************************************************)
EXTENDS TaskTree, TLAPS

\* A recorded waiter has been handed out as a pid.
WaiterDrawn == \A t \in Tasks : waiter[t] < nextId

\* The idle task has no parent.
KernelIsRoot == parent[Kernel] = NoPid

Inv ==
  /\ TypeOK
  /\ KernelIsRoot
  /\ OneRunning
  /\ ParentQueued
  /\ NoFamilyCycle
  /\ WaiterDrawn
  /\ WaiterIsParentOrGone
  /\ WaiterHasChild

\* The initial state satisfies the invariant.
LEMMA InitInv == Init => Inv
<1> SUFFICES ASSUME Init PROVE Inv
  OBVIOUS
<1> USE TaskTreeAssumption DEF Kernel, NoPid, Pids, Tasks, Shell, BootTasks
<1>1. \A t \in Tasks : state[t] = IF t = 0 THEN "running" ELSE
                          IF t \in BootTasks \cup {Shell} THEN "ready" ELSE "free"
  BY DEF Init
<1>2. TypeOK
  <2>1. state \in [Tasks -> TaskStates]
    BY DEF Init, TaskStates
  <2>2. \A t \in Tasks : t >= nextId => state[t] = "free" /\ waiter[t] = 0
    BY <1>1 DEF Init
  <2> QED
    BY <2>1, <2>2 DEF Init, TypeOK
<1>3. OneRunning
  BY <1>1 DEF Init, OneRunning
<1>4. ParentQueued /\ NoFamilyCycle
  <2>1. \A t \in Tasks : parent[t] = -1
    BY DEF Init
  <2>2. ASSUME NEW S \in SUBSET Queued, S # {}
        PROVE  \E t \in S : parent[t] \notin S
    <3>1. PICK t \in S : t \in Tasks
      BY <2>2 DEF Queued
    <3>2. -1 \notin S
      <4>1. \A u \in S : u \in Tasks
        BY DEF Queued
      <4>2. -1 \notin Tasks
        OBVIOUS
      <4> QED
        BY <4>1, <4>2
    <3> QED
      BY <2>1, <3>1, <3>2
  <2>3. ParentQueued
    BY <2>1 DEF ParentQueued, Queued
  <2> QED
    BY <2>2, <2>3 DEF NoFamilyCycle
<1>5. KernelIsRoot /\ WaiterDrawn /\ WaiterIsParentOrGone /\ WaiterHasChild
  BY <1>1 DEF Init, KernelIsRoot, WaiterDrawn, WaiterIsParentOrGone, WaiterHasChild, Queued
<1> QED
  BY <1>2, <1>3, <1>4, <1>5 DEF Inv

\* schedule() leaves one RUNNING task and moves no task in or out of the
\* queue or of WAITING.
LEMMA DispatchStates ==
  ASSUME TypeOK, NEW s \in [Tasks -> TaskStates], NEW dead,
         s[Kernel] \in {"ready", "running"},
         \A t \in Tasks : s[t] = "running" => t = current,
         Dispatch(s, dead)
  PROVE  /\ state' \in [Tasks -> TaskStates]
         /\ current' \in Tasks
         /\ OneRunning'
         /\ \A t \in Tasks : state'[t] = "free" <=> s[t] = "free"
         /\ \A t \in Tasks : state'[t] = "waiting" <=> s[t] = "waiting"
<1> USE TaskTreeAssumption DEF Kernel, Pids, Tasks
<1> DEFINE r == Preempted(s)
<1>1. /\ r \in [Tasks -> TaskStates]
      /\ \A t \in Tasks : r[t] = IF t = current /\ s[t] = "running" THEN "ready" ELSE s[t]
  BY DEF Preempted, TypeOK, TaskStates
<1>2. PICK u \in Eligible(r) : current' = u /\ state' = [r EXCEPT ![u] = "running"]
  BY DEF Dispatch
<1>3. u \in Tasks /\ r[u] = "ready"
  BY <1>1, <1>2 DEF Eligible, ReadyUsers
<1>4. \A t \in Tasks : state'[t] = IF t = u THEN "running" ELSE r[t]
  BY <1>1, <1>2, <1>3
<1>5. OneRunning'
  BY <1>1, <1>2, <1>3, <1>4 DEF OneRunning
<1>6. /\ \A t \in Tasks : state'[t] = "free" <=> s[t] = "free"
      /\ \A t \in Tasks : state'[t] = "waiting" <=> s[t] = "waiting"
  BY <1>1, <1>3, <1>4
<1>7. state' \in [Tasks -> TaskStates]
  BY <1>1, <1>2 DEF TaskStates
<1> QED
  BY <1>2, <1>3, <1>5, <1>6, <1>7
-----------------------------------------------------------------------------
(* What a departure does to the family and to the waits *)

\* Moving the children of departing tasks up one level keeps every parent in
\* the queue and makes no cycle.
LEMMA DepartureFamily ==
  ASSUME TypeOK, ParentQueued, NoFamilyCycle,
         NEW D \in SUBSET Queued,
         \A d \in D : parent[d] \notin D,
         parent' = Reparented(D),
         \A t \in Tasks : state'[t] = "free" <=> (state[t] = "free" \/ t \in D)
  PROVE  ParentQueued' /\ NoFamilyCycle'
<1>1. Queued' = Queued \ D
  BY DEF Queued
<1>2. \A t \in Tasks \ D : parent'[t] = IF parent[t] \in D THEN parent[parent[t]] ELSE parent[t]
  BY DEF Reparented
<1>3. ParentQueued'
  BY <1>1, <1>2 DEF ParentQueued, Queued
<1>4. ASSUME NEW S \in SUBSET Queued', S # {}, \A t \in S : parent'[t] \in S
      PROVE  FALSE
  <2> DEFINE E == {d \in D : \E t \in S : parent[t] = d}
  <2>1. S \cup E \in SUBSET Queued /\ S \cup E # {}
    BY <1>1, <1>4
  <2>2. \A t \in S : parent[t] \in S \cup E
    BY <1>1, <1>2, <1>4 DEF Queued
  <2>3. \A d \in E : parent[d] \in S
    BY <1>1, <1>2, <1>4 DEF Queued
  <2> QED
    BY <2>1, <2>2, <2>3 DEF NoFamilyCycle
<1>5. NoFamilyCycle'
  BY <1>4 DEF NoFamilyCycle
<1> QED
  BY <1>3, <1>5

\* The waiters of departing tasks are woken, so no wait is left without a
\* child, and a waiter that departs is gone.
LEMMA DepartureWaits ==
  ASSUME TypeOK, WaiterHasChild, WaiterIsParentOrGone,
         NEW D \in SUBSET Queued,
         parent' = Reparented(D),
         waiter' = [t \in Tasks |-> IF t \in D THEN 0 ELSE waiter[t]],
         \A t \in Tasks : state'[t] = "free" <=> (state[t] = "free" \/ t \in D),
         \A t \in Tasks : state'[t] = "waiting" <=>
           (t \notin D /\ state[t] = "waiting" /\ \A d \in D : waiter[d] # t)
  PROVE  WaiterHasChild' /\ WaiterIsParentOrGone'
<1>1. Queued' = Queued \ D
  BY DEF Queued
<1>2. \A t \in Tasks \ D : parent[t] \notin D => parent'[t] = parent[t]
  BY DEF Reparented
<1>3. ASSUME NEW p \in Tasks, state'[p] = "waiting"
      PROVE  \E c \in Queued' : parent'[c] = p /\ waiter'[c] = p
  <2>1. p \notin D /\ state[p] = "waiting" /\ \A d \in D : waiter[d] # p
    BY <1>3
  <2>2. PICK c \in Queued : parent[c] = p /\ waiter[c] = p
    BY <2>1 DEF WaiterHasChild
  <2> QED
    BY <1>1, <1>2, <2>1, <2>2 DEF Queued
<1>4. ASSUME NEW c \in Queued', waiter'[c] # 0
      PROVE  waiter'[c] = parent'[c] \/ waiter'[c] \notin Queued'
  <2>1. c \in Queued /\ c \notin D /\ c \in Tasks /\ waiter'[c] = waiter[c]
    BY <1>1, <1>4 DEF Queued
  <2>2. CASE waiter[c] = parent[c]
    BY <1>1, <1>2, <2>1, <2>2
  <2>3. CASE waiter[c] \notin Queued
    BY <1>1, <2>1, <2>3
  <2> QED
    BY <1>4, <2>1, <2>2, <2>3 DEF WaiterIsParentOrGone
<1> QED
  BY <1>3, <1>4 DEF WaiterHasChild, WaiterIsParentOrGone

-----------------------------------------------------------------------------
(* What a creation and a delegation do to the family *)

\* A task that enters the queue under a queued parent, or as a root, closes
\* no cycle: nobody is its child yet.
LEMMA CreationFamily ==
  ASSUME TypeOK, ParentQueued, NoFamilyCycle,
         NEW n \in Pids, n \notin Queued,
         NEW p, p = NoPid \/ p \in Queued,
         parent' = [parent EXCEPT ![n] = p],
         \A t \in Tasks : state'[t] = "free" <=> (state[t] = "free" /\ t # n)
  PROVE  ParentQueued' /\ NoFamilyCycle'
<1> USE TaskTreeAssumption
<1>1. n \in Tasks /\ n # NoPid
  BY DEF Tasks, Pids, NoPid
<1>2. Queued' = Queued \cup {n}
  BY <1>1 DEF Queued
<1>3. \A t \in Tasks : parent'[t] = IF t = n THEN p ELSE parent[t]
  BY DEF TypeOK
<1>4. ParentQueued'
  BY <1>1, <1>2, <1>3 DEF ParentQueued, Queued
<1>5. ASSUME NEW S \in SUBSET Queued', S # {}, \A t \in S : parent'[t] \in S
      PROVE  FALSE
  <2>1. \A t \in S \ {n} : t \in Queued /\ t \in Tasks /\ parent[t] = parent'[t]
    BY <1>2, <1>3 DEF Queued
  <2>2. \A t \in S \ {n} : parent[t] # n
    BY <1>1, <2>1 DEF ParentQueued
  <2>3. S \ {n} # {}
    <3>1. CASE n \in S
      <4>1. p \in S
        BY <1>1, <1>3, <1>5, <3>1
      <4>2. p # n
        BY <1>1
      <4> QED
        BY <4>1, <4>2
    <3>2. CASE n \notin S
      BY <1>5, <3>2
    <3> QED
      BY <3>1, <3>2
  <2>4. \A t \in S \ {n} : parent[t] \in S \ {n}
    BY <1>5, <2>1, <2>2
  <2>5. S \ {n} \in SUBSET Queued
    BY <2>1
  <2> QED
    BY <2>3, <2>4, <2>5 DEF NoFamilyCycle
<1>6. NoFamilyCycle'
  BY <1>5 DEF NoFamilyCycle
<1> QED
  BY <1>4, <1>6

\* The walk up the supervisor's chain is what keeps a delegation from closing
\* a cycle.
LEMMA DelegationFamily ==
  ASSUME TypeOK, ParentQueued, NoFamilyCycle,
         NEW c \in Queued, NEW s \in Queued, ~OnChain(c, s),
         parent' = [parent EXCEPT ![c] = s], state' = state
  PROVE  ParentQueued' /\ NoFamilyCycle'
<1>1. Queued' = Queued /\ c \in Tasks /\ s \in Tasks
  BY DEF Queued
<1>2. \A t \in Tasks : parent'[t] = IF t = c THEN s ELSE parent[t]
  BY <1>1 DEF TypeOK
<1>3. ParentQueued'
  BY <1>1, <1>2 DEF ParentQueued, Queued
<1>4. PICK A \in SUBSET Queued :
        /\ s \in A /\ c \notin A
        /\ \A t \in A : parent[t] \in Queued => parent[t] \in A
  BY DEF OnChain
<1>5. ASSUME NEW S \in SUBSET Queued, S # {}, \A t \in S : parent'[t] \in S
      PROVE  FALSE
  <2>1. \A t \in S \ {c} : parent[t] \in S
    BY <1>2, <1>5 DEF Queued
  <2>2. CASE c \in S
    <3>1. s \in S
      BY <1>1, <1>2, <1>5, <2>2
    <3>2. \A t \in S \cap A : parent[t] \in S \cap A
      BY <1>4, <2>1
    <3> QED
      BY <1>4, <3>1, <3>2 DEF NoFamilyCycle
  <2>3. CASE c \notin S
    BY <1>5, <2>1, <2>3 DEF NoFamilyCycle
  <2> QED
    BY <2>2, <2>3
<1>6. NoFamilyCycle'
  BY <1>1, <1>5 DEF NoFamilyCycle
<1> QED
  BY <1>3, <1>6

\* Waits are not disturbed by a step that keeps the queue, the family, the
\* recorded waiters and the WAITING tasks.
LEMMA QuietStep ==
  ASSUME Inv, UNCHANGED <<parent, waiter, nextId>>,
         \A t \in Tasks : state'[t] = "free" <=> state[t] = "free",
         \A t \in Tasks : state'[t] = "waiting" <=> state[t] = "waiting"
  PROVE  /\ KernelIsRoot' /\ ParentQueued' /\ NoFamilyCycle' /\ WaiterDrawn'
         /\ WaiterIsParentOrGone' /\ WaiterHasChild'
<1>1. Queued' = Queued
  BY DEF Queued
<1> QED
  BY <1>1 DEF Inv, KernelIsRoot, ParentQueued, NoFamilyCycle, WaiterDrawn,
              WaiterIsParentOrGone, WaiterHasChild

\* A departure keeps the invariant, apart from the RUNNING task.
LEMMA DepartureStep ==
  ASSUME Inv, NEW D \in SUBSET (Queued \cap Pids),
         \A d \in D : parent[d] \notin D,
         parent' = Reparented(D),
         waiter' = [t \in Tasks |-> IF t \in D THEN 0 ELSE waiter[t]],
         nextId' = nextId,
         \A t \in Tasks : state'[t] = "free" <=> Departed(D)[t] = "free",
         \A t \in Tasks : state'[t] = "waiting" <=> Departed(D)[t] = "waiting"
  PROVE  /\ Departed(D) \in [Tasks -> TaskStates]
         /\ \A t \in Tasks : Departed(D)[t] = "running" => t = current
         /\ Departed(D)[Kernel] \in {"ready", "running"}
         /\ parent' \in [Tasks -> Pids \cup {NoPid}]
         /\ waiter' \in [Tasks -> Tasks]
         /\ \A t \in Tasks : t >= nextId => state'[t] = "free" /\ waiter'[t] = 0
         /\ KernelIsRoot' /\ ParentQueued' /\ NoFamilyCycle' /\ WaiterDrawn'
         /\ WaiterIsParentOrGone' /\ WaiterHasChild'
<1> USE TaskTreeAssumption
<1>1. \A t \in Tasks : Departed(D)[t] =
        IF t \in D THEN "free"
        ELSE IF state[t] = "waiting" /\ \E d \in D : waiter[d] = t THEN "ready"
        ELSE state[t]
  BY DEF Departed, Woken
<1>2. Departed(D) \in [Tasks -> TaskStates]
  BY <1>1 DEF Departed, TaskStates, Inv, TypeOK
<1>3. \A t \in Tasks : Departed(D)[t] = "free" <=> (state[t] = "free" \/ t \in D)
  BY <1>1
<1>4. \A t \in Tasks : Departed(D)[t] = "waiting" <=>
        (t \notin D /\ state[t] = "waiting" /\ \A d \in D : waiter[d] # t)
  BY <1>1
<1>5. Kernel \in Tasks /\ Kernel \notin D
  BY DEF Kernel, Tasks, Pids
<1>6. /\ \A t \in Tasks : Departed(D)[t] = "running" => t = current
      /\ Departed(D)[Kernel] \in {"ready", "running"}
  BY <1>1, <1>5 DEF Inv, OneRunning
<1>7. parent' \in [Tasks -> Pids \cup {NoPid}]
  BY DEF Reparented, Inv, TypeOK, Pids, Tasks
<1>8. /\ waiter' \in [Tasks -> Tasks] /\ WaiterDrawn'
      /\ \A t \in Tasks : t >= nextId => state'[t] = "free" /\ waiter'[t] = 0
  <2>1. \A t \in Tasks : waiter'[t] = IF t \in D THEN 0 ELSE waiter[t]
    OBVIOUS
  <2>2. 0 \in Tasks /\ nextId > 0
    BY DEF Tasks, Inv, TypeOK
  <2>3. waiter' \in [Tasks -> Tasks]
    BY <2>2 DEF Inv, TypeOK
  <2>4. WaiterDrawn'
    BY <2>1, <2>2 DEF Inv, WaiterDrawn
  <2> QED
    BY <1>3, <2>1, <2>3, <2>4 DEF Inv, TypeOK
<1>9. ParentQueued' /\ NoFamilyCycle'
  BY <1>3, DepartureFamily DEF Inv
<1>10. WaiterIsParentOrGone' /\ WaiterHasChild'
  BY <1>3, <1>4, DepartureWaits DEF Inv
<1>11. KernelIsRoot'
  <2>1. NoPid \notin D
    BY DEF NoPid, Pids
  <2> QED
    BY <1>5, <2>1 DEF Reparented, Inv, KernelIsRoot
<1> QED
  BY <1>2, <1>6, <1>7, <1>8, <1>9, <1>10, <1>11

\* A creation keeps the invariant, apart from the RUNNING task; w is the
\* waiter recorded on the new task, 0 for none.
LEMMA CreationStep ==
  ASSUME Inv, nextId \in Pids,
         NEW p, p = NoPid \/ (p \in Queued /\ p \in Pids),
         NEW w, w = 0 \/ (w = p /\ p # NoPid /\ w \notin {q \in Tasks : state[q] = "waiting"}),
         parent' = [parent EXCEPT ![nextId] = p],
         waiter' = [waiter EXCEPT ![nextId] = w],
         nextId' = nextId + 1,
         \A t \in Tasks : state'[t] = "free" <=> (state[t] = "free" /\ t # nextId),
         \A t \in Tasks : state'[t] = "waiting" <=>
           (state[t] = "waiting" \/ (w # 0 /\ t = w))
  PROVE  /\ parent' \in [Tasks -> Pids \cup {NoPid}]
         /\ waiter' \in [Tasks -> Tasks]
         /\ nextId' \in 1..(MaxPid + 1)
         /\ \A t \in Tasks : t >= nextId' => state'[t] = "free" /\ waiter'[t] = 0
         /\ KernelIsRoot' /\ ParentQueued' /\ NoFamilyCycle' /\ WaiterDrawn'
         /\ WaiterIsParentOrGone' /\ WaiterHasChild'
<1> USE TaskTreeAssumption
<1>1. nextId \in Tasks /\ nextId \notin Queued /\ nextId # 0 /\ nextId \in Int
  BY DEF Tasks, Pids, Queued, Inv, TypeOK
<1>2. w \in Tasks /\ (w # 0 => w < nextId)
  BY DEF Tasks, Pids, Queued, Inv, TypeOK, NoPid
<1>3. \A t \in Tasks : parent'[t] = IF t = nextId THEN p ELSE parent[t]
  BY DEF Inv, TypeOK
<1>4. \A t \in Tasks : waiter'[t] = IF t = nextId THEN w ELSE waiter[t]
  BY DEF Inv, TypeOK
<1>5. Queued' = Queued \cup {nextId}
  BY <1>1 DEF Queued
<1>6. /\ parent' \in [Tasks -> Pids \cup {NoPid}]
      /\ waiter' \in [Tasks -> Tasks]
      /\ nextId' \in 1..(MaxPid + 1)
  BY <1>1, <1>2 DEF Inv, TypeOK, Pids
<1>7. \A t \in Tasks : t >= nextId' => state'[t] = "free" /\ waiter'[t] = 0
  <2> SUFFICES ASSUME NEW t \in Tasks, t >= nextId'
               PROVE  state'[t] = "free" /\ waiter'[t] = 0
    OBVIOUS
  <2>1. t # nextId /\ t >= nextId
    BY <1>1 DEF Tasks
  <2> QED
    BY <1>4, <2>1 DEF Inv, TypeOK
<1>8. ParentQueued' /\ NoFamilyCycle'
  BY <1>1, CreationFamily DEF Inv
<1>12. KernelIsRoot'
  BY <1>1, <1>3 DEF Inv, KernelIsRoot, Kernel, Tasks
<1>9. WaiterDrawn'
  <2> SUFFICES ASSUME NEW t \in Tasks PROVE waiter'[t] < nextId'
    BY DEF WaiterDrawn
  <2>1. waiter[t] < nextId /\ waiter[t] \in Int
    BY DEF Inv, WaiterDrawn, TypeOK, Tasks
  <2>2. w \in Int
    BY <1>2 DEF Tasks
  <2> QED
    BY <1>1, <1>2, <1>4, <2>1, <2>2 DEF Inv, TypeOK
<1>10. WaiterIsParentOrGone'
  <2> SUFFICES ASSUME NEW c \in Queued', waiter'[c] # 0
               PROVE  waiter'[c] = parent'[c] \/ waiter'[c] \notin Queued'
    BY DEF WaiterIsParentOrGone
  <2>1. CASE c = nextId
    BY <1>1, <1>3, <1>4, <2>1
  <2>2. CASE c # nextId
    <3>1. c \in Queued /\ c \in Tasks /\ waiter'[c] = waiter[c] /\ parent'[c] = parent[c]
      BY <1>3, <1>4, <1>5, <2>2 DEF Queued
    <3>2. waiter[c] # nextId
      BY <1>1, <3>1 DEF Inv, WaiterDrawn
    <3> QED
      BY <1>5, <3>1, <3>2 DEF Inv, WaiterIsParentOrGone
  <2> QED
    BY <2>1, <2>2
<1>11. WaiterHasChild'
  <2> SUFFICES ASSUME NEW q \in Tasks, state'[q] = "waiting"
               PROVE  \E c \in Queued' : parent'[c] = q /\ waiter'[c] = q
    BY DEF WaiterHasChild
  <2>1. CASE state[q] = "waiting"
    <3>1. PICK c \in Queued : parent[c] = q /\ waiter[c] = q
      BY <2>1 DEF Inv, WaiterHasChild
    <3>2. c \in Tasks /\ c # nextId
      BY <1>1 DEF Queued
    <3> QED
      BY <1>3, <1>4, <1>5, <3>1, <3>2
  <2>2. CASE w # 0 /\ q = w
    BY <1>1, <1>3, <1>4, <1>5, <2>2
  <2> QED
    BY <2>1, <2>2
<1> QED
  BY <1>6, <1>7, <1>8, <1>9, <1>10, <1>11, <1>12

\* The caller records itself as the waiter of some of its children, M, and
\* may start to wait if there is one.
LEMMA WaitStep ==
  ASSUME Inv, current \in Queued, current \in Pids,
         NEW M \in SUBSET Children(current),
         waiter' = [t \in Tasks |-> IF t \in M THEN current ELSE waiter[t]],
         UNCHANGED <<parent, nextId>>,
         \A t \in Tasks : state'[t] = "free" <=> state[t] = "free",
         \A t \in Tasks : state'[t] = "waiting" =>
           (state[t] = "waiting" \/ (t = current /\ M # {}))
  PROVE  /\ waiter' \in [Tasks -> Tasks]
         /\ \A t \in Tasks : t >= nextId' => state'[t] = "free" /\ waiter'[t] = 0
         /\ KernelIsRoot' /\ ParentQueued' /\ NoFamilyCycle' /\ WaiterDrawn'
         /\ WaiterIsParentOrGone' /\ WaiterHasChild'
<1> USE TaskTreeAssumption
<1>1. Queued' = Queued
  BY DEF Queued
<1>2. \A t \in Tasks : waiter'[t] = IF t \in M THEN current ELSE waiter[t]
  OBVIOUS
<1>3. current \in Tasks /\ current < nextId
  BY DEF Queued, Inv, TypeOK, Tasks
<1>4. \A t \in M : t \in Queued /\ t \in Tasks /\ parent[t] = current /\ state[t] # "free"
  BY DEF Children, Queued
<1>5. waiter' \in [Tasks -> Tasks]
  BY <1>3 DEF Inv, TypeOK
<1>6. \A t \in Tasks : t >= nextId' => state'[t] = "free" /\ waiter'[t] = 0
  BY <1>2, <1>4 DEF Inv, TypeOK
<1>7. KernelIsRoot' /\ ParentQueued' /\ NoFamilyCycle'
  BY <1>1 DEF Inv, KernelIsRoot, ParentQueued, NoFamilyCycle
<1>8. WaiterDrawn'
  BY <1>2, <1>3 DEF Inv, WaiterDrawn
<1>9. WaiterIsParentOrGone'
  BY <1>1, <1>2, <1>4 DEF Inv, WaiterIsParentOrGone, Queued
<1>10. WaiterHasChild'
  <2> SUFFICES ASSUME NEW p \in Tasks, state'[p] = "waiting"
               PROVE  \E c \in Queued' : parent'[c] = p /\ waiter'[c] = p
    BY DEF WaiterHasChild
  <2>1. CASE state[p] = "waiting"
    <3>1. PICK c \in Queued : parent[c] = p /\ waiter[c] = p
      BY <2>1 DEF Inv, WaiterHasChild
    <3> QED
      BY <1>1, <1>2, <1>4, <3>1 DEF Queued
  <2>2. CASE p = current /\ M # {}
    BY <1>1, <1>2, <1>4, <2>2
  <2> QED
    BY <2>1, <2>2
<1> QED
  BY <1>5, <1>6, <1>7, <1>8, <1>9, <1>10

-----------------------------------------------------------------------------
(* Every step keeps the invariant *)

\* Every system call and interrupt keeps the invariant.
LEMMA NextInv == Inv /\ [Next]_vars => Inv'
<1> SUFFICES ASSUME Inv, [Next]_vars PROVE Inv'
  OBVIOUS
<1> USE TaskTreeAssumption
<1>1. /\ TypeOK /\ OneRunning /\ Kernel \in Tasks /\ Kernel \notin Pids
      /\ \A t \in Pids : t \in Tasks
      /\ NoPid \notin Tasks /\ 0 \in Tasks /\ 0 \notin Pids
  BY DEF Inv, Kernel, Tasks, Pids, NoPid
<1>2. ASSUME InSyscall PROVE current \in Queued /\ current \in Pids /\ state[current] = "running"
  BY <1>1, <1>2 DEF InSyscall, Queued, OneRunning
<1>3. CASE Spawn
  <2> DEFINE s == Created(state)
  <2>1. \A t \in Tasks : s[t] = IF t = nextId THEN "ready" ELSE state[t]
    BY <1>1 DEF Created, TypeOK
  <2>2. s \in [Tasks -> TaskStates]
    BY <1>1 DEF Created, TypeOK, TaskStates
  <2>3. s[Kernel] \in {"ready", "running"} /\ \A t \in Tasks : s[t] = "running" => t = current
    BY <1>1, <2>1 DEF OneRunning
  <2>4. /\ state' \in [Tasks -> TaskStates] /\ current' \in Tasks /\ OneRunning'
        /\ \A t \in Tasks : state'[t] = "free" <=> s[t] = "free"
        /\ \A t \in Tasks : state'[t] = "waiting" <=> s[t] = "waiting"
    BY <1>1, <1>3, <2>2, <2>3, DispatchStates DEF Spawn
  <2>5. waiter' = [waiter EXCEPT ![nextId] = 0]
    BY <1>1, <1>3 DEF Spawn, TypeOK
  <2>6. /\ \A t \in Tasks : state'[t] = "free" <=> (state[t] = "free" /\ t # nextId)
        /\ \A t \in Tasks : state'[t] = "waiting" <=> (state[t] = "waiting" \/ (0 # 0 /\ t = 0))
    BY <1>1, <2>1, <2>4 DEF TypeOK
  <2>7. /\ parent' \in [Tasks -> Pids \cup {NoPid}]
        /\ waiter' \in [Tasks -> Tasks]
        /\ nextId' \in 1..(MaxPid + 1)
        /\ \A t \in Tasks : t >= nextId' => state'[t] = "free" /\ waiter'[t] = 0
        /\ KernelIsRoot' /\ ParentQueued' /\ NoFamilyCycle' /\ WaiterDrawn'
        /\ WaiterIsParentOrGone' /\ WaiterHasChild'
    BY <1>2, <1>3, <2>5, <2>6, CreationStep DEF Spawn
  <2>8. boot' \subseteq Pids /\ reap' \in Tasks \cup {NoPid} /\ resched' \in BOOLEAN
    BY <1>1, <1>3 DEF Spawn, Dispatch, TypeOK
  <2> QED
    BY <2>4, <2>7, <2>8 DEF Inv, TypeOK
<1>4. CASE Exec
  <2> DEFINE s == [Created(state) EXCEPT ![current] = "waiting"]
  <2>1. \A t \in Tasks : s[t] = IF t = current THEN "waiting"
                                ELSE IF t = nextId THEN "ready" ELSE state[t]
    BY <1>1 DEF Created, TypeOK
  <2>2. s \in [Tasks -> TaskStates]
    BY <1>1 DEF Created, TypeOK, TaskStates
  <2>3. s[Kernel] \in {"ready", "running"} /\ \A t \in Tasks : s[t] = "running" => t = current
    BY <1>1, <1>2, <1>4, <2>1 DEF Exec, OneRunning
  <2>4. /\ state' \in [Tasks -> TaskStates] /\ current' \in Tasks /\ OneRunning'
        /\ \A t \in Tasks : state'[t] = "free" <=> s[t] = "free"
        /\ \A t \in Tasks : state'[t] = "waiting" <=> s[t] = "waiting"
    <3>1. Dispatch(s, NoPid)
      BY <1>4 DEF Exec
    <3> HIDE DEF s
    <3> QED
      BY <1>1, <2>2, <2>3, <3>1, DispatchStates
  <2>5. current # nextId
    BY <1>1, <1>2, <1>4 DEF Exec, TypeOK
  <2>6. /\ \A t \in Tasks : state'[t] = "free" <=> (state[t] = "free" /\ t # nextId)
        /\ \A t \in Tasks : state'[t] = "waiting" <=> (state[t] = "waiting" \/ (current # 0 /\ t = current))
    <3>1. state[current] = "running" /\ current # 0 /\ nextId \in Tasks
      BY <1>1, <1>2, <1>4 DEF Exec
    <3>2. state[nextId] = "free"
      BY <1>1, <3>1 DEF TypeOK
    <3> HIDE DEF s
    <3> QED
      BY <2>1, <2>4, <2>5, <3>1, <3>2
  <2>7. /\ parent' \in [Tasks -> Pids \cup {NoPid}]
        /\ waiter' \in [Tasks -> Tasks]
        /\ nextId' \in 1..(MaxPid + 1)
        /\ \A t \in Tasks : t >= nextId' => state'[t] = "free" /\ waiter'[t] = 0
        /\ KernelIsRoot' /\ ParentQueued' /\ NoFamilyCycle' /\ WaiterDrawn'
        /\ WaiterIsParentOrGone' /\ WaiterHasChild'
    <3>1. current # NoPid /\ current \notin {q \in Tasks : state[q] = "waiting"}
      BY <1>1, <1>2, <1>4 DEF Exec
    <3> QED
      BY <1>2, <1>4, <2>6, <3>1, CreationStep DEF Exec
  <2>8. boot' \subseteq Pids /\ reap' \in Tasks \cup {NoPid} /\ resched' \in BOOLEAN
    BY <1>1, <1>4 DEF Exec, Dispatch, TypeOK
  <2> QED
    BY <2>4, <2>7, <2>8 DEF Inv, TypeOK
<1>5. CASE Respawn
  <2>1. \A t \in Tasks : state'[t] = IF t = nextId THEN "ready" ELSE state[t]
    BY <1>1, <1>5 DEF Respawn, Created, TypeOK
  <2>2. state' \in [Tasks -> TaskStates]
    BY <1>1, <1>5 DEF Respawn, Created, TypeOK, TaskStates
  <2>3. state[nextId] = "free" /\ nextId \in Tasks /\ current # nextId
    BY <1>1, <1>2, <1>5 DEF Respawn, TypeOK
  <2>4. OneRunning'
    BY <1>1, <1>5, <2>1, <2>3 DEF Respawn, OneRunning
  <2>5. waiter' = [waiter EXCEPT ![nextId] = 0]
    BY <1>1, <1>5 DEF Respawn, TypeOK
  <2>6. /\ \A t \in Tasks : state'[t] = "free" <=> (state[t] = "free" /\ t # nextId)
        /\ \A t \in Tasks : state'[t] = "waiting" <=> (state[t] = "waiting" \/ (0 # 0 /\ t = 0))
    BY <2>1, <2>3
  <2>7. /\ parent' \in [Tasks -> Pids \cup {NoPid}]
        /\ waiter' \in [Tasks -> Tasks]
        /\ nextId' \in 1..(MaxPid + 1)
        /\ \A t \in Tasks : t >= nextId' => state'[t] = "free" /\ waiter'[t] = 0
        /\ KernelIsRoot' /\ ParentQueued' /\ NoFamilyCycle' /\ WaiterDrawn'
        /\ WaiterIsParentOrGone' /\ WaiterHasChild'
    BY <1>5, <2>5, <2>6, CreationStep DEF Respawn
  <2>8. /\ boot' \subseteq Pids /\ reap' \in Tasks \cup {NoPid} /\ resched' \in BOOLEAN
        /\ current' \in Tasks
    BY <1>1, <1>5 DEF Respawn, TypeOK
  <2> QED
    BY <2>2, <2>4, <2>7, <2>8 DEF Inv, TypeOK
<1>6. CASE Exit
  <2> DEFINE D == {current}
  <2>1. D \in SUBSET (Queued \cap Pids) /\ \A d \in D : parent[d] \notin D
    BY <1>2, <1>6 DEF Exit, Inv, NoFamilyCycle
  <2>2. /\ parent' = Reparented(D) /\ nextId' = nextId
        /\ waiter' = [t \in Tasks |-> IF t \in D THEN 0 ELSE waiter[t]]
    BY <1>1, <1>6 DEF Exit, TypeOK
  <2>3. /\ Departed(D) \in [Tasks -> TaskStates]
        /\ \A t \in Tasks : Departed(D)[t] = "running" => t = current
        /\ Departed(D)[Kernel] \in {"ready", "running"}
    <3>1. \A t \in Tasks : Departed(D)[t] =
            IF t \in D THEN "free"
            ELSE IF state[t] = "waiting" /\ \E d \in D : waiter[d] = t THEN "ready"
            ELSE state[t]
      BY DEF Departed, Woken
    <3>2. Departed(D) \in [Tasks -> TaskStates]
      BY <1>1, <3>1 DEF Departed, TaskStates, TypeOK
    <3> QED
      BY <1>1, <1>2, <1>6, <3>1, <3>2 DEF OneRunning, Exit
  <2>4. /\ state' \in [Tasks -> TaskStates] /\ current' \in Tasks /\ OneRunning'
        /\ \A t \in Tasks : state'[t] = "free" <=> Departed(D)[t] = "free"
        /\ \A t \in Tasks : state'[t] = "waiting" <=> Departed(D)[t] = "waiting"
    BY <1>1, <1>6, <2>3, DispatchStates DEF Exit
  <2>5. /\ parent' \in [Tasks -> Pids \cup {NoPid}]
        /\ waiter' \in [Tasks -> Tasks]
        /\ \A t \in Tasks : t >= nextId => state'[t] = "free" /\ waiter'[t] = 0
        /\ KernelIsRoot' /\ ParentQueued' /\ NoFamilyCycle' /\ WaiterDrawn'
        /\ WaiterIsParentOrGone' /\ WaiterHasChild'
    BY <2>1, <2>2, <2>4, DepartureStep
  <2>6. boot' \subseteq Pids /\ reap' \in Tasks \cup {NoPid} /\ resched' \in BOOLEAN
    BY <1>1, <1>6 DEF Exit, Dispatch, TypeOK
  <2> QED
    BY <1>1, <2>2, <2>4, <2>5, <2>6 DEF Inv, TypeOK
<1>7. ASSUME NEW D \in SUBSET (Queued \cap Pids), current \notin D,
             \A d \in D : parent[d] \notin D,
             state' = Departed(D), parent' = Reparented(D),
             waiter' = [t \in Tasks |-> IF t \in D THEN 0 ELSE waiter[t]],
             boot' \subseteq boot, UNCHANGED <<current, reap, nextId, resched>>
      PROVE  Inv'
  <2>1. /\ state' \in [Tasks -> TaskStates]
        /\ \A t \in Tasks : state'[t] = "running" => t = current
        /\ state'[Kernel] \in {"ready", "running"}
        /\ parent' \in [Tasks -> Pids \cup {NoPid}]
        /\ waiter' \in [Tasks -> Tasks]
        /\ \A t \in Tasks : t >= nextId => state'[t] = "free" /\ waiter'[t] = 0
        /\ KernelIsRoot' /\ ParentQueued' /\ NoFamilyCycle' /\ WaiterDrawn'
        /\ WaiterIsParentOrGone' /\ WaiterHasChild'
    BY <1>7, DepartureStep
  <2>2. state'[current] = "running"
    BY <1>1, <1>7 DEF Departed, Woken, OneRunning, TypeOK
  <2>3. OneRunning'
    BY <1>1, <1>7, <2>1, <2>2 DEF OneRunning, TypeOK
  <2> QED
    BY <1>1, <1>7, <2>1, <2>3 DEF Inv, TypeOK
<1>8. CASE \E t \in Pids : Kill(t)
  <2>1. PICK t \in Pids : Kill(t)
    BY <1>8
  <2>2. {t} \in SUBSET (Queued \cap Pids) /\ \A d \in {t} : parent[d] \notin {t}
    BY <1>1, <2>1 DEF Kill, Queued, Inv, NoFamilyCycle
  <2>3. waiter' = [u \in Tasks |-> IF u \in {t} THEN 0 ELSE waiter[u]]
    BY <1>1, <2>1 DEF Kill, TypeOK
  <2> QED
    BY <1>7, <2>1, <2>2, <2>3 DEF Kill
<1>9. CASE KillChildren
  <2> DEFINE D == FirstChildren(current)
  <2>1. \A d \in D : d \in Queued /\ d \in Tasks /\ parent[d] = current
    BY DEF FirstChildren, Children, Queued
  <2>2. current \notin D
    BY <1>2, <1>9, <2>1 DEF KillChildren, Inv, NoFamilyCycle
  <2>3. parent[Kernel] # current
    BY <1>1, <1>2, <1>9 DEF KillChildren, KernelIsRoot, Inv
  <2>4. D \in SUBSET (Queued \cap Pids)
    BY <2>1, <2>3 DEF Tasks, Pids, Kernel
  <2>5. \A d \in D : parent[d] \notin D
    BY <2>1, <2>2
  <2> QED
    BY <1>7, <1>9, <2>2, <2>4, <2>5 DEF KillChildren
<1>10. ASSUME NEW M \in SUBSET Children(current), InSyscall,
              waiter' = [t \in Tasks |-> IF t \in M THEN current ELSE waiter[t]],
              UNCHANGED <<parent, boot, nextId, resched>>,
              \/ UNCHANGED <<state, current, reap>>
              \/ M # {} /\ Dispatch([state EXCEPT ![current] = "waiting"], NoPid)
       PROVE  Inv'
  <2>1. /\ state' \in [Tasks -> TaskStates] /\ current' \in Tasks /\ OneRunning'
        /\ \A t \in Tasks : state'[t] = "free" <=> state[t] = "free"
        /\ \A t \in Tasks : state'[t] = "waiting" =>
             (state[t] = "waiting" \/ (t = current /\ M # {}))
        /\ reap' \in Tasks \cup {NoPid}
    <3>1. CASE UNCHANGED <<state, current, reap>>
      BY <1>1, <3>1 DEF TypeOK, OneRunning
    <3>2. CASE M # {} /\ Dispatch([state EXCEPT ![current] = "waiting"], NoPid)
      <4> DEFINE s == [state EXCEPT ![current] = "waiting"]
      <4>1. s \in [Tasks -> TaskStates]
        BY <1>1 DEF TypeOK, TaskStates
      <4>2. \A t \in Tasks : s[t] = IF t = current THEN "waiting" ELSE state[t]
        BY <1>1 DEF TypeOK
      <4>3. Dispatch(s, NoPid) /\ reap' = NoPid
        BY <3>2 DEF Dispatch
      <4> HIDE DEF s
      <4>4. s[Kernel] \in {"ready", "running"} /\ \A t \in Tasks : s[t] = "running" => t = current
        BY <1>1, <1>2, <1>10, <4>2 DEF OneRunning
      <4>5. /\ state' \in [Tasks -> TaskStates] /\ current' \in Tasks /\ OneRunning'
            /\ \A t \in Tasks : state'[t] = "free" <=> s[t] = "free"
            /\ \A t \in Tasks : state'[t] = "waiting" <=> s[t] = "waiting"
        BY <1>1, <4>1, <4>3, <4>4, DispatchStates
      <4> QED
        BY <1>2, <1>10, <3>2, <4>2, <4>3, <4>5
    <3> QED
      BY <1>10, <3>1, <3>2
  <2>2. /\ waiter' \in [Tasks -> Tasks]
        /\ \A t \in Tasks : t >= nextId' => state'[t] = "free" /\ waiter'[t] = 0
        /\ KernelIsRoot' /\ ParentQueued' /\ NoFamilyCycle' /\ WaiterDrawn'
        /\ WaiterIsParentOrGone' /\ WaiterHasChild'
    BY <1>2, <1>10, <2>1, WaitStep
  <2> QED
    BY <1>1, <1>10, <2>1, <2>2 DEF Inv, TypeOK
<1>11. CASE \E c \in Pids : Wait(c)
  <2>1. PICK c \in Pids : Wait(c)
    BY <1>11
  <2>2. waiter' = [t \in Tasks |-> IF t \in {c} THEN current ELSE waiter[t]]
    BY <1>1, <2>1 DEF Wait, TypeOK
  <2>3. {c} \in SUBSET Children(current) /\ {c} # {}
    BY <2>1 DEF Wait
  <2> QED
    BY <1>10, <2>1, <2>2, <2>3 DEF Wait
<1>12. CASE WaitAny
  BY <1>10, <1>12 DEF WaitAny
<1>13. CASE WaitAnyDenied
  <2> DEFINE M == {t \in Children(current) : \A d \in Deniers(current) : t < d}
  <2>1. waiter' = [t \in Tasks |-> IF t \in M THEN current ELSE waiter[t]]
    BY <1>13 DEF WaitAnyDenied
  <2>2. M \in SUBSET Children(current)
    OBVIOUS
  <2> HIDE DEF M
  <2> QED
    BY <1>10, <1>13, <2>1, <2>2 DEF WaitAnyDenied
<1>14. ASSUME NEW t \in Pids, NEW x \in {"ready", "suspended"},
              state[t] \in {"ready", "suspended", "blocked"},
              state' = [state EXCEPT ![t] = x],
              UNCHANGED <<parent, waiter, boot, current, reap, nextId, resched>>
       PROVE  Inv'
  <2>1. \A u \in Tasks : state'[u] = IF u = t THEN x ELSE state[u]
    BY <1>1, <1>14 DEF TypeOK
  <2>2. state' \in [Tasks -> TaskStates]
    BY <1>1, <1>14 DEF TypeOK, TaskStates
  <2>3. OneRunning'
    BY <1>1, <1>14, <2>1 DEF OneRunning
  <2>4. /\ \A u \in Tasks : state'[u] = "free" <=> state[u] = "free"
        /\ \A u \in Tasks : state'[u] = "waiting" <=> state[u] = "waiting"
    BY <1>14, <2>1
  <2>5. /\ KernelIsRoot' /\ ParentQueued' /\ NoFamilyCycle' /\ WaiterDrawn'
        /\ WaiterIsParentOrGone' /\ WaiterHasChild'
    BY <1>14, <2>4, QuietStep
  <2> QED
    BY <1>1, <1>14, <2>2, <2>3, <2>4, <2>5 DEF Inv, TypeOK
<1>15. CASE \E t \in Pids : Suspend(t) \/ Resume(t) \/ Unblock(t)
  BY <1>14, <1>15 DEF Suspend, Resume, Unblock
<1>16. CASE \E c, s \in Pids : Delegate(c, s)
  <2>1. PICK c \in Pids, s \in Pids : Delegate(c, s)
    BY <1>16
  <2>2. /\ c \in Queued /\ s \in Queued /\ c \in Tasks /\ ~OnChain(c, s) /\ waiter[c] = 0
        /\ parent' = [parent EXCEPT ![c] = s]
        /\ UNCHANGED <<state, waiter, boot, current, reap, nextId, resched>>
    BY <1>1, <2>1 DEF Delegate, DelegateAllowed, Children
  <2>3. ParentQueued' /\ NoFamilyCycle'
    BY <2>2, DelegationFamily DEF Inv
  <2>4. \A t \in Tasks : parent'[t] = IF t = c THEN s ELSE parent[t]
    BY <1>1, <2>2 DEF TypeOK
  <2>5. KernelIsRoot' /\ parent' \in [Tasks -> Pids \cup {NoPid}]
    BY <1>1, <2>2, <2>4 DEF Inv, KernelIsRoot, TypeOK
  <2>6. Queued' = Queued
    BY <2>2 DEF Queued
  <2>7. WaiterIsParentOrGone' /\ WaiterHasChild'
    <3>1. WaiterIsParentOrGone'
      BY <2>2, <2>4, <2>6 DEF Inv, WaiterIsParentOrGone, Queued
    <3>2. ASSUME NEW p \in Tasks, state'[p] = "waiting"
          PROVE  \E d \in Queued' : parent'[d] = p /\ waiter'[d] = p
      <4>1. state[p] = "waiting" /\ p # 0
        BY <1>1, <2>2, <3>2 DEF OneRunning, Kernel
      <4>2. PICK d \in Queued : parent[d] = p /\ waiter[d] = p
        BY <4>1 DEF Inv, WaiterHasChild
      <4> QED
        BY <2>2, <2>4, <2>6, <4>1, <4>2 DEF Queued
    <3> QED
      BY <3>1, <3>2 DEF WaiterHasChild
  <2>8. WaiterDrawn' /\ OneRunning'
    BY <2>2 DEF Inv, WaiterDrawn, OneRunning
  <2> QED
    BY <1>1, <2>2, <2>3, <2>5, <2>7, <2>8 DEF Inv, TypeOK
<1>17. ASSUME NEW x \in {"running", "blocked"}, current \in Pids \/ x = "running",
              Dispatch([state EXCEPT ![current] = x], NoPid),
              UNCHANGED <<parent, waiter, boot, nextId>>, resched' \in BOOLEAN
       PROVE  Inv'
  <2> DEFINE s == [state EXCEPT ![current] = x]
  <2>1. s \in [Tasks -> TaskStates]
    BY <1>1, <1>17 DEF TypeOK, TaskStates
  <2>2. \A t \in Tasks : s[t] = IF t = current THEN x ELSE state[t]
    BY <1>1 DEF TypeOK
  <2>3. Dispatch(s, NoPid) /\ reap' = NoPid
    BY <1>17 DEF Dispatch
  <2> HIDE DEF s
  <2>4. s[Kernel] \in {"ready", "running"} /\ \A t \in Tasks : s[t] = "running" => t = current
    BY <1>1, <1>17, <2>2 DEF OneRunning
  <2>5. /\ state' \in [Tasks -> TaskStates] /\ current' \in Tasks /\ OneRunning'
        /\ \A t \in Tasks : state'[t] = "free" <=> s[t] = "free"
        /\ \A t \in Tasks : state'[t] = "waiting" <=> s[t] = "waiting"
    BY <1>1, <2>1, <2>3, <2>4, DispatchStates
  <2>6. /\ \A t \in Tasks : s[t] = "free" <=> state[t] = "free"
        /\ \A t \in Tasks : s[t] = "waiting" <=> state[t] = "waiting"
    BY <1>1, <1>17, <2>2 DEF OneRunning, TypeOK
  <2>7. /\ KernelIsRoot' /\ ParentQueued' /\ NoFamilyCycle' /\ WaiterDrawn'
        /\ WaiterIsParentOrGone' /\ WaiterHasChild'
    BY <1>17, <2>5, <2>6, QuietStep
  <2> QED
    BY <1>1, <1>17, <2>3, <2>5, <2>6, <2>7 DEF Inv, TypeOK
<1>18. state = [state EXCEPT ![current] = "running"]
  BY <1>1 DEF TypeOK, OneRunning
<1>19. CASE Block \/ Yield \/ HandOff
  BY <1>1, <1>17, <1>18, <1>19 DEF Block, Yield, HandOff, InSyscall, TypeOK
<1>20. CASE UNCHANGED vars
  <2>1. /\ KernelIsRoot' /\ ParentQueued' /\ NoFamilyCycle' /\ WaiterDrawn'
        /\ WaiterIsParentOrGone' /\ WaiterHasChild'
    BY <1>20, QuietStep DEF vars
  <2> QED
    BY <1>1, <1>20, <2>1 DEF vars, Inv, TypeOK, OneRunning
<1>21. QED
  BY <1>3, <1>4, <1>5, <1>6, <1>8, <1>9, <1>11, <1>12, <1>13, <1>15, <1>16,
     <1>19, <1>20 DEF Next

\* The invariant holds in every reachable state.
THEOREM Invariance == Spec => []Inv
<1>1. Init => Inv
  BY InitInv
<1>2. Inv /\ [Next]_vars => Inv'
  BY NextInv
<1> QED
  BY <1>1, <1>2, PTL DEF Spec

\* Type correctness, for any number of pids, drivers and any capacities.
THEOREM TypeCorrect == Spec => []TypeOK
<1>1. Inv => TypeOK
  BY DEF Inv
<1> QED
  BY <1>1, Invariance, PTL

\* After any sequence of exits, kills, creations and delegations the tasks
\* form a forest: parents are queued tasks and no task is its own ancestor.
THEOREM FamilyIsForest == Spec => [](ParentQueued /\ NoFamilyCycle)
<1>1. Inv => ParentQueued /\ NoFamilyCycle
  BY DEF Inv
<1> QED
  BY <1>1, Invariance, PTL

\* schedule() leaves exactly one RUNNING task.
THEOREM OneTaskRuns == Spec => []OneRunning
<1>1. Inv => OneRunning
  BY DEF Inv
<1> QED
  BY <1>1, Invariance, PTL

\* A WAITING task always has a queued child that will wake it when it leaves.
THEOREM NoLostWait == Spec => [](WaiterHasChild /\ WaiterIsParentOrGone)
<1>1. Inv => WaiterHasChild /\ WaiterIsParentOrGone
  BY DEF Inv
<1> QED
  BY <1>1, Invariance, PTL

-----------------------------------------------------------------------------
\* Boot services are roots and are not suspended: only a parent suspends.
BootUnsuspended ==
  \A t \in boot : parent[t] = NoPid /\ state[t] # "suspended" /\ t < nextId

\* What OnlyParentResumes says of one step.
ParentResumes ==
  \A t \in Tasks : state[t] = "suspended" /\ state'[t] # "suspended" => current = parent[t]

\* schedule() neither suspends a task nor resumes one.
LEMMA DispatchSuspends ==
  ASSUME TypeOK, NEW s \in [Tasks -> TaskStates], NEW dead,
         s[Kernel] \in {"ready", "running"}, Dispatch(s, dead)
  PROVE  \A t \in Tasks : state'[t] = "suspended" <=> s[t] = "suspended"
<1> USE TaskTreeAssumption DEF Kernel, Pids, Tasks
<1> DEFINE r == Preempted(s)
<1>1. /\ r \in [Tasks -> TaskStates]
      /\ \A t \in Tasks : r[t] = IF t = current /\ s[t] = "running" THEN "ready" ELSE s[t]
  BY DEF Preempted, TypeOK, TaskStates
<1>2. PICK u \in Eligible(r) : state' = [r EXCEPT ![u] = "running"]
  BY DEF Dispatch
<1>3. u \in Tasks /\ r[u] # "suspended"
  BY <1>1, <1>2 DEF Eligible, ReadyUsers
<1> QED
  BY <1>1, <1>2, <1>3

\* A step that suspends nobody, resumes nobody and moves no boot service.
LEMMA UnsuspendedStays ==
  ASSUME TypeOK, BootUnsuspended, boot' \subseteq boot, nextId' \in {nextId, nextId + 1},
         \A t \in boot' : parent'[t] = NoPid \/ parent'[t] = parent[t],
         \A t \in Tasks : state'[t] = "suspended" => state[t] = "suspended"
  PROVE  BootUnsuspended'
BY TaskTreeAssumption DEF BootUnsuspended, TypeOK, Pids, Tasks

\* A departure suspends nobody and resumes nobody but the departed.
LEMMA DepartedSuspends ==
  ASSUME TypeOK, NEW D \in SUBSET Tasks
  PROVE  /\ Departed(D) \in [Tasks -> TaskStates]
         /\ \A t \in Tasks : Departed(D)[t] = "suspended" <=> state[t] = "suspended" /\ t \notin D
         /\ \A t \in Tasks : Departed(D)[t] \in {"ready", "running"} \/ t \in D
                               \/ state[t] \notin {"ready", "running"}
BY DEF Departed, Woken, TypeOK, TaskStates

\* The parents of boot services after a departure: still none.
LEMMA ReparentedBoot ==
  ASSUME TypeOK, BootUnsuspended, NEW D \in SUBSET Tasks
  PROVE  \A t \in boot : Reparented(D)[t] = NoPid
<1> SUFFICES ASSUME NEW t \in boot
             PROVE  Reparented(D)[t] = NoPid
  OBVIOUS
<1>1. t \in Tasks /\ parent[t] = NoPid /\ NoPid \notin D
  BY TaskTreeAssumption DEF BootUnsuspended, TypeOK, Pids, Tasks, NoPid
<1> QED
  BY <1>1 DEF Reparented

\* Every step: whoever was suspended stays so, is resumed or killed by its
\* parent, and boot services are out of reach.
LEMMA SuspensionStep ==
  ASSUME Inv, BootUnsuspended, [Next]_vars
  PROVE  BootUnsuspended' /\ ParentResumes
<1> USE TaskTreeAssumption
<1>1. /\ TypeOK /\ OneRunning /\ Kernel \in Tasks /\ Kernel \notin Pids
      /\ \A t \in Pids : t \in Tasks
  BY DEF Inv, Kernel, Pids, Tasks
<1>2. /\ state[Kernel] \in {"ready", "running"} /\ state \in [Tasks -> TaskStates]
      /\ current \in Tasks /\ state[current] = "running"
      /\ boot \subseteq Pids /\ nextId \in Int
  BY <1>1 DEF OneRunning, TypeOK
<1>3. \A t \in Tasks : t >= nextId => state[t] = "free"
  BY <1>1 DEF TypeOK
<1>4. ASSUME NEW s \in [Tasks -> TaskStates], NEW dead, Dispatch(s, dead),
             s[Kernel] \in {"ready", "running"},
             \A t \in Tasks : s[t] = "suspended" <=> state[t] = "suspended",
             boot' \subseteq boot, nextId' \in {nextId, nextId + 1},
             \A t \in boot' : parent'[t] = NoPid \/ parent'[t] = parent[t]
      PROVE  BootUnsuspended' /\ ParentResumes
  <2>1. \A t \in Tasks : state'[t] = "suspended" <=> state[t] = "suspended"
    BY <1>1, <1>4, DispatchSuspends
  <2> QED
    BY <1>1, <1>4, <2>1, UnsuspendedStays DEF ParentResumes
<1>5. ASSUME nextId \in Pids
      PROVE  /\ Created(state) \in [Tasks -> TaskStates]
             /\ Created(state)[Kernel] = state[Kernel]
             /\ \A t \in Tasks : Created(state)[t] = "suspended" <=> state[t] = "suspended"
             /\ \A t \in boot : t # nextId
  <2>1. state[nextId] = "free" /\ nextId # Kernel
    BY <1>1, <1>3, <1>5 DEF Pids, Tasks, Kernel
  <2>2. Created(state) \in [Tasks -> TaskStates]
    BY <1>2 DEF Created, TaskStates
  <2>3. \A t \in boot : t # nextId
    BY <1>2 DEF BootUnsuspended
  <2> QED
    BY <1>1, <1>2, <1>5, <2>1, <2>2, <2>3 DEF Created
<1>6. CASE Spawn
  BY <1>1, <1>2, <1>4, <1>5, <1>6 DEF Spawn, TypeOK
<1>7. CASE Exec
  <2> DEFINE s == [Created(state) EXCEPT ![current] = "waiting"]
  <2>1. nextId \in Pids /\ current # Kernel /\ Dispatch(s, NoPid)
    BY <1>1, <1>7 DEF Exec, InSyscall
  <2>2. /\ s \in [Tasks -> TaskStates] /\ s[Kernel] \in {"ready", "running"}
        /\ \A t \in Tasks : s[t] = "suspended" <=> state[t] = "suspended"
    BY <1>1, <1>2, <1>5, <2>1 DEF TaskStates
  <2> HIDE DEF s
  <2>3. /\ boot' \subseteq boot /\ nextId' \in {nextId, nextId + 1}
        /\ \A t \in boot' : parent'[t] = NoPid \/ parent'[t] = parent[t]
    BY <1>1, <1>2, <1>5, <1>7, <2>1 DEF Exec, TypeOK
  <2> QED
    BY <1>4, <2>1, <2>2, <2>3
<1>8. CASE Respawn
  <2>1. /\ state' = Created(state) /\ nextId \in Pids /\ nextId' = nextId + 1
        /\ parent' = [parent EXCEPT ![nextId] = NoPid] /\ boot' = boot \cup {nextId}
    BY <1>8 DEF Respawn
  <2>2. parent'[nextId] = NoPid /\ state'[nextId] # "suspended"
    BY <1>1, <1>2, <2>1 DEF TypeOK, Created
  <2>3. ParentResumes
    BY <1>5, <2>1 DEF ParentResumes
  <2>4. BootUnsuspended'
    BY <1>1, <1>2, <1>5, <2>1, <2>2 DEF BootUnsuspended, TypeOK
  <2> QED
    BY <2>3, <2>4
<1>9. CASE Exit
  <2> DEFINE s == Departed({current})
  <2>1. /\ current # Kernel /\ Dispatch(s, current) /\ boot' \subseteq boot
        /\ nextId' = nextId /\ parent' = Reparented({current})
    BY <1>1, <1>9 DEF Exit, InSyscall
  <2>2. /\ s \in [Tasks -> TaskStates] /\ s[Kernel] \in {"ready", "running"}
        /\ \A t \in Tasks : s[t] = "suspended" <=> state[t] = "suspended"
    BY <1>1, <1>2, <2>1, DepartedSuspends
  <2> HIDE DEF s
  <2>3. \A t \in boot' : parent'[t] = NoPid
    BY <1>1, <1>2, <2>1, ReparentedBoot
  <2> QED
    BY <1>4, <2>1, <2>2, <2>3
<1>10. ASSUME NEW D \in SUBSET Tasks, state' = Departed(D), parent' = Reparented(D),
              boot' \subseteq boot, nextId' = nextId,
              \A d \in D : state[d] = "suspended" => parent[d] = current
       PROVE  BootUnsuspended' /\ ParentResumes
  <2>1. \A t \in boot' : parent'[t] = NoPid
    BY <1>1, <1>10, ReparentedBoot
  <2>2. \A t \in Tasks : state'[t] = "suspended" <=> state[t] = "suspended" /\ t \notin D
    BY <1>1, <1>10, DepartedSuspends
  <2> QED
    BY <1>1, <1>10, <2>1, <2>2, UnsuspendedStays DEF ParentResumes
<1>11. CASE KillChildren
  <2>1. FirstChildren(current) \in SUBSET Tasks
        /\ \A d \in FirstChildren(current) : parent[d] = current
    BY DEF FirstChildren, Children, Queued
  <2> QED
    BY <1>10, <1>11, <2>1 DEF KillChildren
<1>12. ASSUME NEW t \in Pids, Kill(t)
       PROVE  BootUnsuspended' /\ ParentResumes
  <2>1. state[t] = "suspended" => parent[t] = current
    BY <1>12 DEF Kill, BootUnsuspended
  <2> QED
    BY <1>1, <1>10, <1>12, <2>1 DEF Kill
<1>13. ASSUME InSyscall, NEW x \in {"waiting", "blocked"},
              Dispatch([state EXCEPT ![current] = x], NoPid), UNCHANGED <<parent, boot, nextId>>
       PROVE  BootUnsuspended' /\ ParentResumes
  <2> DEFINE s == [state EXCEPT ![current] = x]
  <2>1. /\ s \in [Tasks -> TaskStates] /\ s[Kernel] \in {"ready", "running"}
        /\ \A t \in Tasks : s[t] = "suspended" <=> state[t] = "suspended"
    BY <1>1, <1>2, <1>13 DEF TaskStates, InSyscall
  <2>2. Dispatch(s, NoPid)
    BY <1>13
  <2> HIDE DEF s
  <2> QED
    BY <1>4, <1>13, <2>1, <2>2
<1>14. ASSUME NEW c \in Pids, Wait(c)
       PROVE  BootUnsuspended' /\ ParentResumes
  BY <1>13, <1>14 DEF Wait
<1>15. CASE WaitAny \/ Block
  BY <1>13, <1>15 DEF WaitAny, Block
<1>16. CASE Yield \/ HandOff
  BY <1>2, <1>4, <1>16 DEF Yield, HandOff
<1>17. CASE WaitAnyDenied \/ UNCHANGED vars
  BY <1>1, <1>17, UnsuspendedStays DEF WaitAnyDenied, vars, ParentResumes
<1>18. ASSUME NEW c \in Pids, Suspend(c)
       PROVE  BootUnsuspended' /\ ParentResumes
  <2>1. parent[c] = current /\ c \notin boot
    BY <1>2, <1>18 DEF Suspend, Children, BootUnsuspended, InSyscall, Pids, NoPid
  <2> QED
    BY <1>1, <1>2, <1>18, <2>1 DEF Suspend, BootUnsuspended, ParentResumes
<1>19. ASSUME NEW c \in Pids, Resume(c)
       PROVE  BootUnsuspended' /\ ParentResumes
  BY <1>1, <1>2, <1>19 DEF Resume, Children, BootUnsuspended, ParentResumes
<1>20. ASSUME NEW c \in Pids, Unblock(c)
       PROVE  BootUnsuspended' /\ ParentResumes
  BY <1>1, <1>2, <1>20 DEF Unblock, BootUnsuspended, ParentResumes
<1>21. ASSUME NEW c \in Pids, NEW s \in Pids, Delegate(c, s)
       PROVE  BootUnsuspended' /\ ParentResumes
  <2>1. c \notin boot
    BY <1>2, <1>21 DEF Delegate, Children, BootUnsuspended, InSyscall, Pids, NoPid
  <2> QED
    BY <1>1, <1>2, <1>21, <2>1 DEF Delegate, BootUnsuspended, ParentResumes, TypeOK
<1>22. QED
  BY <1>6, <1>7, <1>8, <1>9, <1>11, <1>12, <1>14, <1>15, <1>16, <1>17, <1>18, <1>19,
     <1>20, <1>21 DEF Next

\* Neither a wake-up left over from an earlier wait, nor the end of another
\* task, nor the scheduler takes a task out of SUSPENDED: its parent does.
THEOREM SuspendedUntilParent == Spec => OnlyParentResumes
<1>1. Init => BootUnsuspended
  BY TaskTreeAssumption
     DEF Init, BootUnsuspended, BootTasks, Tasks, Kernel, Shell, NoPid
<1>2. Inv /\ BootUnsuspended /\ [Next]_vars => BootUnsuspended' /\ [ParentResumes]_vars
  BY SuspensionStep
<1>3. Spec => [][ParentResumes]_vars
  BY <1>1, <1>2, Invariance, PTL DEF Spec
<1> QED
  BY <1>3 DEF OnlyParentResumes, ParentResumes
=============================================================================
