------------------------------ MODULE Registry ------------------------------
(***************************************************************************)
(* The service registry of kernel/service_registry.c: which task owns      *)
(* which name, the backend capabilities an owner delegates, and what the   *)
(* end of a task takes away.  ServiceEvents adds the subscriptions and the *)
(* notifications.                                                          *)
(*                                                                         *)
(* A pid stands for the identity (sequence, generation, identity_key) of   *)
(* its task: pids are not drawn twice within one boot.  An entry whose     *)
(* owner is no longer queued stays until a lookup finds it.  The sources   *)
(* and the prefix of a capability are left out, like the names that are    *)
(* pinned to one binary.                                                   *)
(***************************************************************************)
EXTENDS Integers, FiniteSets

CONSTANTS
  Pids,             \* the user tasks of a boot
  Names,            \* service names
  Vfs, Virtual,     \* "vfs" and "vfs-virtual"
  Rights,           \* SERVICE_BACKEND_RIGHT_ALL
  Grantees,         \* the tasks capabilities are delegated to
  Capacity,         \* SERVICE_REGISTRY_CAPACITY
  BackendCapacity,  \* SERVICE_REGISTRY_BACKEND_CAPACITY
  GenWrap           \* 2^32, where backend_generation wraps

None == 0

ASSUME RegistryAssumption ==
  /\ None \notin Pids /\ Grantees \subseteq Pids
  /\ Vfs # Virtual /\ Rights # {}
  /\ Capacity \in Nat /\ BackendCapacity \in Nat
  /\ GenWrap \in Nat /\ GenWrap > 3

VARIABLES
  alive,   \* the tasks get_task_by_id finds
  exited,  \* history: the tasks that ended through SYS_EXIT, SYS_KILL or a fault
  owner,   \* service_entries: the pid of each name, or None
  gen,     \* backend_generation of each entry
  caps     \* service_backend_caps

regVars == <<alive, exited, owner, gen, caps>>

Caps == [name : Names, owner : Pids, grantee : Pids, rights : (SUBSET Rights) \ {{}}]

-----------------------------------------------------------------------------
RegInit ==
  /\ alive = Pids /\ exited = {}
  /\ owner = [n \in Names |-> None]
  /\ gen = [n \in Names |-> 1]
  /\ caps = {}

\* service_registry_lookup meets an entry whose owner has left.
Stale(n) == owner[n] # None /\ owner[n] \notin alive

Of(n) == {c \in caps : c.name = n}

\* service_registry_backend_generation_bump, k times; 0 is skipped.
Bumped(g, k) == ((g - 1 + k) % (GenWrap - 1)) + 1

\* The entry of n has changed; its generation moves only if it is published.
BumpOf(n) == IF owner[n] = None THEN gen ELSE [gen EXCEPT ![n] = Bumped(@, 1)]

\* Any system call that looks n up: a stale entry goes, with its capabilities.
Lookup(n) ==
  /\ Stale(n)
  /\ owner' = [owner EXCEPT ![n] = None]
  /\ gen' = [gen EXCEPT ![n] = 1]
  /\ caps' = caps \ Of(n)
  /\ UNCHANGED <<alive, exited>>

Published == {n \in Names : owner[n] # None}

\* SYS_SERVICE_REGISTER of a name that nobody alive holds.
Register(p, n) ==
  /\ p \in alive /\ owner[n] \notin alive
  /\ Cardinality(Published \ {n}) < Capacity
  /\ owner' = [owner EXCEPT ![n] = p]
  /\ gen' = [gen EXCEPT ![n] = 1]
  /\ caps' = IF Stale(n) THEN caps \ Of(n) ELSE caps
  /\ UNCHANGED <<alive, exited>>

\* SYS_SERVICE_UNREGISTER by the owner.
Unregister(p, n) ==
  /\ p \in alive /\ owner[n] = p
  /\ owner' = [owner EXCEPT ![n] = None]
  /\ gen' = [gen EXCEPT ![n] = 1]
  /\ caps' = caps \ Of(n)
  /\ UNCHANGED <<alive, exited>>

\* Mutant: the capabilities the old owner gave stay with the name.
M_HandOver(p, n, q) ==
  /\ p \in alive /\ owner[n] = p /\ q \in alive
  /\ owner' = [owner EXCEPT ![n] = q]
  /\ UNCHANGED <<alive, exited, gen, caps>>

\* SYS_SERVICE_GRANT: the name moves to q and its capabilities are withdrawn.
\* The new owner of vfs gets one for itself while vfs-virtual is served, if
\* there is room.
HandOver(p, n, q) ==
  /\ p \in alive /\ owner[n] = p /\ q \in alive
  /\ LET looked == n = Vfs /\ Virtual \in Names /\ Stale(Virtual)
         kept == caps \ (Of(n) \cup (IF looked THEN Of(Virtual) ELSE {}))
         serves == /\ n = Vfs /\ Virtual \in Names /\ owner[Virtual] \in alive
                   /\ Cardinality(kept) < BackendCapacity
         own == [name |-> n, owner |-> q, grantee |-> q, rights |-> Rights]
         bumps == (IF Of(n) # {} THEN 1 ELSE 0) + (IF serves THEN 1 ELSE 0)
     IN /\ owner' = [m \in Names |-> IF m = n THEN q
                                     ELSE IF looked /\ m = Virtual THEN None ELSE owner[m]]
        /\ gen' = [m \in Names |-> IF m = n THEN Bumped(gen[m], bumps)
                                   ELSE IF looked /\ m = Virtual THEN 1 ELSE gen[m]]
        /\ caps' = IF serves THEN kept \cup {own} ELSE kept
  /\ UNCHANGED <<alive, exited>>

\* SYS_SERVICE_BACKEND_GRANT*: a second grant to the same task adds its rights.
BackendGrant(p, n, q, r) ==
  /\ p \in alive /\ owner[n] = p /\ q \in alive
  /\ LET old == {c \in Of(n) : c.owner = p /\ c.grantee = q}
         new == [name |-> n, owner |-> p, grantee |-> q,
                 rights |-> r \cup UNION {c.rights : c \in old}]
     IN /\ old # {new}
        /\ old = {} => Cardinality(caps) < BackendCapacity
        /\ caps' = (caps \ old) \cup {new}
  /\ gen' = BumpOf(n)
  /\ UNCHANGED <<alive, exited, owner>>

\* SYS_SERVICE_BACKEND_REVOKE: the grantee must still be there.
Revoke(p, n, q) ==
  /\ p \in alive /\ owner[n] = p /\ q \in alive
  /\ \E c \in Of(n) : c.owner = p /\ c.grantee = q /\ caps' = caps \ {c}
  /\ gen' = BumpOf(n)
  /\ UNCHANGED <<alive, exited, owner>>

\* Mutant: the owner is not told of what its grantee gave back.
M_Release(q, n) ==
  /\ q \in alive
  /\ \E c \in Of(n) : c.grantee = q /\ caps' = caps \ {c}
  /\ UNCHANGED <<alive, exited, owner, gen>>

\* SYS_SERVICE_BACKEND_RELEASE by the grantee.
Release(q, n) ==
  /\ q \in alive
  /\ \E c \in Of(n) : c.grantee = q /\ caps' = caps \ {c}
  /\ gen' = BumpOf(n)
  /\ UNCHANGED <<alive, exited, owner>>

Owned(p) == {n \in Names : owner[n] = p}

\* Mutant: only what the task gave, not what it was given.
M_Involves(c, p) == c.owner = p

\* service_registry_backend_remove_pid: the capabilities p gave or was given.
Involves(c, p) == c.owner = p \/ c.grantee = p

\* service_notify_purge_pid and service_registry_backend_remove_pid.
Purge(p) ==
  /\ owner' = [n \in Names |-> IF owner[n] = p THEN None ELSE owner[n]]
  /\ caps' = {c \in caps : ~Involves(c, p)}
  /\ gen' = [n \in Names |->
               IF owner[n] \in {None, p} THEN 1
               ELSE Bumped(gen[n], Cardinality({c \in Of(n) : Involves(c, p)}))]

\* SYS_EXIT, a fault of the task, or SYS_KILL by its parent.
Exit(p) ==
  /\ p \in alive /\ Purge(p)
  /\ alive' = alive \ {p} /\ exited' = exited \cup {p}

\* SYS_KILL purges first; task_kill then refuses the caller.
KillRefused(p) ==
  /\ p \in alive /\ alive # {p} /\ Purge(p)
  /\ UNCHANGED <<alive, exited>>

\* task_kill_direct_children: no purge at all.
GroupKill(p) ==
  /\ p \in alive /\ alive # {p}
  /\ alive' = alive \ {p}
  /\ UNCHANGED <<exited, owner, gen, caps>>

RegNext ==
  \/ \E n \in Names : Lookup(n)
  \/ \E p \in Pids, n \in Names : Register(p, n) \/ Unregister(p, n) \/ Release(p, n)
  \/ \E p, q \in Pids, n \in Names : HandOver(p, n, q) \/ Revoke(p, n, q)
  \/ \E p \in Pids, q \in Grantees, n \in Names, r \in (SUBSET Rights) \ {{}} :
       BackendGrant(p, n, q, r)
  \/ \E p \in Pids : Exit(p) \/ KillRefused(p) \/ GroupKill(p)

RegSpec == RegInit /\ [][RegNext]_regVars

-----------------------------------------------------------------------------

\* A capability lasts only as long as the task that gave it holds the name:
\* it goes with a transfer, a withdrawal, the end of the owner and a lookup
\* that finds the owner gone.
CapsFollowOwner == \A c \in caps : owner[c.name] = c.owner

\* Nothing in the registry names a task that has exited or been killed: a
\* name, a capability it gave, or one it was given.
ExitedHoldsNothing ==
  \A p \in exited : /\ p \notin {owner[n] : n \in Names}
                    /\ \A c \in caps : c.owner # p /\ c.grantee # p

\* While an owner keeps its name, every change to the delegations of the name
\* moves its generation, whoever made it: an owner that observes the generation
\* it remembers sees the list it remembers.
GenerationTells ==
  [][\A n \in Names :
       owner[n] # None /\ owner'[n] = owner[n] /\ Of(n)' # Of(n) => gen'[n] # gen[n]]_regVars
=============================================================================
