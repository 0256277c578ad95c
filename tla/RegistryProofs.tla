--------------------------- MODULE RegistryProofs ---------------------------
(***************************************************************************)
(* Proofs about Registry, for any set of tasks, names and rights and any   *)
(* capacity: capabilities follow the owner of their name, and nothing is   *)
(* left of a task that has exited.                                         *)
(***************************************************************************)
EXTENDS Registry, TLAPS

\* The types the argument needs.  A task that has exited is not found again.
RegTypes ==
  /\ alive \subseteq Pids /\ exited \subseteq Pids \ alive
  /\ owner \in [Names -> Pids \cup {None}]
  /\ caps \subseteq Caps

RegInv == RegTypes /\ CapsFollowOwner /\ ExitedHoldsNothing

\* What service_registry_backend_remove_name takes away.
LEMMA OfName ==
  ASSUME NEW n, NEW c \in caps \ Of(n)
  PROVE  c \in caps /\ c.name # n
BY DEF Of

\* Taking the name n from its owner together with its capabilities (a lookup
\* that finds the owner gone, SYS_SERVICE_UNREGISTER), or giving it to a live
\* task that holds no capability of it (SYS_SERVICE_REGISTER).
LEMMA NameMoves ==
  ASSUME RegInv, NEW n \in Names, NEW q \in alive \cup {None},
         owner' = [owner EXCEPT ![n] = q], caps' = caps \ Of(n),
         alive' = alive, exited' = exited
  PROVE  RegInv'
<1> USE DEF RegInv, RegTypes
<1>1. RegTypes'
  BY DEF Caps
<1>2. CapsFollowOwner'
  BY OfName DEF CapsFollowOwner, Caps
<1>3. ExitedHoldsNothing'
  <2> SUFFICES ASSUME NEW p \in exited
               PROVE  /\ p \notin {owner'[m] : m \in Names}
                      /\ \A c \in caps' : c.owner # p /\ c.grantee # p
    BY DEF ExitedHoldsNothing
  <2>1. p # q
    BY RegistryAssumption DEF None
  <2>2. QED
    BY <2>1, OfName DEF ExitedHoldsNothing
<1>4. QED
  BY <1>1, <1>2, <1>3

\* A name nobody holds has no capability.
LEMMA FreeHasNone ==
  ASSUME RegInv, NEW n \in Names, owner[n] = None
  PROVE  Of(n) = {}
BY RegistryAssumption DEF RegInv, RegTypes, CapsFollowOwner, Caps, Of

\* SYS_SERVICE_GRANT: the name, and perhaps one capability, go to a live task.
LEMMA HandOverStep ==
  ASSUME RegInv, NEW p \in Pids, NEW n \in Names, NEW q \in Pids, HandOver(p, n, q)
  PROVE  RegInv'
<1> DEFINE looked == n = Vfs /\ Virtual \in Names /\ Stale(Virtual)
           kept == caps \ (Of(n) \cup (IF looked THEN Of(Virtual) ELSE {}))
           own == [name |-> n, owner |-> q, grantee |-> q, rights |-> Rights]
<1>1. /\ q \in alive /\ alive' = alive /\ exited' = exited
      /\ owner' = [m \in Names |-> IF m = n THEN q
                                   ELSE IF looked /\ m = Virtual THEN None ELSE owner[m]]
      /\ caps' \subseteq kept \cup {own}
  BY DEF HandOver
<1> HIDE DEF looked
<1>2. \A c \in kept : c \in caps /\ c.name # n /\ (looked => c.name # Virtual)
  BY DEF Of
<1>3. own \in Caps /\ own.name = n /\ own.owner = q /\ own.grantee = q
  <2>1. Rights \in (SUBSET Rights) \ {{}}
    BY RegistryAssumption
  <2>2. QED
    BY <2>1 DEF Caps
<1> HIDE DEF kept, own
<1>4. RegTypes'
  BY <1>1, <1>2, <1>3 DEF RegInv, RegTypes
<1>5. CapsFollowOwner'
  BY <1>1, <1>2, <1>3 DEF RegInv, RegTypes, CapsFollowOwner, Caps
<1>6. ExitedHoldsNothing'
  <2> SUFFICES ASSUME NEW e \in exited
               PROVE  /\ \A m \in Names : owner'[m] # e
                      /\ \A c \in caps' : c.owner # e /\ c.grantee # e
    BY <1>1 DEF ExitedHoldsNothing
  <2>1. e # q /\ e # None
    BY <1>1, RegistryAssumption DEF RegInv, RegTypes
  <2>2. \A m \in Names : owner[m] # e
    BY DEF RegInv, ExitedHoldsNothing
  <2>3. QED
    BY <1>1, <1>2, <1>3, <2>1, <2>2 DEF RegInv, ExitedHoldsNothing
<1>7. QED
  BY <1>4, <1>5, <1>6 DEF RegInv

\* SYS_SERVICE_BACKEND_GRANT: the owner and the grantee are both alive.
LEMMA BackendGrantStep ==
  ASSUME RegInv, NEW p \in Pids, NEW n \in Names, NEW q \in Pids,
         NEW r \in (SUBSET Rights) \ {{}}, BackendGrant(p, n, q, r)
  PROVE  RegInv'
<1> DEFINE old == {c \in Of(n) : c.owner = p /\ c.grantee = q}
           new == [name |-> n, owner |-> p, grantee |-> q,
                   rights |-> r \cup UNION {c.rights : c \in old}]
<1>1. /\ p \in alive /\ q \in alive /\ owner[n] = p
      /\ alive' = alive /\ exited' = exited /\ owner' = owner
      /\ caps' \subseteq caps \cup {new}
  BY DEF BackendGrant
<1>2. \A c \in old : c.rights \subseteq Rights
  BY DEF RegInv, RegTypes, Caps, Of
<1>3. new \in Caps /\ new.name = n /\ new.owner = p /\ new.grantee = q
  <2> DEFINE given == r \cup UNION {c.rights : c \in old}
  <2>1. given \in (SUBSET Rights) \ {{}}
    BY <1>2
  <2> HIDE DEF given
  <2>2. [name |-> n, owner |-> p, grantee |-> q, rights |-> given] \in Caps
    BY <2>1 DEF Caps
  <2>3. QED
    BY <2>2 DEF given
<1> HIDE DEF new, old
<1>4. RegTypes'
  BY <1>1, <1>3 DEF RegInv, RegTypes
<1>5. CapsFollowOwner'
  BY <1>1, <1>3 DEF RegInv, CapsFollowOwner
<1>6. ExitedHoldsNothing'
  BY <1>1, <1>3 DEF RegInv, RegTypes, ExitedHoldsNothing
<1>7. QED
  BY <1>4, <1>5, <1>6 DEF RegInv

\* Capabilities withdrawn one at a time (Revoke, Release), or a task that goes
\* without a purge.
LEMMA FewerCaps ==
  ASSUME RegInv, caps' \subseteq caps, owner' = owner,
         alive' \subseteq alive, exited' = exited
  PROVE  RegInv'
BY DEF RegInv, RegTypes, CapsFollowOwner, ExitedHoldsNothing

\* service_notify_purge_pid and service_registry_backend_remove_pid; the task
\* leaves or, when SYS_KILL is refused, stays.
LEMMA PurgeStep ==
  ASSUME RegInv, NEW p \in alive, Purge(p),
         \/ alive' = alive \ {p} /\ exited' = exited \cup {p}
         \/ alive' = alive /\ exited' = exited
  PROVE  RegInv'
<1>1. /\ owner' = [n \in Names |-> IF owner[n] = p THEN None ELSE owner[n]]
      /\ \A c \in caps' : c \in caps /\ c.owner # p /\ c.grantee # p
  BY DEF Purge, Involves
<1>2. p # None
  BY RegistryAssumption DEF RegInv, RegTypes
<1>3. RegTypes'
  BY <1>1 DEF RegInv, RegTypes
<1>4. CapsFollowOwner'
  BY <1>1 DEF RegInv, RegTypes, CapsFollowOwner, Caps
<1>5. ExitedHoldsNothing'
  <2> SUFFICES ASSUME NEW e \in exited \cup {p}, e \in exited'
               PROVE  /\ \A n \in Names : owner'[n] # e
                      /\ \A c \in caps' : c.owner # e /\ c.grantee # e
    BY DEF ExitedHoldsNothing
  <2>1. e # None
    BY <1>2, RegistryAssumption DEF RegInv, RegTypes
  <2>2. e \in exited => \A n \in Names : owner[n] # e
    BY DEF RegInv, ExitedHoldsNothing
  <2>3. QED
    BY <1>1, <2>1, <2>2 DEF RegInv, ExitedHoldsNothing
<1>6. QED
  BY <1>3, <1>4, <1>5 DEF RegInv

\* service_registry_init leaves no name and no capability.
LEMMA RegInitInv == RegInit => RegInv
BY DEF RegInit, RegInv, RegTypes, CapsFollowOwner, ExitedHoldsNothing

\* Every system call and every end of a task keeps the invariant.
LEMMA RegNextInv == RegInv /\ [RegNext]_regVars => RegInv'
<1> SUFFICES ASSUME RegInv, [RegNext]_regVars
             PROVE  RegInv'
  OBVIOUS
<1>1. ASSUME NEW n \in Names, Lookup(n)
      PROVE  RegInv'
  BY <1>1, NameMoves DEF Lookup
<1>2. ASSUME NEW p \in Pids, NEW n \in Names, Register(p, n)
      PROVE  RegInv'
  <2>1. caps' = caps \ Of(n)
    BY <1>2, FreeHasNone DEF Register, Stale
  <2>2. QED
    BY <1>2, <2>1, NameMoves DEF Register
<1>3. ASSUME NEW p \in Pids, NEW n \in Names, Unregister(p, n)
      PROVE  RegInv'
  BY <1>3, NameMoves DEF Unregister
<1>4. ASSUME NEW p \in Pids, NEW n \in Names, Release(p, n)
      PROVE  RegInv'
  BY <1>4, FewerCaps DEF Release
<1>5. ASSUME NEW p \in Pids, NEW q \in Pids, NEW n \in Names, HandOver(p, n, q)
      PROVE  RegInv'
  BY <1>5, HandOverStep
<1>6. ASSUME NEW p \in Pids, NEW q \in Pids, NEW n \in Names, Revoke(p, n, q)
      PROVE  RegInv'
  BY <1>6, FewerCaps DEF Revoke
<1>7. ASSUME NEW p \in Pids, NEW q \in Grantees, NEW n \in Names,
             NEW r \in (SUBSET Rights) \ {{}}, BackendGrant(p, n, q, r)
      PROVE  RegInv'
  <2>1. q \in Pids
    BY RegistryAssumption
  <2>2. QED
    BY <1>7, <2>1, BackendGrantStep
<1>8. ASSUME NEW p \in Pids, Exit(p)
      PROVE  RegInv'
  BY <1>8, PurgeStep DEF Exit
<1>9. ASSUME NEW p \in Pids, KillRefused(p)
      PROVE  RegInv'
  BY <1>9, PurgeStep DEF KillRefused
<1>10. ASSUME NEW p \in Pids, GroupKill(p)
       PROVE  RegInv'
  BY <1>10, FewerCaps DEF GroupKill
<1>11. CASE UNCHANGED regVars
  BY <1>11, FewerCaps DEF regVars
<1>12. QED
  BY <1>1, <1>2, <1>3, <1>4, <1>5, <1>6, <1>7, <1>8, <1>9, <1>10, <1>11 DEF RegNext

\* A capability never outlives the hold of its giver on the name, for any
\* number of tasks, names and slots.
THEOREM CapabilitiesFollow == RegSpec => []CapsFollowOwner
<1>1. RegInv => CapsFollowOwner
  BY DEF RegInv
<1>2. QED
  BY <1>1, RegInitInv, RegNextInv, PTL DEF RegSpec

\* An exited task holds no name and no capability, given or received.
THEOREM ExitLeavesNothing == RegSpec => []ExitedHoldsNothing
<1>1. RegInv => ExitedHoldsNothing
  BY DEF RegInv
<1>2. QED
  BY <1>1, RegInitInv, RegNextInv, PTL DEF RegSpec
=============================================================================
