--------------------------- MODULE NicOwnerProofs ---------------------------
(***************************************************************************)
(* That the network card has one driver, for any set of tasks.  NicDriven  *)
(* is inductive once the variables are known to hold tasks.                *)
(***************************************************************************)
EXTENDS NicOwner, TLAPS

NicTypeOK ==
  /\ livesOn \subseteq NicTasks
  /\ {netName, nic, running} \subseteq NicTasks \cup {Kernel}
  /\ ports \in BOOLEAN

NicInv == NicTypeOK /\ NicDriven

\* No step hands the card to two, or leaves it with a dead task.
LEMMA NicStep ==
  ASSUME NicInv, [NicNext]_nicVars
  PROVE  NicInv'
<1> USE NicOwnerAssumption DEF NicInv, NicTypeOK, NicDriven
<1>1. ASSUME NEW t \in livesOn \cup {Kernel}, Drive(t)
      PROVE  NicInv'
  BY <1>1 DEF Drive, Granted, PortsOpen
<1>2. ASSUME NEW t \in livesOn, TakeName(t)
      PROVE  NicInv'
  BY <1>2 DEF TakeName, Granted, PortsOpen
<1>3. ASSUME NEW t \in livesOn, GiveName(t)
      PROVE  NicInv'
  BY <1>3 DEF GiveName, Granted, PortsOpen
<1>4. ASSUME NEW t \in livesOn, NicClaim(t)
      PROVE  NicInv'
  BY <1>4 DEF NicClaim
<1>5. ASSUME NEW t \in livesOn, NicRelease(t)
      PROVE  NicInv'
  BY <1>5 DEF NicRelease
<1>6. ASSUME NEW t \in livesOn, Dies(t)
      PROVE  NicInv'
  BY <1>6 DEF Dies, NicKept
<1>7. CASE UNCHANGED nicVars
  BY <1>7 DEF nicVars
<1> QED
  BY <1>1, <1>2, <1>3, <1>4, <1>5, <1>6, <1>7 DEF NicNext

\* The ports of the card are open to its living owner only, whatever order
\* names are given back, taken over and purged in.
THEOREM CardHasOneDriver == NicSpec => []NicDriven
<1>1. NicInit => NicInv
  BY NicOwnerAssumption DEF NicInit, NicInv, NicTypeOK, NicDriven
<1>2. NicInv => NicDriven
  BY DEF NicInv
<1> QED
  BY <1>1, <1>2, NicStep, PTL DEF NicSpec
=============================================================================
