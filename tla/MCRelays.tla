------------------------------ MODULE MCRelays ------------------------------
(***************************************************************************)
(* The relays of generation jobs and of network calls, and the ownership   *)
(* of the network card, share no state: a behaviour here is one of one of  *)
(* the three, with the others at rest.                                     *)
(***************************************************************************)
EXTENDS AiRelay, NetRelay, NicOwner

VARIABLE part  \* "ai", "net" or "nic"

MCInit == Init /\ NetInit /\ NicInit /\ part \in {"ai", "net", "nic"}
MCNext ==
  /\ UNCHANGED part
  /\ \/ part = "ai" /\ Next /\ UNCHANGED <<netVars, nicVars>>
     \/ part = "net" /\ NetNext /\ UNCHANGED <<vars, nicVars>>
     \/ part = "nic" /\ NicNext /\ UNCHANGED <<vars, netVars>>
MCSpec ==
  /\ MCInit /\ [][MCNext]_<<vars, netVars, nicVars, part>>
  /\ part = "ai" => Fairness
  /\ part = "net" => NetFairness
=============================================================================
