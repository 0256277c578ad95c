------------------------------ MODULE Delivery ------------------------------
(***************************************************************************)
(* What the link between two peers promises for user data (p2p_rtx.h): a   *)
(* message is handed over at most once; the sender stops answering for it  *)
(* only when the peer has had it, handed over or refused as too old, or    *)
(* when it counts the message as given up.  A receiver made to forget its  *)
(* window may hand a message over again.                                   *)
(***************************************************************************)
EXTENDS Naturals, Sequences

CONSTANT Message

VARIABLES asked,    \* messages sent
          kept,     \* messages the sender still answers for
          dropped,  \* messages the sender counts as given up or evicted
          inbox,    \* messages handed over, in that order
          missed,   \* messages the receiver refused as older than its window
          forgot    \* the receiver has forgotten its window

dvars == <<asked, kept, dropped, inbox, missed, forgot>>

Handed == {inbox[k] : k \in DOMAIN inbox}

DInit ==
  /\ asked = {} /\ kept = {} /\ dropped = {}
  /\ inbox = <<>> /\ missed = {} /\ forgot = FALSE

\* A new message is kept, at the expense of others if need be.
Submit ==
  /\ \E m \in Message \ asked, old \in SUBSET kept :
       /\ asked' = asked \cup {m}
       /\ kept' = (kept \ old) \cup {m}
       /\ dropped' = dropped \cup old
  /\ UNCHANGED <<inbox, missed, forgot>>

Hand ==
  /\ \E m \in asked :
       /\ forgot \/ m \notin Handed \cup missed
       /\ inbox' = Append(inbox, m)
  /\ UNCHANGED <<asked, kept, dropped, missed, forgot>>

Miss ==
  /\ \E m \in asked \ Handed : missed' = missed \cup {m}
  /\ UNCHANGED <<asked, kept, dropped, inbox, forgot>>

\* The peer's acknowledgement releases only what it has had.
Confirm ==
  /\ \E S \in SUBSET (kept \cap (Handed \cup missed)) : kept' = kept \ S
  /\ UNCHANGED <<asked, dropped, inbox, missed, forgot>>

GiveUp ==
  /\ \E S \in SUBSET kept : kept' = kept \ S /\ dropped' = dropped \cup S
  /\ UNCHANGED <<asked, inbox, missed, forgot>>

Forget == forgot' = TRUE /\ UNCHANGED <<asked, kept, dropped, inbox, missed>>

DNext == Submit \/ Hand \/ Miss \/ Confirm \/ GiveUp \/ Forget

DSpec == DInit /\ [][DNext]_dvars
=============================================================================
