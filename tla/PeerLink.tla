------------------------------ MODULE PeerLink ------------------------------
(***************************************************************************)
(* User data from one peer to another: p2p_flow.c counts the datagrams in  *)
(* flight and the acknowledgements, p2p_rtx.c keeps copies to send again   *)
(* and the receiver's window, p2p.c seals, receives and ticks.  Every      *)
(* sealed datagram has the next counter of its sender; a receiver takes it *)
(* only if the counter is above the last one taken, so that the network    *)
(* may lose, repeat and reorder datagrams as it likes.                     *)
(*                                                                         *)
(* A message is named by the counter of its first datagram.  A loss        *)
(* time-out may run out whenever a datagram is in flight.                  *)
(***************************************************************************)
EXTENDS Integers, Sequences, FiniteSets

CONSTANTS Slots,      \* P2P_RTX_SLOTS
          Tries,      \* P2P_RTX_TRIES
          Window,     \* P2P_RTX_WINDOW
          Inflight,   \* P2P_FLOW_INFLIGHT
          Batch,      \* P2P_FLOW_ACK_BATCH
          MaxSend,    \* no new datagram after this many
          MaxCtr,     \* no datagram at all after this many
          MaxAcks     \* DACK frames on the way

ASSUME PeerLinkAssumption ==
  /\ Slots \in Nat \ {0} /\ Tries \in Nat /\ Window \in Nat \ {0}
  /\ Inflight \in Nat \ {0} /\ Batch \in Nat \ {0} /\ MaxCtr \in Nat /\ MaxSend \in 0..MaxCtr /\ MaxAcks \in Nat \ {0}

Ctr == 1..MaxCtr

Copy == [orig : Ctr, ctr : Ctr, tries : 0..Tries]

\* kind "data" is a message or RTX frame, "control" any other sealed frame
Frame == [ctr : Ctr, kind : {"data", "control"}, orig : 0..MaxCtr]

VARIABLES tx,        \* p->tx_counter
          flow,      \* counters in flight (p->flow.pkt)
          copies,    \* p->rtx.s
          wire,      \* datagrams that may still be taken
          rx,        \* p->rx_counter at the receiver
          seenHi,    \* p->rtx.seen_hi
          seen,      \* p->rtx.seen_mask, as counters
          ackPend,   \* p->flow.ack_pend
          acks,      \* DACK frames on the way back
          asked,     \* every message sent
          dropped,   \* messages given up, evicted or reset (gave_up, evicted)
          inbox,     \* every message handed to on_sealed, in that order
          missed,    \* messages dropped as too old and never handed over
          stranded,  \* copies whose datagram is no longer in flight
          forgot     \* the receiver's flow was reset

sender == <<tx, flow, copies, asked, dropped, stranded>>
receiver == <<rx, seenHi, seen, ackPend, inbox, missed, forgot>>
vars == <<sender, receiver, wire, acks>>

TypeOK ==
  /\ tx \in 0..MaxCtr /\ flow \subseteq Ctr /\ copies \subseteq Copy
  /\ wire \subseteq Frame /\ rx \in 0..MaxCtr
  /\ seenHi \in 0..MaxCtr /\ seen \subseteq Ctr
  /\ ackPend \subseteq Ctr /\ acks \in Seq(SUBSET Ctr)
  /\ asked \subseteq Ctr /\ dropped \subseteq Ctr /\ inbox \in Seq(Ctr) /\ missed \subseteq Ctr
  /\ stranded \subseteq Ctr /\ forgot \in BOOLEAN

Init ==
  /\ tx = 0 /\ flow = {} /\ copies = {} /\ wire = {} /\ rx = 0
  /\ seenHi = 0 /\ seen = {} /\ ackPend = {} /\ acks = <<>>
  /\ asked = {} /\ dropped = {} /\ inbox = <<>> /\ missed = {} /\ stranded = {} /\ forgot = FALSE

Origs(S) == {c.orig : c \in S}

-----------------------------------------------------------------------------
\* p2p_flow_on_send: a full table drops its oldest datagram.
FlowWith(f, c) ==
  IF Cardinality(f) < Inflight THEN f \cup {c}
  ELSE {d \in f : \E e \in f : e < d} \cup {c}

\* p2p_rtx_keep: a full table drops its oldest copy, the one first sent first.
Evicted ==
  IF Cardinality(copies) < Slots THEN {}
  ELSE {d \in copies : \A e \in copies : d.orig <= e.orig}

\* p2p_send_text, p2p_put: seal_send of a message
Send ==
  /\ tx < MaxSend
  /\ LET c == tx + 1
     IN  /\ tx' = c
         /\ flow' = FlowWith(flow, c)
         /\ copies' = (copies \ Evicted) \cup {[orig |-> c, ctr |-> c, tries |-> 0]}
         /\ wire' = wire \cup {[ctr |-> c, kind |-> "data", orig |-> c]}
         /\ asked' = asked \cup {c}
         /\ dropped' = dropped \cup Origs(Evicted)
         /\ stranded' = stranded \ Origs(Evicted)
  /\ UNCHANGED <<receiver, acks>>

\* seal_send of a ping, an acknowledgement or a consensus frame
SendControl ==
  /\ tx < MaxSend
  /\ tx' = tx + 1
  /\ wire' = wire \cup {[ctr |-> tx + 1, kind |-> "control", orig |-> 0]}
  /\ UNCHANGED <<flow, copies, asked, dropped, stranded, receiver, acks>>

\* rtx_expire, for one datagram c that p2p_flow_expire_list found lost:
\* p2p_rtx_lost finds the copy to send again, ...
Due(c) == {d \in copies : d.ctr = c /\ d.tries < Tries}

\* ... or there is none, or it was sent Tries times and is given up.
GiveUp(c) ==
  LET over == {d \in copies : d.ctr = c}
  IN  /\ c \in flow /\ Due(c) = {}
      /\ flow' = flow \ {c}
      /\ copies' = copies \ over
      /\ dropped' = dropped \cup Origs(over)
      /\ stranded' = stranded \ Origs(over)
      /\ UNCHANGED <<tx, asked, receiver, wire, acks>>

\* Mutant: the copy keeps its old counter.
M_Resent(d) == [d EXCEPT !.tries = @ + 1]

\* Mutant: the try is not counted.
M_Uncounted(d) == [d EXCEPT !.ctr = tx + 1]

\* p2p_rtx_resent
Resent(d) == [d EXCEPT !.ctr = tx + 1, !.tries = @ + 1]

Resend(c) ==
  /\ c \in flow /\ tx < MaxCtr
  /\ \E d \in Due(c) :
       /\ copies' = (copies \ {d}) \cup {Resent(d)}
       /\ wire' = wire \cup {[ctr |-> tx + 1, kind |-> "data", orig |-> d.orig]}
  /\ tx' = tx + 1
  /\ flow' = FlowWith(flow \ {c}, tx + 1)
  /\ UNCHANGED <<asked, dropped, stranded, receiver, acks>>

\* seal_send finds no route (-3): the copy stays, its datagram is out of sight.
NoRoute(c) ==
  /\ c \in flow
  /\ \E d \in Due(c) : stranded' = stranded \cup {d.orig}
  /\ flow' = flow \ {c}
  /\ UNCHANGED <<tx, copies, asked, dropped, receiver, wire, acks>>

\* emit fails (-1) after the new counter is in flight: the copy keeps the old.
NoEmit(c) ==
  /\ c \in flow /\ tx < MaxCtr
  /\ \E d \in Due(c) : stranded' = stranded \cup {d.orig}
  /\ tx' = tx + 1
  /\ flow' = FlowWith(flow \ {c}, tx + 1)
  /\ UNCHANGED <<copies, asked, dropped, receiver, wire, acks>>

\* P2P_I_DACK: p2p_flow_apply_acks, then rtx_apply_acks.  An earlier DACK
\* that is still on the way has a lower counter and is lost.
ReceiveDack ==
  /\ \E k \in DOMAIN acks :
       /\ flow' = flow \ acks[k]
       /\ copies' = {d \in copies : d.ctr \notin acks[k]}
       /\ acks' = SubSeq(acks, k + 1, Len(acks))
  /\ stranded' = stranded \cap Origs(copies')
  /\ UNCHANGED <<tx, wire, asked, dropped, receiver>>

-----------------------------------------------------------------------------
\* p2p_rtx_accept: what becomes of a datagram that carries message m
Fresh(m) == m > seenHi

TooOld(m) == m <= seenHi /\ seenHi - m >= Window

\* Mutant: only the newest number is recognised again.
M_Known(m) == m \in seen /\ m = seenHi

Known(m) == m <= seenHi /\ m \in seen

Handed == {inbox[k] : k \in DOMAIN inbox}

Inside(hi, S) == {s \in S : hi - s < Window}

Accept(m) ==
  IF Fresh(m)
  THEN /\ seenHi' = m /\ seen' = Inside(m, seen \cup {m})
       /\ inbox' = Append(inbox, m) /\ UNCHANGED missed
  ELSE IF TooOld(m)
  THEN /\ missed' = missed \cup ({m} \ Handed)
       /\ UNCHANGED <<seenHi, seen, inbox>>
  ELSE IF Known(m) THEN UNCHANGED <<seenHi, seen, inbox, missed>>
  ELSE /\ seen' = seen \cup {m} /\ inbox' = Append(inbox, m)
       /\ UNCHANGED <<seenHi, missed>>

\* flush_dack: on a full way the oldest DACK is lost.
Flushed(S) == IF Len(acks) < MaxAcks THEN Append(acks, S) ELSE Append(Tail(acks), S)

\* on_datagram and on_sealed: a data frame is acknowledged by its counter
\* before its message is looked at.
Receive ==
  /\ \E f \in wire :
       /\ f.ctr > rx
       /\ rx' = f.ctr
       /\ wire' = {g \in wire : g.ctr > f.ctr}
       /\ IF f.kind = "control" THEN UNCHANGED <<seenHi, seen, inbox, missed, ackPend, acks>>
          ELSE /\ Accept(f.orig)
               /\ LET S == ackPend \cup {f.ctr}
                  IN  IF Cardinality(S) >= Batch
                      THEN ackPend' = {} /\ acks' = Flushed(S)
                      ELSE ackPend' = S /\ UNCHANGED acks
  /\ UNCHANGED <<sender, forgot>>

\* p2p_tick: flush_dack
FlushDack ==
  /\ ackPend # {}
  /\ acks' = Flushed(ackPend) /\ ackPend' = {}
  /\ UNCHANGED <<sender, rx, seenHi, seen, inbox, missed, forgot, wire>>

\* p2p-flow reset at the sender and at the receiver
ResetSender ==
  /\ copies # {}
  /\ flow' = {} /\ copies' = {} /\ stranded' = {}
  /\ dropped' = dropped \cup Origs(copies)
  /\ UNCHANGED <<tx, asked, receiver, wire, acks>>

ResetReceiver ==
  /\ ~forgot
  /\ seenHi' = 0 /\ seen' = {} /\ ackPend' = {} /\ forgot' = TRUE
  /\ UNCHANGED <<sender, rx, inbox, missed, wire, acks>>

Next ==
  \/ Send
  \/ SendControl
  \/ \E c \in Ctr : GiveUp(c) \/ Resend(c) \/ NoRoute(c) \/ NoEmit(c)
  \/ ReceiveDack
  \/ Receive
  \/ FlushDack
  \/ ResetSender
  \/ ResetReceiver

Spec == Init /\ [][Next]_vars

\* p2p_tick comes again, so that a datagram in flight is lost in the end.
Fairness == WF_vars(\E c \in Ctr : GiveUp(c) \/ Resend(c))

FairSpec == Spec /\ Fairness

-----------------------------------------------------------------------------
D == INSTANCE Delivery WITH Message <- Ctr, kept <- Origs(copies)

\* The link implements Delivery: a message is handed over at most once
\* whatever is lost, repeated, reordered and sent again, and an
\* acknowledgement only releases the copy of a message the peer has had.
DeliversOnce == D!DSpec

\* Each copy has its last datagram in flight, where the loss time-out finds
\* it, except the copies that could not leave when they were due.
Tracked == \A d \in copies : d.ctr \in flow \/ d.orig \in stranded

\* No copy stays for ever: it is acknowledged, given up or replaced, unless it
\* could not leave when it was due.
CopyEnds ==
  \A m \in 1..MaxSend : (m \in Origs(copies)) ~> (m \notin Origs(copies) \/ m \in stranded)
=============================================================================
