---------------------------- MODULE IpcChannels ----------------------------
(***************************************************************************)
(* What the mailboxes promise: from each sender to each receiver a bounded *)
(* channel that gives its messages back once each and in order.  A channel *)
(* only ever loses messages when its receiver has gone or has its waiting  *)
(* messages dropped.                                                       *)
(***************************************************************************)
EXTENDS Naturals, Sequences

CONSTANTS Senders, Receivers, Bodies, Bound

VARIABLES chan,   \* chan[s][r]: bodies on the way from s to r
          open    \* receivers that are there

cvars == <<chan, open>>

CInit == chan = [s \in Senders |-> [r \in Receivers |-> <<>>]] /\ open \in SUBSET Receivers

Grows(c, d) == \E k \in 0..Len(d) : c = SubSeq(d, 1, k)

\* Messages are added at the end of open channels, at most a few to one
\* receiver in one step.
Accept ==
  /\ \A s \in Senders, r \in Receivers :
       /\ Grows(chan[s][r], chan'[s][r]) /\ Len(chan'[s][r]) <= Bound
       /\ r \notin open => chan'[s][r] = chan[s][r]
  /\ UNCHANGED open

\* One receiver takes the oldest message of one sender.
Take ==
  /\ \E s \in Senders, r \in open :
       /\ chan[s][r] # <<>>
       /\ chan' = [chan EXCEPT ![s][r] = Tail(@)]
  /\ UNCHANGED open

\* A receiver goes, and what waits for it with it; other channels may take
\* the kernel's notices of that.
Close ==
  \E r \in open :
    /\ open' = open \ {r}
    /\ \A s \in Senders, q \in Receivers \ {r} : Grows(chan[s][q], chan'[s][q])
    /\ \A s \in Senders : chan'[s][r] = <<>>

Open == \E r \in Receivers \ open : open' = open \cup {r} /\ UNCHANGED chan

CNext == Accept \/ Take \/ Close \/ Open
CSpec == CInit /\ [][CNext]_cvars
=============================================================================
