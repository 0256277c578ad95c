------------------------------- MODULE MCRaft -------------------------------
(***************************************************************************)
(* Raft cut down to what TLC can search: the first election in full, with  *)
(* rival candidates; once there is a log or a second election, one node    *)
(* campaigns at a time and one node has frames on the way.  The second     *)
(* index is for the leader of term 3, and a compaction for that of term 2. *)
(***************************************************************************)
EXTENDS Raft, TLC

Campaigning == {i \in Node : st[i].role \in {"precandidate", "candidate"}}

Senders == {i \in Node : \E j \in Node : net[i][j] # <<>>}

FirstElection ==
  \A i \in Node :
    /\ LastIndex(st[i]) = 0
    /\ st[i].term <= IF st[i].role = "precandidate" THEN 1 ELSE 2

Bound ==
  /\ ~revoted
  /\ FirstElection \/ (Cardinality(Campaigning) <= 1 /\ Cardinality(Senders) <= 1)
  /\ \A i \in Node : LastIndex(st[i]) < st[i].term
  /\ (\E i \in Node : st[i].snapIdx > 0) => \A i \in Node : st[i].term <= 2

\* next and match are only read by a leader, the count of votes by a candidate.
View ==
  <<[i \in Node |-> IF i \in Campaigning THEN st[i] ELSE [st[i] EXCEPT !.granted = 0]],
    [i \in Node |-> IF st[i].role = "leader" THEN peer[i]
                    ELSE [j \in Node |-> [peer[i][j] EXCEPT !.next = 0, !.match = 0]]],
    net, elected, chosen, revoted>>

Symmetry == Permutations(Node)
=============================================================================
