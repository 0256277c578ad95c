-------------------------------- MODULE Raft --------------------------------
(***************************************************************************)
(* The replicated log of userspace/p2p.c: pre-vote, election, leader lease,*)
(* append entries one at a time, commit, compaction and the snapshot sent  *)
(* in chunks.  Nodes talk over sealed datagrams: from one node to another  *)
(* they arrive in order and once, since the counter of an accepted frame   *)
(* must exceed the last one, but any of them may be lost.  Every node has  *)
(* discovered every other one, so that the quorum is a majority of Node.   *)
(*                                                                         *)
(* Time is left open: whenever the code asks, a lease that was noted may   *)
(* have run out, and so may the election timer.                            *)
(***************************************************************************)
EXTENDS Naturals, Sequences, FiniteSets

CONSTANTS Node,
          Nobody,      \* id 0
          LogWindow,   \* P2P_RAFT_LOG, entries kept after the snapshot
          Chunks,      \* frames a kv image takes
          Cap,         \* frames on the way from one node to another
          MaxTerm, MaxIndex

ASSUME RaftAssumption ==
  /\ Nobody \notin Node
  /\ LogWindow > 0 /\ Chunks > 0 /\ Cap > 0

VARIABLES st,       \* p2p_raft_state_t of each node
          peer,     \* peer[i][j]: what i as a leader remembers of j
          net,      \* net[i][j]: frames from i to j
          elected,  \* every <<term, node>> that won an election
          chosen,   \* every <<index, entry>> that a node applied
          revoted   \* a node gave its vote to two candidates in one term

vars == <<st, peer, net, elected, chosen, revoted>>

Peers(i) == Node \ {i}

\* raft_majority, over raft_members
Majority == Cardinality(Node) \div 2 + 1

\* p2p_raft_state_t at start.  An entry of log is [term, by]: it is told
\* apart by its term and the leader that made it; log holds those after
\* snapIdx.  lease: a lease was noted.  gotIdx, got: the snapshot being
\* received and its chunks so far.  ballot (history) is the node that got this
\* one's vote in its term.
Fresh == [role |-> "follower", term |-> 1, voted |-> Nobody, leader |-> Nobody,
          granted |-> 0, lease |-> FALSE, log |-> <<>>, commit |-> 0,
          snapIdx |-> 0, snapTerm |-> 0, gotIdx |-> 0, got |-> 0,
          ballot |-> Nobody]

\* raft_next, raft_match of a peer, the commit index last told to it, and the
\* snapshot being sent to it with the chunks it has answered
Unseen == [next |-> 0, match |-> 0, told |-> 0, gen |-> 0, off |-> 0]

Init ==
  /\ st = [i \in Node |-> Fresh]
  /\ peer = [i \in Node |-> [j \in Node |-> Unseen]]
  /\ net = [i \in Node |-> [j \in Node |-> <<>>]]
  /\ elected = {} /\ chosen = {} /\ revoted = FALSE

-----------------------------------------------------------------------------
\* The log: log holds the entries after snapIdx.

LastIndex(s) == s.snapIdx + Len(s.log)

EntryAt(s, x) == s.log[x - s.snapIdx]

TermAt(s, x) == IF x = s.snapIdx THEN s.snapTerm ELSE EntryAt(s, x).term

LastTerm(s) == TermAt(s, LastIndex(s))

PrevOk(s, x, t) == x \in s.snapIdx..LastIndex(s) /\ TermAt(s, x) = t

\* Mutant: the term of the last entry is not compared.
M_UpToDate(s, m) == ~(m.lastTerm = LastTerm(s) /\ m.last < LastIndex(s))

UpToDate(s, m) ==
  ~(m.lastTerm < LastTerm(s) \/ (m.lastTerm = LastTerm(s) /\ m.last < LastIndex(s)))

StepDown(s, t) ==
  [s EXCEPT !.term = t, !.role = "follower", !.voted = Nobody, !.leader = Nobody,
            !.ballot = IF t > s.term THEN Nobody ELSE @]

\* What raft_lease_valid may answer now
LeaseAnswers(s) == IF s.lease THEN BOOLEAN ELSE {FALSE}

\* A frame that finds no room is lost.
Post(n, i, j, frames) ==
  [n EXCEPT ![i][j] = IF Len(@) + Len(frames) <= Cap THEN @ \o frames ELSE @]

Broadcast(n, i, m) ==
  [n EXCEPT ![i] = [j \in Node |-> IF j # i /\ Len(@[j]) < Cap THEN Append(@[j], m) ELSE @[j]]]

-----------------------------------------------------------------------------
\* raft_send_one and raft_send_snapshot: what leader s sends to the peer it
\* remembers as p, and what it remembers then.

SnapshotDue(s, p) == s.snapIdx > 0 /\ p.match < s.snapIdx

ChunkDue(s, p) == IF p.gen = s.snapIdx THEN p.off ELSE 0

NextDue(s, p) == IF p.next <= s.snapIdx THEN s.snapIdx + 1 ELSE p.next

AppendOf(s, x) ==
  [type |-> "append", term |-> s.term, prev |-> x - 1, prevTerm |-> TermAt(s, x - 1),
   commit |-> s.commit, index |-> x, entry |-> EntryAt(s, x)]

Chunk(s, p) ==
  LET c == ChunkDue(s, p)
  IN  <<[type |-> "snapshot", term |-> s.term, index |-> s.snapIdx,
         snapTerm |-> s.snapTerm, off |-> c, last |-> c + 1 >= Chunks,
         items |-> IF c < Chunks THEN 1 ELSE 0]>>

Chunked(s, p) == [p EXCEPT !.gen = s.snapIdx, !.off = ChunkDue(s, p)]

Shipment(s, p) ==
  IF SnapshotDue(s, p) THEN Chunk(s, p)
  ELSE IF NextDue(s, p) > LastIndex(s) THEN <<>>
  ELSE <<AppendOf(s, NextDue(s, p))>>

Shipped(s, p) ==
  IF SnapshotDue(s, p) THEN Chunked(s, p)
  ELSE [p EXCEPT !.next = NextDue(s, p),
                 !.told = IF NextDue(s, p) > LastIndex(s) THEN @ ELSE s.commit]

\* The last entry again, to carry the commit index
Reminder(s, p) == Shipment(s, [p EXCEPT !.next = LastIndex(s)])

Reminded(s, p) == [Shipped(s, [p EXCEPT !.next = LastIndex(s)]) EXCEPT !.next = p.next]

-----------------------------------------------------------------------------
\* raft_maybe_commit counts the peers in up.

Counted(s, ps, up, x) == 1 + Cardinality({j \in up : ps[j].match >= x})

\* Mutant: one replica less is enough.
M_Committable(s, ps, up) ==
  {x \in (s.commit + 1)..LastIndex(s) :
     TermAt(s, x) = s.term /\ Counted(s, ps, up, x) + 1 >= Majority}

Committable(s, ps, up) ==
  {x \in (s.commit + 1)..LastIndex(s) :
     TermAt(s, x) = s.term /\ Counted(s, ps, up, x) >= Majority}

MaybeCommit(s, ps, up) ==
  LET c == Committable(s, ps, up)
  IN  IF s.role = "leader" /\ c # {}
      THEN [s EXCEPT !.commit = CHOOSE x \in c : \A y \in c : y <= x]
      ELSE s

\* raft_apply: the entries of s between the commit indexes of two states
Applied(before, after) ==
  {<<x, EntryAt(after, x)>> : x \in {y \in (before + 1)..after.commit : y > after.snapIdx}}

\* raft_push_commit, to the peers in up that have the whole log
PushTo(s, ps, up) == {j \in up : LastIndex(s) > 0 /\ ps[j].match >= LastIndex(s)}

PushFrames(n, i, s, ps, to) ==
  [n EXCEPT ![i] = [j \in Node |->
     IF j \in to /\ Len(@[j]) < Cap THEN @[j] \o Reminder(s, ps[j]) ELSE @[j]]]

PushViews(s, ps, to) == [j \in Node |-> IF j \in to THEN Reminded(s, ps[j]) ELSE ps[j]]

\* raft_replicate to the peers in to: not the ones that are down or that were
\* sent the same a moment ago
ShipFrames(n, i, s, ps, to) ==
  [n EXCEPT ![i] = [j \in Node |->
     IF j \in to /\ Len(@[j]) + Len(Shipment(s, ps[j])) <= Cap
     THEN @[j] \o Shipment(s, ps[j]) ELSE @[j]]]

ShipViews(s, ps, to) == [j \in Node |-> IF j \in to THEN Shipped(s, ps[j]) ELSE ps[j]]

-----------------------------------------------------------------------------
\* What a node does of its own accord.

Request(type, s, t) ==
  [type |-> type, term |-> t, last |-> LastIndex(s), lastTerm |-> LastTerm(s)]

\* p2p_raft_elect, typed or from p2p_tick when the election timer runs out
Elect(i) ==
  /\ st[i].term < MaxTerm
  /\ \E held \in LeaseAnswers(st[i]) :
       LET s == [st[i] EXCEPT !.lease = held]
       IN  /\ ~(held /\ s.leader # Nobody /\ s.role # "leader")
           /\ st' = [st EXCEPT ![i] = [s EXCEPT !.role = "precandidate", !.granted = 1]]
           /\ net' = Broadcast(net, i, Request("prevoteReq", s, s.term + 1))
  /\ UNCHANGED <<peer, elected, chosen, revoted>>

\* p2p_raft_append, with the peers in up
Put(i) ==
  /\ st[i].role = "leader"
  /\ Len(st[i].log) < LogWindow /\ LastIndex(st[i]) < MaxIndex
  /\ \E up \in SUBSET Peers(i) :
       LET s == [st[i] EXCEPT !.log = Append(@, [term |-> st[i].term, by |-> i])]
           ps == ShipViews(s, peer[i], up)
           t == MaybeCommit(s, ps, up)
           push == IF t.commit # s.commit THEN PushTo(t, ps, up) ELSE {}
       IN  /\ st' = [st EXCEPT ![i] = t]
           /\ peer' = [peer EXCEPT ![i] = PushViews(t, ps, push)]
           /\ net' = PushFrames(ShipFrames(net, i, s, peer[i], up), i, t, ps, push)
           /\ chosen' = chosen \cup Applied(s.commit, t)
  /\ UNCHANGED <<elected, revoted>>

\* p2p_tick of a leader: raft_replicate to the peers whose pacing is over
Replicate(i, j) ==
  /\ st[i].role = "leader" /\ j # i
  /\ Shipment(st[i], peer[i][j]) # <<>>
  /\ peer' = [peer EXCEPT ![i][j] = Shipped(st[i], @)]
  /\ net' = Post(net, i, j, Shipment(st[i], peer[i][j]))
  /\ UNCHANGED <<st, elected, chosen, revoted>>

\* p2p_tick of a leader, once per second
Heartbeat(i) ==
  /\ st[i].role = "leader"
  /\ st' = [st EXCEPT ![i].lease = TRUE]
  /\ net' = Broadcast(net, i, [type |-> "heartbeat", term |-> st[i].term])
  /\ UNCHANGED <<peer, elected, chosen, revoted>>

\* p2p_raft_compact
Compact(i) ==
  /\ st[i].commit > st[i].snapIdx
  /\ LET s == st[i]
     IN  st' = [st EXCEPT ![i] =
                  [s EXCEPT !.log = SubSeq(s.log, s.commit - s.snapIdx + 1, Len(s.log)),
                            !.snapIdx = s.commit, !.snapTerm = TermAt(s, s.commit)]]
  /\ UNCHANGED <<peer, net, elected, chosen, revoted>>

-----------------------------------------------------------------------------
\* Handlers of on_sealed: node j receives m from i, and n is net without m.

Reply(n, j, i, m) == Post(n, j, i, <<m>>)

Answer(type, ok, t) == [type |-> type, ok |-> ok, term |-> t]

\* A pre-vote needs no lease, and no leader unless the timer has run out (late).
OnPrevoteReq(j, i, m, n) ==
  /\ \E held \in LeaseAnswers(st[j]), late \in BOOLEAN :
       LET s == [st[j] EXCEPT !.lease = held]
           grant == /\ UpToDate(s, m) /\ m.term > s.term /\ s.role # "leader" /\ ~held
                    /\ \/ s.leader = Nobody \/ late
                       \/ s.role \in {"precandidate", "candidate"}
       IN  /\ st' = [st EXCEPT ![j] = s]
           /\ net' = Reply(n, j, i, Answer("prevoteResp", grant, s.term))
  /\ UNCHANGED <<peer, elected, chosen, revoted>>

\* raft_start_election
StartElection(s, j) ==
  [s EXCEPT !.role = "candidate", !.term = @ + 1, !.voted = j, !.granted = 1, !.ballot = j]

OnPrevoteResp(j, i, m, n) ==
  LET s == st[j]
      counts == s.role = "precandidate" /\ m.term = s.term /\ m.ok
      c == StartElection(s, j)
  IN  /\ IF m.term > s.term
         THEN st' = [st EXCEPT ![j] = StepDown(s, m.term)] /\ net' = n
         ELSE IF counts /\ s.granted + 1 >= Majority
         THEN st' = [st EXCEPT ![j] = c] /\ net' = Broadcast(n, j, Request("voteReq", c, c.term))
         ELSE st' = [st EXCEPT ![j].granted = IF counts THEN @ + 1 ELSE @] /\ net' = n
      /\ UNCHANGED <<peer, elected, chosen, revoted>>

OnVoteReq(j, i, m, n) ==
  /\ \E held \in LeaseAnswers(st[j]) :
       LET s == [st[j] EXCEPT !.lease = held]
           kept == held /\ s.leader \notin {Nobody, i}
           t == IF m.term > s.term /\ ~kept THEN StepDown(s, m.term) ELSE s
           grant == ~kept /\ UpToDate(t, m) /\ m.term = t.term /\ t.voted \in {Nobody, i}
       IN  /\ st' = [st EXCEPT ![j] = IF grant THEN [t EXCEPT !.voted = i, !.ballot = i] ELSE t]
           /\ net' = Reply(n, j, i, Answer("voteResp", grant, t.term))
           /\ revoted' = (revoted \/ (grant /\ t.ballot \notin {Nobody, i}))
  /\ UNCHANGED <<peer, elected, chosen>>

\* Mutant: refusals are counted too.
M_VoteCounts(s, m) == s.role = "candidate" /\ m.term = s.term

VoteCounts(s, m) == s.role = "candidate" /\ m.term = s.term /\ m.ok

OnVoteResp(j, i, m, n) ==
  LET s == st[j]
      counts == VoteCounts(s, m)
      \* raft_become_leader
      w == [s EXCEPT !.role = "leader", !.leader = j, !.lease = TRUE, !.granted = @ + 1]
      ps == [k \in Node |-> [peer[j][k] EXCEPT !.next = LastIndex(s) + 1, !.match = 0]]
  IN  /\ IF m.term > s.term
         THEN st' = [st EXCEPT ![j] = StepDown(s, m.term)] /\ UNCHANGED <<peer, elected>> /\ net' = n
         ELSE IF counts /\ s.granted + 1 >= Majority
         THEN /\ st' = [st EXCEPT ![j] = w]
              /\ peer' = [peer EXCEPT ![j] = ShipViews(w, ps, Peers(j))]
              /\ net' = ShipFrames(n, j, w, ps, Peers(j))
              /\ elected' = elected \cup {<<w.term, j>>}
         ELSE /\ st' = [st EXCEPT ![j].granted = IF counts THEN @ + 1 ELSE @]
              /\ net' = n /\ UNCHANGED <<peer, elected>>
      /\ UNCHANGED <<chosen, revoted>>

OnHeartbeat(j, i, m, n) ==
  LET s == st[j]
      t == IF m.term > s.term THEN StepDown(s, m.term) ELSE s
  IN  /\ st' = IF m.term < s.term THEN st
               ELSE [st EXCEPT ![j] = [t EXCEPT !.role = "follower", !.leader = i,
                                                !.voted = Nobody, !.lease = TRUE]]
      /\ net' = n
      /\ UNCHANGED <<peer, elected, chosen, revoted>>

\* The frame of a leader with term t, at node s whose lease answer is held:
\* refused for the current leader's lease, stale, or the node follows it.
Refused(s, i, t, held) == held /\ s.leader \notin {Nobody, i} /\ t > s.term

Follow(s, i, t) ==
  [(IF t > s.term THEN StepDown(s, t) ELSE s) EXCEPT !.role = "follower", !.leader = i,
                                                     !.lease = TRUE]

\* A conflicting entry goes with all that follow it.
Truncated(s, m) ==
  IF m.index <= LastIndex(s) /\ TermAt(s, m.index) # m.entry.term
  THEN [s EXCEPT !.log = SubSeq(@, 1, m.index - 1 - s.snapIdx),
                 !.commit = IF @ >= m.index THEN m.index - 1 ELSE @]
  ELSE s

Extended(s, m) ==
  IF m.index = LastIndex(s) + 1 THEN [s EXCEPT !.log = Append(@, m.entry)] ELSE s

\* commit = min(leaderCommit, index of the entry just matched)
CommitUpTo(m) == IF m.commit < m.index THEN m.commit ELSE m.index

\* Mutant: the commit index is overwritten.
M_Advanced(s, m) == [s EXCEPT !.commit = CommitUpTo(m)]

Advanced(s, m) == [s EXCEPT !.commit = IF CommitUpTo(m) > @ THEN CommitUpTo(m) ELSE @]

AppendAnswer(ok, t, x) == [type |-> "appendResp", ok |-> ok, term |-> t, match |-> x]

OnAppend(j, i, m, n) ==
  /\ \E held \in LeaseAnswers(st[j]) :
       LET s == [st[j] EXCEPT !.lease = held]
           f == Follow(s, i, m.term)
           cut == Truncated(f, m)
           a == Advanced(Extended(cut, m), m)
       IN  IF Refused(s, i, m.term, held) \/ m.term < s.term
           THEN /\ st' = [st EXCEPT ![j] = s]
                /\ net' = Reply(n, j, i, AppendAnswer(FALSE, s.term, 0))
                /\ UNCHANGED chosen
           ELSE IF ~PrevOk(f, m.prev, m.prevTerm) \/ m.index > f.snapIdx + LogWindow
           THEN /\ st' = [st EXCEPT ![j] = f]
                /\ net' = Reply(n, j, i, AppendAnswer(FALSE, f.term, 0))
                /\ UNCHANGED chosen
           ELSE /\ st' = [st EXCEPT ![j] = a]
                /\ net' = Reply(n, j, i, AppendAnswer(TRUE, a.term, m.index))
                /\ chosen' = chosen \cup Applied(cut.commit, a)
  /\ UNCHANGED <<peer, elected, revoted>>

\* A success moves match, may commit, and sends the next entry or the new
\* commit index; a failure goes one entry back.
OnAppendResp(j, i, m, n) ==
  /\ LET s == st[j]
         p == peer[j][i]
         match == IF m.match > p.match THEN m.match ELSE p.match
         ps == [peer[j] EXCEPT ![i] = [p EXCEPT !.match = match, !.next = match + 1]]
         back == [p EXCEPT !.next = @ - 1]
     IN  IF m.term > s.term
         THEN st' = [st EXCEPT ![j] = StepDown(s, m.term)] /\ net' = n /\ UNCHANGED <<peer, chosen>>
         ELSE IF s.role # "leader" \/ m.term # s.term
         THEN net' = n /\ UNCHANGED <<st, peer, chosen>>
         ELSE IF m.ok
         THEN \E up \in SUBSET Peers(j) :
                LET t == MaybeCommit(s, ps, up)
                    push == IF t.commit # s.commit THEN PushTo(t, ps, up) ELSE {}
                    qs == PushViews(t, ps, push)
                    n2 == PushFrames(n, j, t, ps, push)
                    q == qs[i]
                    remind == /\ LastIndex(t) > 0 /\ q.match >= LastIndex(t)
                              /\ t.commit > q.told
                IN  /\ st' = [st EXCEPT ![j] = t]
                    /\ chosen' = chosen \cup Applied(s.commit, t)
                    /\ IF i \notin up THEN net' = n2 /\ peer' = [peer EXCEPT ![j] = qs]
                       ELSE /\ net' = Post(n2, j, i, IF remind THEN Reminder(t, q) ELSE Shipment(t, q))
                            /\ peer' = [peer EXCEPT ![j] = [qs EXCEPT ![i] =
                                 IF remind THEN Reminded(t, q) ELSE Shipped(t, q)]]
         ELSE /\ UNCHANGED <<st, chosen>>
              /\ IF p.next > s.snapIdx + 1
                 THEN /\ net' = Post(n, j, i, Shipment(s, back))
                      /\ peer' = [peer EXCEPT ![j][i] = Shipped(s, back)]
                 ELSE IF SnapshotDue(s, p)
                 THEN /\ net' = Post(n, j, i, Shipment(s, p))
                      /\ peer' = [peer EXCEPT ![j][i] = Shipped(s, p)]
                 ELSE net' = n /\ UNCHANGED peer
  /\ UNCHANGED <<elected, revoted>>

\* raft_install_snapshot keeps what the log has after the snapshot.
Install(s, m) ==
  [s EXCEPT !.log = IF LastIndex(s) > m.index
                    THEN SubSeq(@, m.index - s.snapIdx + 1, Len(@)) ELSE <<>>,
            !.snapIdx = m.index, !.snapTerm = m.snapTerm,
            !.commit = IF @ < m.index THEN m.index ELSE @]

SnapshotAnswer(ok, t, x, c) ==
  [type |-> "snapshotResp", ok |-> ok, term |-> t, match |-> x, got |-> c]

OnSnapshot(j, i, m, n) ==
  /\ \E held \in LeaseAnswers(st[j]) :
       LET s == [st[j] EXCEPT !.lease = held]
           f == Follow(s, i, m.term)
           g == IF m.off = 0 \/ f.gotIdx # m.index
                THEN [f EXCEPT !.got = 0, !.gotIdx = m.index] ELSE f
           h == [g EXCEPT !.got = @ + m.items]
       IN  IF Refused(s, i, m.term, held) \/ m.term < s.term
           THEN /\ st' = [st EXCEPT ![j] = s]
                /\ net' = Reply(n, j, i, SnapshotAnswer(FALSE, s.term, 0, 0))
           ELSE IF m.index <= f.snapIdx
           THEN /\ st' = [st EXCEPT ![j] = f]
                /\ net' = Reply(n, j, i, SnapshotAnswer(TRUE, f.term, m.index, m.off + m.items))
           ELSE IF m.off # g.got
           THEN /\ st' = [st EXCEPT ![j] = g]
                /\ net' = Reply(n, j, i, SnapshotAnswer(FALSE, g.term, 0, g.got))
           ELSE /\ st' = [st EXCEPT ![j] = IF m.last THEN Install(h, m) ELSE h]
                /\ net' = Reply(n, j, i, SnapshotAnswer(TRUE, h.term, IF m.last THEN m.index ELSE 0, h.got))
  /\ UNCHANGED <<peer, elected, chosen, revoted>>

OnSnapshotResp(j, i, m, n) ==
  /\ LET s == st[j]
         p == [peer[j][i] EXCEPT !.off = IF m.got > @ THEN m.got ELSE @]
         done == s.snapIdx > 0 /\ m.match >= s.snapIdx /\ p.off >= Chunks
         q == [p EXCEPT !.match = IF @ < s.snapIdx THEN s.snapIdx ELSE @,
                        !.next = s.snapIdx + 1]
     IN  IF m.term > s.term
         THEN st' = [st EXCEPT ![j] = StepDown(s, m.term)] /\ net' = n /\ UNCHANGED peer
         ELSE IF s.role # "leader" \/ m.term # s.term \/ ~m.ok
         THEN net' = n /\ UNCHANGED <<st, peer>>
         ELSE /\ net' = Post(n, j, i, IF done THEN Shipment(s, q) ELSE Chunk(s, p))
              /\ peer' = [peer EXCEPT ![j][i] = IF done THEN Shipped(s, q) ELSE Chunked(s, p)]
              /\ UNCHANGED st
  /\ UNCHANGED <<elected, chosen, revoted>>

\* on_datagram: a frame is accepted if its counter is above the last one, so
\* that the frames sent before it are lost.
Receive(i, j, kind) ==
  \E k \in DOMAIN net[i][j] :
    LET m == net[i][j][k]
        n == [net EXCEPT ![i][j] = SubSeq(@, k + 1, Len(@))]
    IN  /\ m.type = kind
        /\ \/ kind = "prevoteReq" /\ OnPrevoteReq(j, i, m, n)
           \/ kind = "prevoteResp" /\ OnPrevoteResp(j, i, m, n)
           \/ kind = "voteReq" /\ OnVoteReq(j, i, m, n)
           \/ kind = "voteResp" /\ OnVoteResp(j, i, m, n)
           \/ kind = "heartbeat" /\ OnHeartbeat(j, i, m, n)
           \/ kind = "append" /\ OnAppend(j, i, m, n)
           \/ kind = "appendResp" /\ OnAppendResp(j, i, m, n)
           \/ kind = "snapshot" /\ OnSnapshot(j, i, m, n)
           \/ kind = "snapshotResp" /\ OnSnapshotResp(j, i, m, n)

Kinds == {"prevoteReq", "prevoteResp", "voteReq", "voteResp", "heartbeat",
          "append", "appendResp", "snapshot", "snapshotResp"}

\* The oldest frame on a full way is lost.
Lose(i, j) ==
  /\ Len(net[i][j]) = Cap
  /\ net' = [net EXCEPT ![i][j] = Tail(@)]
  /\ UNCHANGED <<st, peer, elected, chosen, revoted>>

Next ==
  \E i \in Node :
    \/ Elect(i)
    \/ Put(i)
    \/ Heartbeat(i)
    \/ Compact(i)
    \/ \E j \in Node : Replicate(i, j)
    \/ \E j \in Node, kind \in Kinds : Receive(i, j, kind)
    \/ \E j \in Node : Lose(i, j)

Spec == Init /\ [][Next]_vars

\* A leader's tick comes back to every peer, no frame is on its way for ever,
\* and of a chunk or an answer sent again and again one gets through.
Fairness ==
  \A i \in Node : \A j \in Peers(i) :
    /\ SF_vars(Replicate(i, j))
    /\ WF_vars(\E kind \in Kinds : Receive(i, j, kind))
    /\ SF_vars(Receive(i, j, "snapshot"))
    /\ SF_vars(Receive(i, j, "snapshotResp"))

FairSpec == Spec /\ Fairness

-----------------------------------------------------------------------------
\* One node at most wins the election of a term, as long as no node gives two
\* votes in it (raft_become_leader, P2P_I_RAFT_VOTE_REQ).
OneLeaderPerTerm ==
  revoted \/ \A e, f \in elected : e[1] = f[1] => e = f

\* What raft_apply puts in the kv store under one index is the same entry on
\* every node that applies it.
AppliedAgree ==
  revoted \/ \A c, d \in chosen : c[1] = d[1] => c = d

\* A leader has every entry that any node applied before it was elected.
LeaderComplete ==
  \/ revoted
  \/ \A i \in Node, c \in chosen :
       /\ st[i].role = "leader" /\ \A e \in elected : e[1] <= st[i].term
       => c[1] <= st[i].snapIdx \/ (c[1] <= LastIndex(st[i]) /\ EntryAt(st[i], c[1]) = c[2])

\* Nothing that was applied is taken back: the commit index only grows.
CommitGrows == [][revoted' \/ \A i \in Node : st'[i].commit >= st[i].commit]_vars

\* "A follower whose match is behind snapshot_index receives InstallSnapshot,
\* then ordinary appends" (p2p.h): a leader does not stay at the snapshot.
CatchesUp ==
  \A i \in Node : \A j \in Peers(i) :
    (st[i].role = "leader" /\ SnapshotDue(st[i], peer[i][j]))
      ~> ~(st[i].role = "leader" /\ SnapshotDue(st[i], peer[i][j]))
=============================================================================
