--------------------------- MODULE ServiceEvents ---------------------------
(***************************************************************************)
(* The notifications of the service registry: the subscriptions, the       *)
(* bounded history of events each watcher pulls from, and the event        *)
(* journal on the disk that carries the unread ones over a restart.  Every *)
(* action that changes an owner is the action of Registry together with    *)
(* service_notify_change; the copy put in the mailbox is in Ipc.  The      *)
(* delegations (BackendGrant, Revoke, Release) notify nobody and are       *)
(* checked in Registry.                                                    *)
(*                                                                         *)
(* A flush is atomic: while it waits for the driver only the driver runs   *)
(* (task_sched_only).  It may fail, and a failed one may still have        *)
(* reached the disk.                                                       *)
(***************************************************************************)
EXTENDS Registry, Sequences, FiniteSetsExt, SequencesExt

CONSTANTS
  Watchers,         \* the tasks that subscribe
  WatchCapacity,    \* SERVICE_REGISTRY_WATCH_CAPACITY
  HistoryCapacity,  \* SERVICE_REGISTRY_NOTIFY_HISTORY_CAPACITY
  Images,           \* kernel_boot_journal_deferred() of the images that may be booted
  MaxEvent,         \* bound on the events recorded
  MaxBoot           \* bound on the restarts

ASSUME EventAssumption ==
  /\ Watchers \subseteq Pids /\ WatchCapacity \in Nat
  /\ HistoryCapacity \in Nat \ {0}
  /\ Images \subseteq BOOLEAN /\ MaxEvent \in Nat /\ MaxBoot \in Nat

VARIABLES
  watches,  \* service_watches: <<name, pid>>
  hist,     \* service_notify_history
  seq,      \* service_notify_seq_counter
  disk,     \* the event journal on the disk
  pending,  \* bit 1 of boot_journal_pending
  boots,    \* restarts so far
  issued,   \* history: the events recorded since the first boot
  flushed,  \* history: the last flush reached the disk
  pulled    \* history: the events pulled whose acknowledgement reached the disk

evVars == <<watches, hist, seq, disk, pending, boots, issued, flushed, pulled>>
vars == <<regVars, evVars>>

Slots == 0..(HistoryCapacity - 1)

\* An event is its sequence number, the name, the watcher (None: restored and
\* not yet claimed) and acked; id is its number among all events.
Empty == [seq |-> 0, name |-> None, pid |-> None, acked |-> FALSE, id |-> 0]
Entry(e) == [seq |-> e.seq, name |-> e.name, id |-> e.id]
Unread(h) == {s \in Slots : h[s].seq > 0 /\ ~h[s].acked}
Ids(h, S) == {h[s].id : s \in S}

Init ==
  /\ RegInit
  /\ watches = {} /\ hist = [s \in Slots |-> Empty] /\ seq = 0
  /\ disk = [seq |-> 0, events |-> <<>>] /\ pending \in Images /\ boots = 0
  /\ issued = 0 /\ flushed = TRUE /\ pulled = {}

-----------------------------------------------------------------------------
\* Mutant: events nobody has claimed yet are not written again.
M_Exported(h, c) ==
  LET kept == SetToSortSeq({s \in Unread(h) : h[s].pid # None}, <)
  IN [seq |-> c, events |-> [i \in DOMAIN kept |-> Entry(h[kept[i]])]]

\* service_registry_event_journal_export.
Exported(h, c) ==
  LET kept == SetToSortSeq(Unread(h), <)
  IN [seq |-> c, events |-> [i \in DOMAIN kept |-> Entry(h[kept[i]])]]

\* Mutant: the sequence counter is not taken over from the journal.
M_ImportedSeq(c) == c

\* service_registry_event_journal_import takes the larger counter ...
ImportedSeq(c) == IF disk.seq > c THEN disk.seq ELSE c

\* ... and replaces the history by the events of the journal, unclaimed.
Imported ==
  [s \in Slots |->
     IF s < Len(disk.events)
     THEN LET e == disk.events[s + 1]
          IN [seq |-> e.seq, name |-> e.name, pid |-> None, acked |-> FALSE, id |-> e.id]
     ELSE Empty]

\* The slot of a new event: a free one, or the one its number falls on.
SlotFor(h, c) ==
  LET free == {s \in Slots : h[s].pid = None}
  IN IF free # {} THEN Min(free) ELSE c % HistoryCapacity

\* service_registry_notify_record for the watcher e[2] of the name e[1].
Recorded(st, e) ==
  LET c == st.seq + 1
  IN [seq |-> c, id |-> st.id + 1,
      hist |-> [st.hist EXCEPT ![SlotFor(st.hist, c)] =
                  [seq |-> c, name |-> e[1], pid |-> e[2], acked |-> FALSE, id |-> st.id + 1]]]

\* The history before the first event of es, after it, after the second, ...
Recording(es) ==
  FoldLeft(LAMBDA sts, e : Append(sts, Recorded(Last(sts), e)),
           <<[seq |-> seq, id |-> issued, hist |-> hist]>>, es)

\* service_registry_collect_watchers and the test of service_notify_change.
WatchersOf(n) == {w \in alive : <<n, w>> \in watches}

\* What service_registry_remove_pid leaves of the history: the task p owned
\* one of the names S, and loses what it had to read.
Cleared(h, S, p) ==
  IF p = None \/ S = {} THEN h ELSE [s \in Slots |-> IF h[s].pid = p THEN Empty ELSE h[s]]

\* service_notify_change for the names S, in a purge of p or (None) in none.
\* Each event is followed by a flush: the disk holds the export of the last
\* one that went through.
Notify(S, p) ==
  LET due == UNION {{n} \X WatchersOf(n) : n \in S}
  IN /\ issued + Cardinality(due) <= MaxEvent
     /\ \E es \in SetToSeqs(due) :
          LET sts == Recording(es) IN
          /\ seq' = Last(sts).seq /\ issued' = Last(sts).id
          /\ hist' = Cleared(Last(sts).hist, S, p)
          /\ \E k \in 0..Len(es) :
               /\ pending => k = 0
               /\ disk' = IF k = 0 THEN disk ELSE Exported(sts[k + 1].hist, sts[k + 1].seq)
               /\ flushed' = IF es = <<>> THEN flushed ELSE k = Len(es)
     /\ watches' = {w \in watches : w[2] # p}
     /\ UNCHANGED <<pending, boots, pulled>>

Publish(p, n) == Register(p, n) /\ Notify({n}, None)
Withdraw(p, n) == Unregister(p, n) /\ Notify({n}, None)
Transfer(p, n, q) == HandOver(p, n, q) /\ Notify({n}, None)
Leave(p) == Exit(p) /\ Notify(Owned(p), p)
LeaveRefused(p) == KillRefused(p) /\ Notify(Owned(p), p)
LeaveUnpurged(p) == GroupKill(p) /\ UNCHANGED evVars
Forget(n) == Lookup(n) /\ UNCHANGED evVars

\* SYS_SERVICE_NOTIFY: subscribes, or renews, and claims the restored events.
Subscribe(p, n) ==
  /\ p \in alive
  /\ <<n, p>> \in watches \/ Cardinality(watches) < WatchCapacity
  /\ watches' = watches \cup {<<n, p>>}
  /\ hist' = [s \in Slots |-> IF s \in Unread(hist) /\ hist[s].pid = None /\ hist[s].name = n
                              THEN [hist[s] EXCEPT !.pid = p] ELSE hist[s]]
  /\ UNCHANGED <<regVars, seq, disk, pending, boots, issued, flushed, pulled>>

\* SYS_SERVICE_EVENT_PULL: the oldest unread event of p is read, acknowledged
\* and the journal written again.
Pull(p) ==
  LET mine == {s \in Unread(hist) : hist[s].pid = p}
  IN /\ p \in alive
     /\ \E s \in mine :
          /\ \A t \in mine : hist[s].seq <= hist[t].seq
          /\ hist' = [hist EXCEPT ![s].acked = TRUE]
          /\ \/ disk' = disk /\ flushed' = FALSE /\ pulled' = pulled
             \/ /\ ~pending
                /\ disk' = Exported(hist', seq) /\ flushed' = TRUE
                /\ pulled' = pulled \cup {hist[s].id}
     /\ UNCHANGED <<regVars, watches, seq, pending, boots, issued>>

\* service_registry_boot_journal_install: the driver hands over the journal
\* (one that was never written is not valid), or sectors it could not read.
Install ==
  /\ pending /\ pending' = FALSE
  /\ \/ /\ disk.seq > 0
        /\ hist' = Imported /\ seq' = ImportedSeq(seq) /\ flushed' = TRUE
     \/ flushed' = (Unread(hist) = {}) /\ UNCHANGED <<hist, seq>>
  /\ UNCHANGED <<regVars, watches, disk, boots, issued, pulled>>

\* A restart: service_registry_init, and event_journal_load unless the driver
\* is to do it.  The disk may not be readable.
Restart ==
  /\ boots < MaxBoot /\ boots' = boots + 1
  /\ alive' = Pids /\ exited' = {} /\ caps' = {}
  /\ owner' = [n \in Names |-> None] /\ gen' = [n \in Names |-> 1]
  /\ watches' = {} /\ pending' \in Images /\ flushed' = TRUE
  /\ \/ ~pending' /\ hist' = Imported /\ seq' = ImportedSeq(0)
     \/ hist' = [s \in Slots |-> Empty] /\ seq' = 0
  /\ UNCHANGED <<disk, issued, pulled>>

Next ==
  \/ \E n \in Names : Forget(n)
  \/ \E p \in Pids, n \in Names : Publish(p, n) \/ Withdraw(p, n)
  \/ \E p, q \in Pids, n \in Names : Transfer(p, n, q)
  \/ \E p \in Pids : Leave(p) \/ LeaveRefused(p) \/ LeaveUnpurged(p)
  \/ \E p \in Watchers, n \in Names : Subscribe(p, n)
  \/ \E p \in Watchers : Pull(p)
  \/ Install \/ Restart

Spec == Init /\ [][Next]_vars

-----------------------------------------------------------------------------

\* A watcher reads each event once and in the order they happened, across
\* restarts and failed flushes: sequence numbers, of which
\* service_registry_notify_pull takes the lowest, follow the order of the
\* events, and an event whose acknowledgement reached the disk is not offered
\* again, by this boot or a later one.
ReadOnceInOrder ==
  /\ \A s, t \in Unread(hist) : hist[s].seq < hist[t].seq <=> hist[s].id < hist[t].id
  /\ Ids(hist, Unread(hist)) \cap pulled = {}

\* When the last flush went through, every unread event is in the journal:
\* also those restored from it that nobody has claimed yet.
JournalCovers ==
  flushed => Ids(hist, Unread(hist)) \subseteq {disk.events[i].id : i \in DOMAIN disk.events}
=============================================================================
