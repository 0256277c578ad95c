------------------------------ MODULE NetRelay ------------------------------
(***************************************************************************)
(* The one-slot relay of network system calls to the Ring 3 owner of       *)
(* "net-driver": kernel/net_relay.c, syscall_net_relay of                  *)
(* kernel/syscall/syscall.c, and the loop of userspace/net_worker.c.       *)
(*                                                                         *)
(* A client that has to wait is rewound over its int 0x80 and makes the    *)
(* same call again at its next turn, so each turn is one step; no          *)
(* interrupt handler touches the slot.  What a call carries and answers,   *)
(* in its messages or through the bulk channel, is the number of its job.  *)
(* Both limits of net_relay_timeout_ticks are NetTimeout.                  *)
(***************************************************************************)
EXTENDS Naturals, Sequences

CONSTANTS
  Clients,     \* tasks that make network calls
  NetWorkers,  \* tasks that may own "net-driver"
  MaxCalls,    \* bound on the jobs begun (job ids go to 2^31 - 1)
  Mailbox,     \* messages the worker's mailbox holds
  NetPolls,    \* NET_RELAY_TIMEOUT_POLLS
  NetTimeout   \* NET_RELAY_TIMEOUT_TICKS

NoOne == 0

ASSUME NetRelayAssumption ==
  /\ Clients \cup NetWorkers \subseteq Nat \ {NoOne} /\ Clients \cap NetWorkers = {}
  /\ MaxCalls \in Nat /\ Mailbox \in Nat /\ NetPolls \in Nat /\ NetTimeout \in Nat

VARIABLES
  client,   \* "user", "calling" or "dead"
  begun,    \* history: jobs begun by that call
  relay,    \* g_state, g_owner, g_worker, g_job_id, and what g_out, g_bulk_in
            \* and g_bulk_out hold: the number of the job it is about
  polls,    \* g_polls
  waited,   \* ticks since g_started
  lastJob,  \* g_next_job - 1
  driver,   \* net_relay_live_worker()
  mail,     \* requests in a worker's mailbox
  work      \* what a worker is doing: the job it holds and how far it is

netVars == <<client, begun, relay, polls, waited, lastJob, driver, mail, work>>
slotVars == <<relay, polls, waited, lastJob>>

\* "waiting" in ipc_receive, "asked" with a request, "fetched" with the bulk
\* input it took (data), "ran" when only the reply is left
Idle == [at |-> "waiting", job |-> NoOne, data |-> NoOne]
Dead == [Idle EXCEPT !.at = "dead"]

FreeSlot == [state |-> "free", owner |-> NoOne, worker |-> NoOne, job |-> NoOne,
             answer |-> NoOne, bulkIn |-> NoOne, bulkOut |-> NoOne]

NetInit ==
  /\ client = [c \in Clients |-> "user"] /\ begun = [c \in Clients |-> 0]
  /\ relay = FreeSlot /\ polls = 0 /\ waited = 0 /\ lastJob = 0
  /\ driver = NoOne
  /\ mail = [w \in NetWorkers |-> <<>>] /\ work = [w \in NetWorkers |-> Idle]

-----------------------------------------------------------------------------
(* The client: syscall_net_relay, once per turn *)

Mine(c) == relay.state # "free" /\ relay.owner = c
OwnerGone == relay.state # "free" /\ client[relay.owner] = "dead"

\* Mutant: the turns of the caller are not counted.
M_Counted(n) == n

\* net_relay_note_poll
Counted(n) == IF n < NetPolls THEN n + 1 ELSE n

\* net_relay_expired
Expired(n) == n >= NetPolls /\ waited > NetTimeout

\* The system call is made.
Ask(c) ==
  /\ client[c] = "user"
  /\ client' = [client EXCEPT ![c] = "calling"] /\ begun' = [begun EXCEPT ![c] = 0]
  /\ UNCHANGED <<slotVars, driver, mail, work>>

Return(c) == client' = [client EXCEPT ![c] = "user"]

\* Its job is in flight: the client waits on.
Poll(c) ==
  /\ client[c] = "calling" /\ Mine(c) /\ relay.state = "sent"
  /\ driver = relay.worker /\ ~Expired(Counted(polls))
  /\ polls' = Counted(polls)
  /\ UNCHANGED <<client, begun, relay, waited, lastJob, driver, mail, work>>

\* The worker is lost or too slow: net_relay_fail, then net_relay_deliver.
GiveUp(c) ==
  /\ client[c] = "calling" /\ Mine(c) /\ relay.state = "sent"
  /\ driver # relay.worker \/ Expired(Counted(polls))
  /\ relay' = [relay EXCEPT !.state = "free", !.owner = NoOne, !.job = NoOne,
                            !.answer = NoOne, !.bulkOut = NoOne]
  /\ polls' = Counted(polls)
  /\ Return(c)
  /\ UNCHANGED <<begun, waited, lastJob, driver, mail, work>>

\* net_relay_deliver
Deliver(c) ==
  /\ client[c] = "calling" /\ Mine(c) /\ relay.state = "done"
  /\ relay' = [relay EXCEPT !.state = "free", !.owner = NoOne]
  /\ Return(c)
  /\ UNCHANGED <<begun, polls, waited, lastJob, driver, mail, work>>

\* A living client has the slot: this one waits its turn.
Queue(c) ==
  /\ client[c] = "calling" /\ ~Mine(c) /\ driver # NoOne
  /\ relay.state # "free" /\ ~OwnerGone
  /\ UNCHANGED <<client, begun, slotVars, driver, mail, work>>

\* No worker: the call is not relayed, and Ring 0 runs or refuses it.
Local(c) ==
  /\ client[c] = "calling" /\ ~Mine(c) /\ driver = NoOne
  /\ Return(c)
  /\ UNCHANGED <<begun, slotVars, driver, mail, work>>

\* The slot is free, or net_relay_drop_owner frees it.
MayBegin(c) ==
  client[c] = "calling" /\ ~Mine(c) /\ driver # NoOne /\ (relay.state = "free" \/ OwnerGone)

Dropped == IF OwnerGone THEN [relay EXCEPT !.state = "free", !.owner = NoOne, !.job = NoOne]
                        ELSE relay

\* net_relay_marshal does not accept the arguments.
Refuse(c) ==
  /\ MayBegin(c)
  /\ relay' = Dropped
  /\ Return(c)
  /\ UNCHANGED <<begun, polls, waited, lastJob, driver, mail, work>>

\* net_relay_begin and net_relay_bulk_stage
Begun(c) ==
  [state |-> "sent", owner |-> c, worker |-> driver, job |-> lastJob + 1, answer |-> NoOne,
   bulkIn |-> lastJob + 1, bulkOut |-> NoOne]

\* The request goes into the worker's mailbox.
Forward(c) ==
  /\ MayBegin(c) /\ lastJob < MaxCalls /\ Len(mail[driver]) < Mailbox
  /\ relay' = Begun(c) /\ polls' = 0 /\ waited' = 0 /\ lastJob' = lastJob + 1
  /\ mail' = [mail EXCEPT ![driver] = Append(@, lastJob + 1)]
  /\ begun' = [begun EXCEPT ![c] = @ + 1]
  /\ UNCHANGED <<client, driver, work>>

\* It does not fit: net_relay_cancel, and the client gets the error.
MailboxFull(c) ==
  /\ MayBegin(c) /\ lastJob < MaxCalls /\ Len(mail[driver]) = Mailbox
  /\ relay' = [Begun(c) EXCEPT !.state = "free", !.owner = NoOne]
  /\ polls' = 0 /\ waited' = 0 /\ lastJob' = lastJob + 1
  /\ Return(c)
  /\ UNCHANGED <<begun, driver, mail, work>>

-----------------------------------------------------------------------------
(* The worker *)

\* Mutant: the number of the job is not compared.
M_Current(w) == relay.state = "sent" /\ relay.worker = w

\* The test of net_relay_complete, net_relay_bulk_fetch and net_relay_bulk_put
Current(w) == relay.state = "sent" /\ relay.worker = w /\ relay.job = work[w].job

Works(w, now) == work' = [work EXCEPT ![w] = now]

Receive(w) ==
  /\ work[w].at = "waiting" /\ mail[w] # <<>>
  /\ Works(w, [at |-> "asked", job |-> Head(mail[w]), data |-> NoOne])
  /\ mail' = [mail EXCEPT ![w] = Tail(@)]
  /\ UNCHANGED <<client, begun, slotVars, driver>>

\* OS_NET_RELAY_BULK_FETCH; an error is all there is to answer.
Fetch(w) ==
  /\ work[w].at = "asked"
  /\ Works(w, IF driver = w /\ Current(w)
              THEN [work[w] EXCEPT !.at = "fetched", !.data = relay.bulkIn]
              ELSE [work[w] EXCEPT !.at = "ran"])
  /\ UNCHANGED <<client, begun, slotVars, driver, mail>>

\* The call is executed, then OS_NET_RELAY_BULK_PUT.
Put(w) ==
  /\ work[w].at = "fetched"
  /\ relay' = IF driver = w /\ Current(w) THEN [relay EXCEPT !.bulkOut = work[w].data] ELSE relay
  /\ Works(w, [work[w] EXCEPT !.at = "ran", !.data = NoOne])
  /\ UNCHANGED <<client, begun, polls, waited, lastJob, driver, mail>>

\* The call is executed if it has not been, then SYS_NET_RELAY_REPLY: stored,
\* or counted as stale.
Answer(w) ==
  /\ work[w].at \in {"asked", "fetched", "ran"}
  /\ relay' = IF driver = w /\ Current(w)
              THEN [relay EXCEPT !.state = "done", !.answer = work[w].job] ELSE relay
  /\ Works(w, Idle)
  /\ UNCHANGED <<client, begun, polls, waited, lastJob, driver, mail>>

-----------------------------------------------------------------------------
(* Names and deaths *)

Enrol(w) ==
  /\ work[w] # Dead /\ driver = NoOne
  /\ driver' = w
  /\ UNCHANGED <<client, begun, slotVars, mail, work>>

Resign(w) ==
  /\ driver = w
  /\ driver' = NoOne
  /\ UNCHANGED <<client, begun, slotVars, mail, work>>

ClientDies(c) ==
  /\ client[c] # "dead"
  /\ client' = [client EXCEPT ![c] = "dead"]
  /\ UNCHANGED <<begun, slotVars, driver, mail, work>>

WorkerDies(w) ==
  /\ work[w] # Dead
  /\ Works(w, Dead) /\ mail' = [mail EXCEPT ![w] = <<>>]
  /\ driver' = IF driver = w THEN NoOne ELSE driver
  /\ UNCHANGED <<client, begun, slotVars>>

-----------------------------------------------------------------------------
NetTick ==
  /\ waited' = IF relay.state = "sent" /\ waited <= NetTimeout THEN waited + 1 ELSE waited
  /\ UNCHANGED <<client, begun, relay, polls, lastJob, driver, mail, work>>

\* What the client's next turn does
Turn(c) ==
  Poll(c) \/ GiveUp(c) \/ Deliver(c) \/ Queue(c) \/ Local(c) \/ Refuse(c)
    \/ Forward(c) \/ MailboxFull(c)

NetNext ==
  \/ NetTick
  \/ \E c \in Clients : Ask(c) \/ Turn(c) \/ ClientDies(c)
  \/ \E w \in NetWorkers :
       \/ Receive(w) \/ Fetch(w) \/ Put(w) \/ Answer(w)
       \/ Enrol(w) \/ Resign(w) \/ WorkerDies(w)

NetSpec == NetInit /\ [][NetNext]_netVars

\* The timer ticks, and a client that waits gets its turn.
NetFairness == WF_netVars(NetTick) /\ \A c \in Clients : WF_netVars(Turn(c))
-----------------------------------------------------------------------------
(* Properties *)

\* One call, however often it is made again while it waits, is forwarded at
\* most once, and the answer and the bulk output its client finds in the slot
\* are those of its own job: a request that was given up, or whose client
\* died, may still be executed, but what it answers reaches nobody.
NetOwnAnswer ==
  /\ \A c \in Clients : begun[c] <= 1
  /\ relay.state = "done" => /\ relay.answer = relay.job
                             /\ relay.bulkOut \in {NoOne, relay.job}

\* A client whose call was forwarded returns from it, whatever the worker
\* does: with an answer, ABORTED when the worker is lost or TIMEOUT.
NetCallEnds ==
  \A c \in Clients : (client[c] = "calling" /\ Mine(c)) ~> (client[c] # "calling")
=============================================================================
