------------------------------ MODULE AiRelay ------------------------------
(***************************************************************************)
(* The one-slot relay of generation jobs to the Ring 3 owner of            *)
(* "ai-engine": kernel/ai_relay.c, with ai_relay_dispatch, the IRQ0        *)
(* watchdog and the ESC key of kernel/syscall/syscall.c.                   *)
(*                                                                         *)
(* A system call is not preempted, but interrupts arrive between any two   *)
(* of its steps: inCall is the task half way through one.  What a job asks *)
(* and answers is its number; the counters of the relay are left out.      *)
(***************************************************************************)
EXTENDS Integers, FiniteSets

CONSTANTS
  Callers,      \* tasks that ask for a generation
  Workers,      \* tasks that may own "ai-engine"
  MaxJob,       \* bound on the jobs begun (job ids go to 2^31 - 1)
  StallTicks,   \* AI_RELAY_STALL_TICKS
  TimeoutTicks  \* AI_RELAY_TIMEOUT_TICKS

None == 0

ASSUME AiRelayAssumption ==
  /\ Callers \cup Workers \subseteq Nat \ {None} /\ Callers \cap Workers = {}
  /\ MaxJob \in Nat /\ StallTicks \in Nat /\ TimeoutTicks \in Nat

VARIABLES
  pc,       \* where a caller is
  inCall,   \* the task half way through a system call, or None
  slot,     \* ai_relay_slot_t: state, caller, worker, job, reply
  age,      \* ticks since slot.started
  idle,     \* ticks since slot.progress
  nextJob,  \* slot.next_job
  waiter,   \* g_ai_waiter
  live,     \* ai_live_worker()
  heard     \* job ids a worker has been rung for, alive or not

vars == <<pc, inCall, slot, age, idle, nextJob, waiter, live, heard>>

\* In ai_relay_dispatch: "begun" before the doorbell, "looping" at the test of
\* the loop, "checked" after it, "blocked" in TASK_BLOCKED_KERNEL, "ready"
\* when woken
CallerStates == {"user", "begun", "looping", "checked", "blocked", "ready", "dead"}
SlotStates == {"free", "sent", "done", "failed"}
Jobs == 1..MaxJob
Slots == [state : SlotStates, caller : Callers \cup {None}, worker : Workers \cup {None},
          job : Jobs \cup {None}, reply : Jobs \cup {None}]

Init ==
  /\ pc = [c \in Callers |-> "user"]
  /\ inCall = None
  /\ slot = [state |-> "free", caller |-> None, worker |-> None, job |-> None, reply |-> None]
  /\ age = 0 /\ idle = 0 /\ nextJob = 1
  /\ waiter = None /\ live = None
  /\ heard = [w \in Workers |-> {}]

-----------------------------------------------------------------------------
(* The caller *)

\* Mutant: a slot with an answer to be taken counts as free.
M_SlotFree == slot.state \in {"free", "done"}

SlotFree == slot.state = "free"

\* ai_relay_begin and its GGUF variants; a caller that finds the slot taken
\* makes its call again later.
Begin(c) ==
  /\ inCall = None /\ pc[c] = "user" /\ live # None
  /\ SlotFree /\ nextJob \in Jobs
  /\ slot' = [state |-> "sent", caller |-> c, worker |-> live, job |-> nextJob, reply |-> None]
  /\ nextJob' = nextJob + 1
  /\ age' = 0 /\ idle' = 0
  /\ pc' = [pc EXCEPT ![c] = "begun"] /\ inCall' = c
  /\ UNCHANGED <<waiter, live, heard>>

\* The doorbell fits into the worker's mailbox.
Ring(c) ==
  /\ pc[c] = "begun"
  /\ heard' = [heard EXCEPT ![slot.worker] = @ \cup {slot.job}]
  /\ waiter' = c
  /\ pc' = [pc EXCEPT ![c] = "looping"]
  /\ UNCHANGED <<inCall, slot, age, idle, nextJob, live>>

\* It does not: ai_relay_cancel, and the caller falls back.
RingRefused(c) ==
  /\ pc[c] = "begun"
  /\ slot' = IF slot.state = "sent" THEN [slot EXCEPT !.state = "free"] ELSE slot
  /\ pc' = [pc EXCEPT ![c] = "user"] /\ inCall' = None
  /\ UNCHANGED <<age, idle, nextJob, waiter, live, heard>>

InFlight(c) == slot.state = "sent" /\ slot.caller = c

Check(c) ==
  /\ pc[c] = "looping" /\ InFlight(c)
  /\ pc' = [pc EXCEPT ![c] = "checked"]
  /\ UNCHANGED <<inCall, slot, age, idle, nextJob, waiter, live, heard>>

Block(c) ==
  /\ pc[c] = "checked"
  /\ pc' = [pc EXCEPT ![c] = "blocked"] /\ inCall' = None
  /\ UNCHANGED <<slot, age, idle, nextJob, waiter, live, heard>>

Resume(c) ==
  /\ inCall = None /\ pc[c] = "ready"
  /\ pc' = [pc EXCEPT ![c] = "looping"] /\ inCall' = c
  /\ UNCHANGED <<slot, age, idle, nextJob, waiter, live, heard>>

\* The job is over: ai_relay_take.  done: the caller has the worker's reply,
\* otherwise it falls back or, cancelled, gives up.
Leave(c, done) ==
  /\ pc[c] = "looping" /\ ~InFlight(c)
  /\ done = (slot.state = "done" /\ slot.caller = c)
  /\ slot' = IF slot.state \in {"done", "failed"} /\ slot.caller = c
               THEN [slot EXCEPT !.state = "free"] ELSE slot
  /\ waiter' = None
  /\ pc' = [pc EXCEPT ![c] = "user"] /\ inCall' = None
  /\ UNCHANGED <<age, idle, nextJob, live, heard>>

\* The caller's parent kills it.
KillCaller(c) ==
  /\ inCall = None /\ pc[c] \in {"user", "blocked", "ready"}
  /\ pc' = [pc EXCEPT ![c] = "dead"]
  /\ UNCHANGED <<inCall, slot, age, idle, nextJob, waiter, live, heard>>

\* ai_relay_wake_caller, with the slot s
Woken(s) ==
  IF s.state # "free" /\ waiter = s.caller /\ waiter # None /\ pc[waiter] = "blocked"
  THEN [pc EXCEPT ![waiter] = "ready"] ELSE pc

-----------------------------------------------------------------------------
(* The worker *)

\* Mutant: the number of the job is not compared.
M_Accepts(w, j) == slot.state = "sent" /\ slot.worker = w

\* The test of ai_relay_complete and ai_relay_heartbeat
Accepts(w, j) == slot.state = "sent" /\ slot.worker = w /\ slot.job = j

Heartbeat(w, j) ==
  /\ inCall = None /\ live = w /\ j \in heard[w] /\ Accepts(w, j)
  /\ idle' = 0
  /\ UNCHANGED <<pc, inCall, slot, age, nextJob, waiter, live, heard>>

\* OS_AI_ENGINE_REPLY passes the test; the reply is copied.
Reply(w, j) ==
  /\ inCall = None /\ live = w /\ j \in heard[w] /\ Accepts(w, j)
  /\ slot' = [slot EXCEPT !.reply = j] /\ inCall' = w
  /\ UNCHANGED <<pc, age, idle, nextJob, waiter, live, heard>>

\* The slot is marked done, and the caller woken.
Store(w) ==
  /\ inCall = w
  /\ slot' = [slot EXCEPT !.state = "done"]
  /\ pc' = Woken(slot') /\ inCall' = None
  /\ UNCHANGED <<age, idle, nextJob, waiter, live, heard>>

\* A task registers "ai-engine", gives the name back, or dies with it.
Register(w) ==
  /\ inCall = None /\ live = None
  /\ live' = w
  /\ UNCHANGED <<pc, inCall, slot, age, idle, nextJob, waiter, heard>>

Unregister ==
  /\ inCall = None /\ live # None
  /\ live' = None
  /\ UNCHANGED <<pc, inCall, slot, age, idle, nextJob, waiter, heard>>

-----------------------------------------------------------------------------
(* Interrupts *)

\* Mutant: only a silent worker is given up.
M_ShouldFail(i, a) == live # slot.worker \/ i > StallTicks

\* ai_relay_should_fail: the worker is lost, silent, or too slow.
ShouldFail(i, a) == live # slot.worker \/ i > StallTicks \/ a > TimeoutTicks

Older(n, limit) == IF n > limit THEN n ELSE n + 1

\* syscall_ai_relay_watchdog, by every tick
Tick ==
  LET i == Older(idle, StallTicks)
      a == Older(age, TimeoutTicks)
      failed == [slot EXCEPT !.state = "failed"]
      orphan == slot.state = "sent" /\ pc[slot.caller] = "dead"
      fails == slot.state = "sent" /\ ~orphan /\ ShouldFail(i, a)
  IN  /\ idle' = i /\ age' = a
      /\ slot' = IF orphan THEN [slot EXCEPT !.state = "free"]
                 ELSE IF fails THEN failed ELSE slot
      /\ waiter' = IF orphan THEN None ELSE waiter
      /\ pc' = IF fails THEN Woken(failed) ELSE pc
      /\ UNCHANGED <<inCall, nextJob, live, heard>>

\* syscall_ai_cancel_key
Escape ==
  /\ slot.state = "sent" /\ waiter = slot.caller
  /\ slot' = [slot EXCEPT !.state = "failed"]
  /\ pc' = Woken(slot')
  /\ UNCHANGED <<inCall, age, idle, nextJob, waiter, live, heard>>

Next ==
  \/ Tick \/ Escape \/ Unregister
  \/ \E c \in Callers :
       \/ Begin(c) \/ Ring(c) \/ RingRefused(c) \/ Check(c) \/ Block(c) \/ Resume(c)
       \/ \E done \in BOOLEAN : Leave(c, done)
       \/ KillCaller(c)
  \/ \E w \in Workers :
       Register(w) \/ Store(w) \/ \E j \in Jobs : Heartbeat(w, j) \/ Reply(w, j)

Spec == Init /\ [][Next]_vars

\* The timer ticks, a system call goes on, a READY task runs in the end.
Continue(c) ==
  Ring(c) \/ RingRefused(c) \/ Check(c) \/ Block(c) \/ \E done \in BOOLEAN : Leave(c, done)
Fairness ==
  /\ WF_vars(Tick)
  /\ \A c \in Callers : WF_vars(Continue(c)) /\ SF_vars(Resume(c))
  /\ \A w \in Workers : WF_vars(Store(w))
-----------------------------------------------------------------------------
(* Properties *)

\* Every variable keeps its type; exactly the callers between ai_relay_begin
\* and the end of their call are half way through it or asleep in it.
TypeOK ==
  /\ pc \in [Callers -> CallerStates]
  /\ inCall \in Callers \cup Workers \cup {None}
  /\ slot \in Slots
  /\ age \in 0..(TimeoutTicks + 1) /\ idle \in 0..(StallTicks + 1)
  /\ nextJob \in 1..(MaxJob + 1)
  /\ waiter \in Callers \cup {None} /\ live \in Workers \cup {None}
  /\ heard \in [Workers -> SUBSET Jobs]
  /\ \A c \in Callers : pc[c] \in {"begun", "looping", "checked"} <=> inCall = c

\* The slot stays with its caller from ai_relay_begin until ai_relay_take,
\* whatever the watchdog, the ESC key and the worker do meanwhile; so at most
\* one caller is in the relay.
SlotKept ==
  \A c \in Callers : pc[c] \in {"begun", "looping", "checked", "blocked", "ready"}
                       => slot.caller = c /\ slot.state # "free"

\* An answer that waits for its caller is the answer to the job of that slot:
\* a late reply to an older job, or of a worker that was replaced, is refused
\* (OS_AI_ENGINE_STALE), and one that an interrupt overtakes is no other job's.
OwnAnswer ==
  slot.state = "done" => slot.reply = slot.job /\ slot.job \in heard[slot.worker]

\* Every job ends: answered, cancelled or given up by the watchdog, even when
\* its worker goes on sending heartbeats for ever.
JobEnds ==
  \A j \in Jobs : (slot.state = "sent" /\ slot.job = j)
                    ~> ~(slot.state = "sent" /\ slot.job = j)
=============================================================================
