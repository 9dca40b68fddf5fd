------------------------- MODULE BaileysRateLimiter -------------------------
(***************************************************************************)
(* The per-instance send limiter, src/infrastructure/baileys/              *)
(* BaileysRateLimiter.ts.  Callers hand it tasks through run(); at most    *)
(* Concurrency of them run at a time, two starts are at least MinDelay     *)
(* apart, and a failed task is put back at the head of the queue after a   *)
(* growing pause, during which it keeps its slot.                          *)
(*                                                                         *)
(* processQueue() suspends when it is called too early and calls itself    *)
(* again later, so several suspended calls ("pumps") may be pending, next  *)
(* to the running tasks.  Each stretch of code between two awaits is one   *)
(* action, as the event loop runs it.                                      *)
(*                                                                         *)
(* Time is counted in ticks.  The code uses Date.now() only to compare the *)
(* time since the last start with MinDelay, so sinceLast saturates there;  *)
(* a pump that wakes early finds the same comparison and suspends again,   *)
(* which is a stuttering step, so a pump needs no deadline of its own.     *)
(***************************************************************************)
EXTENDS Integers, Sequences, FiniteSets

CONSTANTS
    Tasks,          \* the calls of run(), each one task
    Concurrency,    \* _concurrency
    MinDelay,       \* _minDelayMs, in ticks
    MaxRetries,     \* _maxRetries
    RetryDelay      \* _retryDelayMs, in ticks

ASSUME LimiterAssumption ==
    /\ IsFiniteSet(Tasks)
    /\ Concurrency \in Nat \ {0}
    /\ MinDelay \in Nat
    /\ MaxRetries \in Nat
    /\ RetryDelay \in Nat

VARIABLES
    queue,      \* _queue
    running,    \* _running
    sinceLast,  \* Date.now() - _lastExecution, saturating at MinDelay
    pumps,      \* processQueue() calls suspended in delay()
    status,     \* status[t]: where the promise returned by run() stands
    retries,    \* item.retries
    wait,       \* ticks left of the pause before a retry
    attempts,   \* history: calls of item.task()
    ticket      \* history: order in which run() was called, 0 before it

vars == <<queue, running, sinceLast, pumps, status, retries, wait, attempts, ticket>>

Status == {"new", "queued", "running", "backoff", "resolved", "rejected"}

Submitted == {t \in Tasks : status[t] # "new"}
Active    == {t \in Tasks : status[t] \in {"running", "backoff"}}
Settled   == {t \in Tasks : status[t] \in {"resolved", "rejected"}}

Init ==
    /\ queue = <<>>
    /\ running = 0
    /\ sinceLast = MinDelay         \* _lastExecution = 0 is long ago
    /\ pumps = 0
    /\ status = [t \in Tasks |-> "new"]
    /\ retries = [t \in Tasks |-> 0]
    /\ wait = [t \in Tasks |-> 0]
    /\ attempts = [t \in Tasks |-> 0]
    /\ ticket = [t \in Tasks |-> 0]

(* processQueue() called with queue q, _running r, p pumps and statuses st: *)
(* it returns, suspends in delay(), or shifts an item and calls its task.   *)
Return(q, r, p, st) ==
    /\ r >= Concurrency \/ q = <<>>
    /\ queue' = q /\ running' = r /\ pumps' = p /\ status' = st
    /\ UNCHANGED <<sinceLast, attempts>>

(* Mutant: a call that comes too early gives up. *)
SuspendGivesUp(q, r, p, st) ==
    /\ r < Concurrency /\ q # <<>>
    /\ sinceLast < MinDelay
    /\ queue' = q /\ running' = r /\ pumps' = p /\ status' = st
    /\ UNCHANGED <<sinceLast, attempts>>

Suspend(q, r, p, st) ==
    /\ r < Concurrency /\ q # <<>>
    /\ sinceLast < MinDelay
    /\ queue' = q /\ running' = r /\ pumps' = p + 1 /\ status' = st
    /\ UNCHANGED <<sinceLast, attempts>>

(* Mutants: the interval is not awaited; _running is not counted; the item *)
(* stays in the queue.                                                     *)
StartEarly(q, r, p, st) ==
    /\ r < Concurrency /\ q # <<>>
    /\ queue' = Tail(q) /\ running' = r + 1 /\ pumps' = p
    /\ status' = [st EXCEPT ![Head(q)] = "running"]
    /\ sinceLast' = 0
    /\ attempts' = [attempts EXCEPT ![Head(q)] = @ + 1]

StartUncounted(q, r, p, st) ==
    /\ r < Concurrency /\ q # <<>>
    /\ sinceLast >= MinDelay
    /\ queue' = Tail(q) /\ running' = r /\ pumps' = p
    /\ status' = [st EXCEPT ![Head(q)] = "running"]
    /\ sinceLast' = 0
    /\ attempts' = [attempts EXCEPT ![Head(q)] = @ + 1]

StartPeeks(q, r, p, st) ==
    /\ r < Concurrency /\ q # <<>>
    /\ sinceLast >= MinDelay
    /\ queue' = q /\ running' = r + 1 /\ pumps' = p
    /\ status' = [st EXCEPT ![Head(q)] = "running"]
    /\ sinceLast' = 0
    /\ attempts' = [attempts EXCEPT ![Head(q)] = @ + 1]

Start(q, r, p, st) ==
    /\ r < Concurrency /\ q # <<>>
    /\ sinceLast >= MinDelay
    /\ queue' = Tail(q) /\ running' = r + 1 /\ pumps' = p
    /\ status' = [st EXCEPT ![Head(q)] = "running"]
    /\ sinceLast' = 0
    /\ attempts' = [attempts EXCEPT ![Head(q)] = @ + 1]

ProcessQueue(q, r, p, st) ==
    \/ Return(q, r, p, st)
    \/ Suspend(q, r, p, st)
    \/ Start(q, r, p, st)

(* run(task) *)
Run(t) ==
    /\ status[t] = "new"
    /\ ticket' = [ticket EXCEPT ![t] = Cardinality(Submitted) + 1]
    /\ ProcessQueue(Append(queue, t), running, pumps, [status EXCEPT ![t] = "queued"])
    /\ UNCHANGED <<retries, wait>>

(* A suspended processQueue() continues with its recursive call. *)
Wake ==
    /\ pumps > 0
    /\ ProcessQueue(queue, running, pumps - 1, status)
    /\ UNCHANGED <<retries, wait, ticket>>

(* Mutant: the finally block does not call processQueue(). *)
ResolveOnly(t) ==
    /\ status[t] = "running"
    /\ running' = running - 1
    /\ status' = [status EXCEPT ![t] = "resolved"]
    /\ UNCHANGED <<queue, sinceLast, pumps, attempts, retries, wait, ticket>>

(* item.task() fulfils: resolve, then the finally block. *)
Resolve(t) ==
    /\ status[t] = "running"
    /\ ProcessQueue(queue, running - 1, pumps, [status EXCEPT ![t] = "resolved"])
    /\ UNCHANGED <<retries, wait, ticket>>

(* Mutants: one retry too many; the pause is computed from the retries minus one. *)
PauseOnceMore(t) ==
    /\ status[t] = "running"
    /\ retries[t] <= MaxRetries
    /\ status' = [status EXCEPT ![t] = "backoff"]
    /\ retries' = [retries EXCEPT ![t] = @ + 1]
    /\ wait' = [wait EXCEPT ![t] = RetryDelay * (retries[t] + 1)]
    /\ UNCHANGED <<queue, running, sinceLast, pumps, attempts, ticket>>

PauseOneLess(t) ==
    /\ status[t] = "running"
    /\ retries[t] < MaxRetries
    /\ status' = [status EXCEPT ![t] = "backoff"]
    /\ retries' = [retries EXCEPT ![t] = @ + 1]
    /\ wait' = [wait EXCEPT ![t] = RetryDelay * (retries[t] - 1)]
    /\ UNCHANGED <<queue, running, sinceLast, pumps, attempts, ticket>>

(* item.task() rejects and a retry is left: pause, still counted as running. *)
Pause(t) ==
    /\ status[t] = "running"
    /\ retries[t] < MaxRetries
    /\ status' = [status EXCEPT ![t] = "backoff"]
    /\ retries' = [retries EXCEPT ![t] = @ + 1]
    /\ wait' = [wait EXCEPT ![t] = RetryDelay * (retries[t] + 1)]
    /\ UNCHANGED <<queue, running, sinceLast, pumps, attempts, ticket>>

(* Mutants: the retry goes to the end of the queue; its slot is not freed. *)
RequeueLast(t) ==
    /\ status[t] = "backoff"
    /\ wait[t] = 0
    /\ ProcessQueue(Append(queue, t), running - 1, pumps, [status EXCEPT ![t] = "queued"])
    /\ UNCHANGED <<retries, wait, ticket>>

RequeueKeepsSlot(t) ==
    /\ status[t] = "backoff"
    /\ wait[t] = 0
    /\ ProcessQueue(<<t>> \o queue, running, pumps, [status EXCEPT ![t] = "queued"])
    /\ UNCHANGED <<retries, wait, ticket>>

(* The pause is over: unshift, then the finally block. *)
Requeue(t) ==
    /\ status[t] = "backoff"
    /\ wait[t] = 0
    /\ ProcessQueue(<<t>> \o queue, running - 1, pumps, [status EXCEPT ![t] = "queued"])
    /\ UNCHANGED <<retries, wait, ticket>>

(* item.task() rejects and no retry is left: reject, then the finally block. *)
Reject(t) ==
    /\ status[t] = "running"
    /\ retries[t] >= MaxRetries
    /\ ProcessQueue(queue, running - 1, pumps, [status EXCEPT ![t] = "rejected"])
    /\ UNCHANGED <<retries, wait, ticket>>

(* One tick of the clock, while something is timed. *)
Tick ==
    /\ sinceLast < MinDelay \/ \E t \in Tasks : wait[t] > 0
    /\ sinceLast' = IF sinceLast < MinDelay THEN sinceLast + 1 ELSE sinceLast
    /\ wait' = [t \in Tasks |-> IF wait[t] > 0 THEN wait[t] - 1 ELSE 0]
    /\ UNCHANGED <<queue, running, pumps, status, retries, attempts, ticket>>

(* No call of run() is to come, no task runs or pauses, no pump is left: *)
(* nothing can happen any more.                                          *)
AtRest ==
    /\ Submitted = Tasks /\ Active = {} /\ pumps = 0 /\ sinceLast = MinDelay
    /\ UNCHANGED vars

Next ==
    \/ \E t \in Tasks : \/ Run(t) \/ Resolve(t) \/ Pause(t)
                        \/ Requeue(t) \/ Reject(t)
    \/ Wake
    \/ Tick
    \/ AtRest

Spec == Init /\ [][Next]_vars

(* Timers fire, and every task settles: the sends passed to the limiter are *)
(* themselves bounded by a timeout (MessageOrchestrator.withTimeout).       *)
Fairness ==
    /\ WF_vars(Wake)
    /\ WF_vars(Tick)
    /\ \A t \in Tasks : WF_vars(Resolve(t) \/ Pause(t) \/ Reject(t))
    /\ \A t \in Tasks : WF_vars(Requeue(t))

FairSpec == Spec /\ Fairness
-----------------------------------------------------------------------------
(* Every variable of the limiter has the values the code can give it. *)
TypeOK ==
    /\ queue \in Seq(Tasks)
    /\ running \in Int
    /\ sinceLast \in 0..MinDelay
    /\ pumps \in Nat
    /\ status \in [Tasks -> Status]
    /\ retries \in [Tasks -> Nat]
    /\ wait \in [Tasks -> Nat]
    /\ attempts \in [Tasks -> Nat]
    /\ ticket \in [Tasks -> Nat]

(* The counter _running is the number of tasks that hold a slot (running or *)
(* pausing before a retry), and never exceeds the concurrency: no path      *)
(* through the finally block leaks or double-frees a slot.                  *)
SlotsAccounted ==
    /\ running = Cardinality(Active)
    /\ running <= Concurrency

(* A task waiting for a slot is in the queue exactly once, and nothing else *)
(* is in the queue: unshift, shift and push neither lose nor double a task. *)
QueueExact ==
    /\ \A t \in Tasks : status[t] = "queued" <=> \E i \in 1..Len(queue) : queue[i] = t
    /\ \A i, j \in 1..Len(queue) : queue[i] = queue[j] => i = j

(* No call of run() is forgotten: whenever a slot is free and work is       *)
(* queued, enough suspended calls of processQueue() are pending to take it, *)
(* although each call starts at most one item and gives up when it finds    *)
(* the slots taken.                                                         *)
WorkConserving == pumps >= Len(queue) \/ pumps + running >= Concurrency

(* The task function is called once more than it was retried, and never     *)
(* more than MaxRetries + 1 times.                                          *)
AttemptsBounded ==
    \A t \in Tasks :
        /\ retries[t] <= MaxRetries
        /\ attempts[t] = retries[t] + (IF status[t] \in {"running", "resolved", "rejected"}
                                       THEN 1 ELSE 0)
        /\ status[t] = "rejected" => attempts[t] = MaxRetries + 1

(* With one slot (what LimiterFactory configures) promises settle in the    *)
(* order in which run() was called, retries included: a task that pauses    *)
(* keeps the slot and goes back to the head.                                *)
InOrder ==
    Concurrency = 1 =>
        \A t, u \in Submitted :
            (ticket[t] < ticket[u] /\ u \in Settled) => t \in Settled

(* All of these together: slots, queue, pumps, attempts and order agree. *)
LimiterSound ==
    TypeOK /\ SlotsAccounted /\ QueueExact /\ WorkConserving /\ AttemptsBounded /\ InOrder

(* Two task calls are never closer than MinDelay, however many pumps wake   *)
(* at once: a step that calls a task finds the interval elapsed, starts one *)
(* task only and restarts the interval.                                     *)
Spaced ==
    [][\A t \in Tasks : attempts'[t] # attempts[t] =>
           /\ sinceLast = MinDelay /\ sinceLast' = 0
           /\ \A u \in Tasks \ {t} : attempts'[u] = attempts[u]]_vars

(* Every call of run() settles. *)
EverySettles == \A t \in Tasks : (status[t] = "queued") ~> (t \in Settled)

(* The limiter is a task pool that tries each task at most MaxRetries + 1 times. *)
PhaseOf(s) ==
    CASE s = "new" -> "new"
      [] s = "queued" -> "waiting"
      [] s \in {"running", "backoff"} -> "active"
      [] s \in {"resolved", "rejected"} -> "settled"

Pool == INSTANCE TaskPool
            WITH MaxAttempts <- MaxRetries + 1,
                 phase <- [t \in Tasks |-> PhaseOf(status[t])]

ImplementsPool == Pool!PoolSpec
=============================================================================
