---------------------------- MODULE BoundedQueue ----------------------------
(***************************************************************************)
(* src/infrastructure/concurrency/BoundedQueue.ts: at most Concurrency     *)
(* tasks run, at most MaxSize wait, further ones are refused at once.      *)
(*                                                                         *)
(* Everything the class does is synchronous except the awaited task, so    *)
(* add(), the continuation of execute() and clear() are one action each,   *)
(* with the loop of process() inside.                                      *)
(***************************************************************************)
EXTENDS Integers, Sequences, FiniteSets

CONSTANTS
    Tasks,          \* the calls of add(), each one task
    MaxSize,        \* _maxSize
    Concurrency     \* _concurrency

(* What the constructor checks. *)
ASSUME QueueAssumption ==
    /\ IsFiniteSet(Tasks)
    /\ MaxSize \in Nat \ {0}
    /\ Concurrency \in Nat \ {0}
    /\ Concurrency <= MaxSize

VARIABLES
    queue,      \* _queue
    running,    \* _running
    status,     \* status[t]: where the promise returned by add() stands
    executed    \* history: calls of the task function

queueVars == <<queue, running, status, executed>>

Status == {"new", "waiting", "running", "fulfilled", "failed", "refused", "cleared"}

Waiting == {t \in Tasks : status[t] = "waiting"}
Running == {t \in Tasks : status[t] = "running"}
Settled == {t \in Tasks : status[t] \in {"fulfilled", "failed", "refused", "cleared"}}

Lesser(a, b) == IF a <= b THEN a ELSE b

QueueInit ==
    /\ queue = <<>>
    /\ running = 0
    /\ status = [t \in Tasks |-> "new"]
    /\ executed = [t \in Tasks |-> 0]

(* The loop of process() on queue q, _running r and statuses st: it starts *)
(* tasks from the head while there is a slot and a task.                   *)

(* Mutant: one slot too many. *)
StartsOneMore(q, r) == IF r <= Concurrency THEN Lesser(Concurrency - r + 1, Len(q)) ELSE 0

Starts(q, r) == IF r < Concurrency THEN Lesser(Concurrency - r, Len(q)) ELSE 0

(* Mutant: tasks are taken from the end of the queue. *)
ProcessLast(q, r, st) ==
    LET n == Starts(q, r)
        started == {q[i] : i \in (Len(q) - n + 1)..Len(q)}
    IN /\ queue' = SubSeq(q, 1, Len(q) - n)
       /\ running' = r + n
       /\ status' = [t \in Tasks |-> IF t \in started THEN "running" ELSE st[t]]
       /\ executed' = [t \in Tasks |-> IF t \in started THEN executed[t] + 1
                                                        ELSE executed[t]]

Process(q, r, st) ==
    LET n == Starts(q, r)
        started == {q[i] : i \in 1..n}
    IN /\ queue' = SubSeq(q, n + 1, Len(q))
       /\ running' = r + n
       /\ status' = [t \in Tasks |-> IF t \in started THEN "running" ELSE st[t]]
       /\ executed' = [t \in Tasks |-> IF t \in started THEN executed[t] + 1
                                                        ELSE executed[t]]

(* Mutant: running tasks count as waiting. *)
RefuseTooSoon(t) ==
    /\ status[t] = "new"
    /\ Len(queue) + running >= MaxSize
    /\ status' = [status EXCEPT ![t] = "refused"]
    /\ UNCHANGED <<queue, running, executed>>

(* add(task) when isFull *)
Refuse(t) ==
    /\ status[t] = "new"
    /\ Len(queue) >= MaxSize
    /\ status' = [status EXCEPT ![t] = "refused"]
    /\ UNCHANGED <<queue, running, executed>>

(* Mutant: one waiting task too many. *)
AddOneMore(t) ==
    /\ status[t] = "new"
    /\ Len(queue) <= MaxSize
    /\ Process(Append(queue, t), running, [status EXCEPT ![t] = "waiting"])

(* add(task) otherwise: push and process() *)
Add(t) ==
    /\ status[t] = "new"
    /\ Len(queue) < MaxSize
    /\ Process(Append(queue, t), running, [status EXCEPT ![t] = "waiting"])

(* Mutants: execute() keeps its slot; it does not call process(). *)
CompleteKeepsSlot(t, s) ==
    /\ status[t] = "running"
    /\ s \in {"fulfilled", "failed"}
    /\ Process(queue, running, [status EXCEPT ![t] = s])

CompleteOnly(t, s) ==
    /\ status[t] = "running"
    /\ s \in {"fulfilled", "failed"}
    /\ running' = running - 1
    /\ status' = [status EXCEPT ![t] = s]
    /\ UNCHANGED <<queue, executed>>

(* The awaited task settles with outcome s: the rest of execute(). *)
Complete(t, s) ==
    /\ status[t] = "running"
    /\ s \in {"fulfilled", "failed"}
    /\ Process(queue, running - 1, [status EXCEPT ![t] = s])

(* Mutant: clear() forgets the running tasks. *)
ClearAll ==
    /\ queue # <<>>
    /\ queue' = <<>>
    /\ running' = 0
    /\ status' = [t \in Tasks |-> IF \E i \in 1..Len(queue) : queue[i] = t
                                  THEN "cleared" ELSE status[t]]
    /\ UNCHANGED executed

(* clear(): every waiting task is rejected, the running ones go on. *)
Clear ==
    /\ queue # <<>>
    /\ queue' = <<>>
    /\ status' = [t \in Tasks |-> IF \E i \in 1..Len(queue) : queue[i] = t
                                  THEN "cleared" ELSE status[t]]
    /\ UNCHANGED <<running, executed>>

(* Every task is settled. *)
AtRest == Settled = Tasks /\ UNCHANGED queueVars

QueueNext ==
    \/ \E t \in Tasks : \/ Refuse(t)
                        \/ Add(t)
                        \/ \E s \in {"fulfilled", "failed"} : Complete(t, s)
    \/ Clear
    \/ AtRest

QueueSpec == QueueInit /\ [][QueueNext]_queueVars

(* Tasks settle. *)
QueueFairness == \A t \in Tasks : WF_queueVars(\E s \in {"fulfilled", "failed"} : Complete(t, s))

QueueFairSpec == QueueSpec /\ QueueFairness
-----------------------------------------------------------------------------
(* Every variable of the queue has the values the code can give it. *)
QueueTypeOK ==
    /\ queue \in Seq(Tasks)
    /\ running \in Nat
    /\ status \in [Tasks -> Status]
    /\ executed \in [Tasks -> Nat]

(* The counter _running is the number of tasks between their start and the *)
(* end of execute(), and stays within the concurrency.                     *)
SlotsAccounted == running = Cardinality(Running) /\ running <= Concurrency

(* The queue holds each waiting task once, in at most MaxSize places. *)
QueueExact ==
    /\ \A t \in Tasks : t \in Waiting <=> \E i \in 1..Len(queue) : queue[i] = t
    /\ \A i, j \in 1..Len(queue) : queue[i] = queue[j] => i = j
    /\ Len(queue) <= MaxSize

(* Tasks wait only while every slot is taken: no completion, refusal or    *)
(* clear() leaves a slot idle next to a waiting task.                      *)
WorkConserving == queue # <<>> => running = Concurrency

(* All of these together: the count, the list and the statuses agree. *)
QueueSound == QueueTypeOK /\ SlotsAccounted /\ QueueExact /\ WorkConserving

(* A task is refused only under full load: all slots taken and MaxSize     *)
(* tasks waiting, so Concurrency + MaxSize tasks are always admitted.      *)
RefusedOnlyWhenFull ==
    [][\A t \in Tasks : (status[t] # "refused" /\ status'[t] = "refused") =>
           /\ Cardinality(Running) = Concurrency
           /\ Cardinality(Waiting) = MaxSize]_queueVars

(* A waiting task starts only when those ahead of it in the queue start too. *)
StartsInOrder ==
    [][\A i, j \in 1..Len(queue) :
           (i < j /\ status'[queue[j]] = "running") => status'[queue[i]] = "running"]_queueVars

(* Every accepted task is run to its end or rejected by clear(). *)
EverySettles == \A t \in Tasks : (t \in Waiting) ~> (t \in Settled)

(* The queue is a task pool that calls each task at most once. *)
PhaseOf(s) ==
    CASE s = "new" -> "new"
      [] s = "waiting" -> "waiting"
      [] s = "running" -> "active"
      [] s \in {"fulfilled", "failed", "refused", "cleared"} -> "settled"

Pool == INSTANCE TaskPool
            WITH MaxAttempts <- 1,
                 attempts <- executed,
                 phase <- [t \in Tasks |-> PhaseOf(status[t])]

ImplementsPool == Pool!PoolSpec
=============================================================================
