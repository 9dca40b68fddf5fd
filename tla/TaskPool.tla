------------------------------ MODULE TaskPool ------------------------------
(***************************************************************************)
(* What a pool of asynchronous tasks promises the code that hands it work: *)
(* a task runs in one of at most Concurrency slots, it is executed at most *)
(* MaxAttempts times, and its promise is settled once and for good.  How   *)
(* tasks queue, wait for a slot or back off is left to the implementation. *)
(*                                                                         *)
(* BaileysRateLimiter (MaxAttempts = retries + 1) and BoundedQueue         *)
(* (MaxAttempts = 1) are both shown to implement this specification.       *)
(***************************************************************************)
EXTENDS Integers, FiniteSets

CONSTANTS Tasks, Concurrency, MaxAttempts

VARIABLES
    phase,      \* phase[t]: where the caller's promise for task t stands
    attempts    \* attempts[t]: how often the task function has been called

poolVars == <<phase, attempts>>

Phase == {"new", "waiting", "active", "settled"}

PoolInit ==
    /\ phase = [t \in Tasks |-> "new"]
    /\ attempts = [t \in Tasks |-> 0]

(* A task not in a slot may be accepted, refused, dropped, or may begin. *)
Rest(t)   == phase'[t] = phase[t] /\ attempts'[t] = attempts[t]
Accept(t) == phase[t] = "new" /\ phase'[t] = "waiting" /\ attempts'[t] = attempts[t]
Drop(t)   == phase[t] \in {"new", "waiting"} /\ phase'[t] = "settled"
                 /\ attempts'[t] = attempts[t]
Begin(t)  == phase[t] # "settled" /\ phase'[t] = "active"
                 /\ attempts[t] < MaxAttempts /\ attempts'[t] = attempts[t] + 1

(* A task in a slot may give the slot back for a later attempt, or settle. *)
Yield(t)  == phase[t] = "active" /\ phase'[t] = "waiting" /\ attempts'[t] = attempts[t]
                 /\ attempts[t] < MaxAttempts
Settle(t) == phase[t] = "active" /\ phase'[t] = "settled" /\ attempts'[t] = attempts[t]

(* One step of a pool may move several tasks: a slot freed by one task is *)
(* taken by the next one in the same synchronous piece of code.           *)
PoolNext ==
    /\ \A t \in Tasks : \/ Rest(t) \/ Accept(t) \/ Drop(t)
                        \/ Begin(t) \/ Yield(t) \/ Settle(t)
    /\ Cardinality({t \in Tasks : phase'[t] = "active"}) <= Concurrency

PoolSpec == PoolInit /\ [][PoolNext]_poolVars
=============================================================================
