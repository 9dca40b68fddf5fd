-------------------------- MODULE HttpBackpressure --------------------------
(***************************************************************************)
(* src/infrastructure/http/middlewares/BackpressureMiddleware.ts on top of *)
(* BoundedQueue: each HTTP request is a task that calls next() and is over *)
(* when its response emits 'finish' or 'close'.                            *)
(*                                                                         *)
(* The listeners are registered when the task starts, not when the request *)
(* arrives.  Node emits 'close' once and no 'finish' after it (external),  *)
(* so a request whose client left while it waited never ends its task.     *)
(***************************************************************************)
EXTENDS BoundedQueue

CONSTANT Impatient      \* requests whose client may leave while they wait

ASSUME ImpatientAssumption == Impatient \subseteq Tasks

VARIABLES
    conn,       \* conn[r]: the response, as its client sees it
    handler     \* handler[r]: the request handlers behind next()

vars == <<queue, running, status, executed, conn, handler>>

Init ==
    /\ QueueInit
    /\ conn = [r \in Tasks |-> "none"]
    /\ handler = [r \in Tasks |-> "idle"]

(* The tasks that process() starts register their listeners and call next(). *)
HandlersAfter(done) ==
    [r \in Tasks |-> IF r \in done THEN "done"
                     ELSE IF status[r] # "running" /\ status'[r] = "running"
                          THEN "executing" ELSE handler[r]]

(* A request reaches the middleware and is queued, or started at once. *)
Admit(r) ==
    /\ conn[r] = "none"
    /\ Add(r)
    /\ conn' = [conn EXCEPT ![r] = "open"]
    /\ handler' = HandlersAfter({})

(* The queue is full: QueueFullError becomes a ServiceOverloadedError, *)
(* which the error handler answers with 503.                           *)
Overloaded(r) ==
    /\ conn[r] = "none"
    /\ Refuse(r)
    /\ conn' = [conn EXCEPT ![r] = "answered"]
    /\ UNCHANGED handler

(* The handler answers an open response: 'finish' ends the task. *)
Answer(r) ==
    /\ handler[r] = "executing"
    /\ conn[r] = "open"
    /\ Complete(r, "fulfilled")
    /\ conn' = [conn EXCEPT ![r] = "answered"]
    /\ handler' = HandlersAfter({r})

(* Mutant: the task ends a second time. *)
AnswerNobodyTwice(r) ==
    /\ handler[r] = "executing"
    /\ conn[r] = "closed"
    /\ handler' = [handler EXCEPT ![r] = "done"]
    /\ running' = running - 1
    /\ UNCHANGED <<queue, status, executed, conn>>

(* The handler answers a closed response: nothing is emitted. *)
AnswerNobody(r) ==
    /\ handler[r] = "executing"
    /\ conn[r] = "closed"
    /\ handler' = [handler EXCEPT ![r] = "done"]
    /\ UNCHANGED <<queueVars, conn>>

(* Mutant: only 'finish' ends the task. *)
LeaveUnheard(r) ==
    /\ conn[r] = "open"
    /\ status[r] = "running"
    /\ conn' = [conn EXCEPT ![r] = "closed"]
    /\ UNCHANGED <<queueVars, handler>>

(* The client leaves while its request is handled: 'close' ends the task. *)
LeaveRunning(r) ==
    /\ conn[r] = "open"
    /\ status[r] = "running"
    /\ Complete(r, "fulfilled")
    /\ conn' = [conn EXCEPT ![r] = "closed"]
    /\ handler' = HandlersAfter({})

(* The client leaves while its request waits: nobody listens to 'close'. *)
LeaveWaiting(r) ==
    /\ r \in Impatient
    /\ conn[r] = "open"
    /\ status[r] = "waiting"
    /\ conn' = [conn EXCEPT ![r] = "closed"]
    /\ UNCHANGED <<queueVars, handler>>

(* No request is to come and no handler executes: nothing can happen but a *)
(* client leaving.                                                         *)
Over(r) == conn[r] # "none" /\ handler[r] # "executing"

Quiet == (\A r \in Tasks : Over(r)) /\ UNCHANGED vars

Next ==
    \/ \E r \in Tasks : \/ Admit(r) \/ Overloaded(r) \/ Answer(r)
                        \/ AnswerNobody(r) \/ LeaveRunning(r) \/ LeaveWaiting(r)
    \/ Quiet

(* Handlers answer; nothing obliges a client to leave or a request to come. *)
Fairness == \A r \in Tasks : WF_vars(Answer(r) \/ AnswerNobody(r))

Spec == Init /\ [][Next]_vars /\ Fairness
-----------------------------------------------------------------------------
(* Every variable has the values the code, Node or a client can give it. *)
TypeOK ==
    /\ QueueTypeOK
    /\ conn \in [Tasks -> {"none", "open", "answered", "closed"}]
    /\ handler \in [Tasks -> {"idle", "executing", "done"}]

(* A slot held for a request that is over was lost to a client that left    *)
(* while the request waited, and to nothing else: finish and close together *)
(* never fail to free a slot otherwise, nor free it twice, so no more than  *)
(* Concurrency clients are served at a time.                                *)
SlotsLostOnlyToLeavers ==
    /\ TypeOK
    /\ \A r \in Tasks : (status[r] = "running" /\ conn[r] # "open")
                            => (r \in Impatient /\ conn[r] = "closed")
    /\ \A r \in Tasks : (status[r] = "fulfilled")
                            => (conn[r] = "answered" \/ conn[r] = "closed")
    /\ Cardinality({r \in Tasks : handler[r] = "executing" /\ conn[r] = "open"}) <= Concurrency

(* A request whose client stays is answered, as long as fewer clients than  *)
(* there are slots leave while their requests wait.                         *)
PatientAnswered ==
    Cardinality(Impatient) < Concurrency =>
        \A r \in Tasks : (conn[r] = "open") ~> (conn[r] \in {"answered", "closed"})

(* BoundedQueue.ts:47 calls runningCount the "Number of tasks currently     *)
(* executing": no slot is counted for a request whose handler is done.      *)
RunningMeansExecuting ==
    \A r \in Tasks : status[r] = "running" => handler[r] = "executing"
=============================================================================
