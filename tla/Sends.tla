--------------------------------- MODULE Sends ---------------------------------
(***************************************************************************)
(* src/application/services/MessageOrchestrator.ts over the limiter of one *)
(* instance: send() looks up the runtime once, then hands the limiter a    *)
(* task (type, send with a timeout, publish, pause) up to Tries times.     *)
(*                                                                         *)
(* Texts of the API (TextMessageSender.ts:26) are sent by a call nobody    *)
(* awaits; sendBulk() and the campaign workers await one send after the    *)
(* other and go on after a failure.  Nobody awaits publish() either, which *)
(* stores the message (StoreOutgoingMessageSubscriber.ts:15) while the task *)
(* and send() go on.  A rejection nobody awaits ends the process           *)
(* (index.ts:119).                                                         *)
(*                                                                         *)
(* A task of the limiter is a send and the number of its try; the actions  *)
(* of BaileysRateLimiter settle it.  The pauses of the orchestrator itself *)
(* (500 ms between tries, 0.5 s and more between the sends of a list) may  *)
(* end at any time.                                                        *)
(***************************************************************************)
EXTENDS BaileysRateLimiter

CONSTANTS
    Sends,      \* the calls of send()
    Texts,      \* those the API makes and does not await
    List,       \* the others, in the order sendBulk() makes them
    Tries,      \* retries + 1 of withRetry()
    Runtimes,   \* the runtimes the instance has, one after the other
    NoRuntime   \* no runtime is registered

ASSUME SendsAssumption ==
    /\ Tries \in Nat \ {0}
    /\ Tasks = Sends \X (1..Tries)
    /\ Texts \subseteq Sends
    /\ List \in Seq(Sends)
    /\ NoRuntime \notin Runtimes

VARIABLES
    call,       \* call[s]: how far send() is
    try,        \* try[s]: which call of withRetry() it is at
    runtime,    \* runtime[s]: the runtime it looked up
    stage,      \* stage[s]: how far its task is, while the limiter runs it
    confirmed,  \* history: results of sendText() the task went on with
    out,        \* history: messages given up that have arrived or may still
    storing,    \* sends whose published message is being stored
    current,    \* the registered runtime
    used,       \* history: runtimes that were registered
    alive       \* the process

sendVars == <<call, try, runtime, stage, confirmed, out, storing, current, used, alive>>
allVars  == <<vars, sendVars>>

Pending(s) == call[s] \in {"limiter", "pause"}
Over(s)    == call[s] \in {"sent", "failed"}

(* A task waits while it types, while sendText() is under way on its socket  *)
(* or was called on one that had ended, and while it rests after the send.   *)
Stages == {"idle", "typing", "sending", "closed", "after"}

SendsInit ==
    /\ Init
    /\ call = [s \in Sends |-> "none"]
    /\ try = [s \in Sends |-> 0]
    /\ runtime = [s \in Sends |-> NoRuntime]
    /\ stage = [s \in Sends |-> "idle"]
    /\ confirmed = [s \in Sends |-> 0]
    /\ out = [s \in Sends |-> 0]
    /\ storing = {}
    /\ current \in Runtimes
    /\ used = {current}
    /\ alive = TRUE

(* The task of send s, and the stages after a step of the limiter: the task *)
(* it starts begins to type, and the one that gave its slot back is over.   *)
Task(s) == <<s, try[s]>>

StageAfter ==
    stage' = [s \in Sends |->
                 IF \E k \in 1..Tries : status'[<<s, k>>] = "running" /\ status[<<s, k>>] # "running"
                 THEN "typing"
                 ELSE IF \E k \in 1..Tries : status'[<<s, k>>] = "running"
                      THEN stage[s] ELSE "idle"]

(* sendBulk() makes its calls one after the other, whatever became of them. *)
MayCall(s) ==
    \/ s \in Texts
    \/ \E i \in 1..Len(List) : List[i] = s /\ \A j \in 1..(i - 1) : Over(List[j])

(* Mutant: no caller catches the rejection. *)
FailsUncaught(s) ==
    /\ call' = [call EXCEPT ![s] = "failed"]
    /\ alive' = FALSE

(* A rejection of send() is counted by its caller, or ends the process. *)
Fails(s) ==
    /\ call' = [call EXCEPT ![s] = "failed"]
    /\ alive' = (s \notin Texts)

(* send(): without a registered runtime it rejects at once. *)
SendNowhere(s) ==
    /\ alive /\ call[s] = "none" /\ MayCall(s)
    /\ current = NoRuntime
    /\ Fails(s)
    /\ UNCHANGED <<vars, try, runtime, stage, confirmed, out, storing, current, used>>

Send(s) ==
    /\ alive /\ call[s] = "none" /\ MayCall(s)
    /\ current # NoRuntime
    /\ runtime' = [runtime EXCEPT ![s] = current]
    /\ call' = [call EXCEPT ![s] = "limiter"]
    /\ try' = [try EXCEPT ![s] = 1]
    /\ Run(<<s, 1>>)
    /\ StageAfter
    /\ UNCHANGED <<confirmed, out, storing, current, used, alive>>

(* simulateTyping() ends, whether or not its presence updates failed, and   *)
(* sendText() is called: the runtime the send looked up has a live socket   *)
(* if it is still the registered one.                                       *)
Typed(s) ==
    /\ alive /\ stage[s] = "typing"
    /\ stage' = [stage EXCEPT ![s] = IF runtime[s] = current THEN "sending" ELSE "closed"]
    /\ UNCHANGED <<vars, call, try, runtime, confirmed, out, storing, current, used, alive>>

(* sendText() has a result in time: the event is published, not awaited,    *)
(* whatever became of the runtime since.                                    *)
Confirm(s) ==
    /\ alive /\ stage[s] = "sending"
    /\ confirmed' = [confirmed EXCEPT ![s] = @ + 1]
    /\ storing' = storing \cup {s}
    /\ stage' = [stage EXCEPT ![s] = "after"]
    /\ UNCHANGED <<vars, call, try, runtime, out, current, used, alive>>

(* The message is stored, or storing it fails: at any time after, also when *)
(* send() has returned.  Nobody awaits that.                                *)
Stores(s) ==
    /\ alive /\ s \in storing
    /\ storing' = storing \ {s}
    /\ UNCHANGED <<vars, call, try, runtime, stage, confirmed, out, current, used, alive>>

StoreFails(s) ==
    /\ alive /\ s \in storing
    /\ alive' = FALSE
    /\ UNCHANGED <<vars, call, try, runtime, stage, confirmed, out, storing, current, used>>

(* Mutant: the pause after a send can fail. *)
RestFails(s) ==
    /\ alive /\ stage[s] \in {"sending", "closed", "after"}
    /\ UNCHANGED out
    /\ Pause(Task(s)) \/ Reject(Task(s))
    /\ StageAfter
    /\ IF status'[Task(s)] # "rejected" THEN UNCHANGED <<call, alive>>
       ELSE IF try[s] < Tries THEN call' = [call EXCEPT ![s] = "pause"] /\ UNCHANGED alive
       ELSE Fails(s)
    /\ UNCHANGED <<try, runtime, confirmed, storing, current, used>>

(* sendText() rejects, has no result, or takes too long.  The message may   *)
(* have gone out, or still go: the race does not cancel it, and turning it  *)
(* into a result may throw; it is counted by the stage it was called in.  A *)
(* socket that had ended sends nothing.                                     *)
Misses(s) ==
    /\ alive /\ stage[s] \in {"sending", "closed"}
    /\ \/ stage[s] = "sending" /\ out' = [out EXCEPT ![s] = @ + 1]
       \/ UNCHANGED out
    /\ Pause(Task(s)) \/ Reject(Task(s))
    /\ StageAfter
    /\ IF status'[Task(s)] # "rejected" THEN UNCHANGED <<call, alive>>
       ELSE IF try[s] < Tries THEN call' = [call EXCEPT ![s] = "pause"] /\ UNCHANGED alive
       ELSE Fails(s)
    /\ UNCHANGED <<try, runtime, confirmed, storing, current, used>>

(* simulateAfterSend() ends, the task fulfils, and with it send(). *)
Rested(s) ==
    /\ alive /\ stage[s] = "after"
    /\ Resolve(Task(s))
    /\ StageAfter
    /\ call' = [call EXCEPT ![s] = "sent"]
    /\ UNCHANGED <<try, runtime, confirmed, out, storing, current, used, alive>>

(* Mutant: the next try begins without its pause and without the task's end. *)
TryAgainAtOnce(s) ==
    /\ alive /\ call[s] = "limiter" /\ stage[s] = "idle" /\ try[s] < Tries
    /\ call' = [call EXCEPT ![s] = "limiter"]
    /\ try' = [try EXCEPT ![s] = @ + 1]
    /\ Run(<<s, try[s] + 1>>)
    /\ StageAfter
    /\ UNCHANGED <<runtime, confirmed, out, storing, current, used, alive>>

(* withRetry() calls the limiter once more, at the end of its queue. *)
TryAgain(s) ==
    /\ alive /\ call[s] = "pause"
    /\ call' = [call EXCEPT ![s] = "limiter"]
    /\ try' = [try EXCEPT ![s] = @ + 1]
    /\ Run(<<s, try[s] + 1>>)
    /\ StageAfter
    /\ UNCHANGED <<runtime, confirmed, out, storing, current, used, alive>>

(* The limiter's own steps. *)
Pump ==
    /\ alive
    /\ Wake
    /\ StageAfter
    /\ UNCHANGED <<call, try, runtime, confirmed, out, storing, current, used, alive>>

Unpause(s) ==
    /\ alive /\ call[s] = "limiter"
    /\ Requeue(Task(s))
    /\ StageAfter
    /\ UNCHANGED <<call, try, runtime, confirmed, out, storing, current, used, alive>>

Pass ==
    /\ alive
    /\ Tick
    /\ UNCHANGED sendVars

(* The instance loses its runtime, and gets another (RuntimeManager). *)
Unregister ==
    /\ alive /\ current # NoRuntime
    /\ current' = NoRuntime
    /\ UNCHANGED <<vars, call, try, runtime, stage, confirmed, out, storing, used, alive>>

Register ==
    /\ alive /\ current = NoRuntime
    /\ \E r \in Runtimes \ used : current' = r /\ used' = used \cup {r}
    /\ UNCHANGED <<vars, call, try, runtime, stage, confirmed, out, storing, alive>>

SendsNext ==
    \/ \E s \in Sends :
        \/ SendNowhere(s) \/ Send(s) \/ Typed(s) \/ Confirm(s) \/ Stores(s) \/ StoreFails(s)
        \/ Misses(s) \/ Rested(s) \/ TryAgain(s) \/ Unpause(s)
    \/ Pump \/ Pass \/ Unregister \/ Register

(* Timers fire; a sendText() has a result or is given up after ten seconds; *)
(* a caller goes through its list.                                          *)
SendsFairness ==
    /\ WF_allVars(Pump)
    /\ WF_allVars(Pass)
    /\ \A s \in Sends :
        /\ WF_allVars(Typed(s)) /\ WF_allVars(Confirm(s) \/ Misses(s))
        /\ WF_allVars(Rested(s)) /\ WF_allVars(TryAgain(s)) /\ WF_allVars(Unpause(s))
        /\ s \notin Texts => WF_allVars(SendNowhere(s) \/ Send(s))

SendsSpec     == SendsInit /\ [][SendsNext]_allVars
SendsFairSpec == SendsSpec /\ SendsFairness
-----------------------------------------------------------------------------
(* The variables keep their types, and a send is in the limiter exactly      *)
(* while the task of its current try has not settled: withRetry() never has  *)
(* two tasks of one send under way.                                          *)
SendsSound ==
    /\ call \in [Sends -> {"none", "limiter", "pause", "sent", "failed"}]
    /\ try \in [Sends -> 0..Tries]
    /\ runtime \in [Sends -> Runtimes \cup {NoRuntime}]
    /\ stage \in [Sends -> Stages]
    /\ confirmed \in [Sends -> Nat] /\ out \in [Sends -> Nat]
    /\ current \in Runtimes \cup {NoRuntime} /\ used \subseteq Runtimes
    /\ storing \subseteq Sends
    /\ \A s \in Sends, k \in 1..Tries :
        /\ status[<<s, k>>] = "new" <=> k > try[s]
        /\ k < try[s] => status[<<s, k>>] = "rejected"
        /\ k = try[s] => (call[s] = "limiter" <=>
                              status[<<s, k>>] \in {"queued", "running", "backoff"})

(* A message is confirmed once at most, and every further copy was out when *)
(* its try was given up: at most one for each of the Tries * (MaxRetries+1) *)
(* times the limiter ran the task.  A send that returns was confirmed, and  *)
(* one that was confirmed never fails.                                      *)
CopiesExplained ==
    \A s \in Sends :
        /\ confirmed[s] <= 1
        /\ confirmed[s] + out[s] <= Tries * (MaxRetries + 1)
        /\ call[s] = "sent" => confirmed[s] = 1
        /\ call[s] = "failed" => confirmed[s] = 0

(* With one slot, a send that was called later returns first only if the    *)
(* earlier one had a whole task rejected and went back to the end of the    *)
(* limiter's queue.                                                         *)
OvertakenOnlyByRetry ==
    Concurrency = 1 =>
        \A s, u \in Sends :
            ( /\ try[s] > 0 /\ try[u] > 0
              /\ ticket[<<s, 1>>] < ticket[<<u, 1>>]
              /\ call[u] = "sent" ) =>
            (call[s] = "sent" \/ status[<<s, 1>>] = "rejected")

(* The process dies of a confirmed message whose storing nobody awaits,     *)
(* however long ago it was sent; or of a text of the API, and of that only  *)
(* when the instance had no runtime or every try of every task failed.  No  *)
(* send of a list kills it.                                                 *)
DeathsExplained ==
    [][(alive /\ ~alive') =>
        \E s \in Sends :
            \/ s \in storing /\ confirmed[s] = 1
            \/ s \in Texts /\ call[s] = "none" /\ current = NoRuntime
            \/ s \in Texts /\ \A k \in 1..Tries : attempts[<<s, k>>] = MaxRetries + 1]_allVars

(* Nobody waits for ever: a send that was called returns or fails, and a    *)
(* list is worked through to its end, unless the process dies.              *)
SendsEnd ==
    /\ \A s \in Sends : Pending(s) ~> (Over(s) \/ ~alive)
    /\ <>((\A i \in 1..Len(List) : Over(List[i])) \/ ~alive)
=============================================================================
