--------------------------- MODULE RuntimeManager ---------------------------
(***************************************************************************)
(* src/application/runtime/RuntimeManager.ts: starting, stopping and       *)
(* reconnecting the runtime of one instance, whose session is the module   *)
(* InstanceSession.                                                        *)
(*                                                                         *)
(* The asynchronous calls under way (start, delete, a reconnection loop)   *)
(* are processes that run between two awaits without interruption; p.pc    *)
(* names the await at which a call is suspended:                           *)
(*   find     start():  repository.findById                                *)
(*   connect  start():  BaileysConnection.connect, before the socket       *)
(*   pairing  start():  socket.requestPairingCode                          *)
(*   stop     InstancesEraser: repository.delete, before stop()            *)
(*   backoff  handleReconnect(): the pause before an attempt               *)
(*   pause    restart(): the two seconds between stop() and start()        *)
(* stop() is one step: runtime.stop() awaits nothing.  Answers take any    *)
(* time; timers of the same length fire in the order they were set.        *)
(***************************************************************************)
EXTENDS InstanceSession, Sequences

CONSTANTS
    NoRuntime,      \* no entry in the registry
    Procs,          \* slots for calls under way
    MaxAttempts,    \* max of handleReconnect
    Closings,       \* the ways the server closes a socket
    Budget          \* how often each thing outside the code's control happens, and any of them

Outside == {"start", "stop", "delete", "close", "fail", "crash", "late", "any"}

ASSUME ManagerAssumption ==
    /\ NoRuntime \notin Runtimes
    /\ MaxAttempts \in Nat \ {0}
    /\ Closings \subseteq DisconnectType
    /\ Budget \in [Outside -> Nat]

VARIABLES
    registry,   \* RuntimeRegistry: the instance's entry
    restarting, \* _restarting has the instance
    procs,      \* the calls under way
    timers,     \* calls waiting for a two-second timer, in the order they were set
    left        \* what is left of Budget

vars == <<sessionVars, registry, restarting, procs, timers, left>>

Idle == [kind |-> "idle", pc |-> "idle", rt |-> NoRuntime, phone |-> FALSE, tries |-> 0]

Call == [kind  : {"idle", "start", "restore", "delete", "loop"},
         pc    : {"idle", "find", "connect", "pairing", "stop", "backoff", "pause"},
         rt    : Runtimes \cup {NoRuntime},
         phone : BOOLEAN,
         tries : 0..MaxAttempts]

(* restoreAll() starts the instance if its document says connected. *)
Restoring(p) == [q \in Procs |-> IF q = p THEN [Idle EXCEPT !.kind = "restore", !.pc = "find"]
                                          ELSE Idle]

Boot(ps, p, status) == ps = IF status = "connected" THEN Restoring(p) ELSE [q \in Procs |-> Idle]

Init ==
    /\ SessionInit
    /\ registry = NoRuntime
    /\ restarting = FALSE
    /\ timers = <<>>
    /\ left = Budget
    /\ \E p \in Procs : Boot(procs, p, doc)

Free(p)    == procs[p] = Idle
Booting    == \E p \in Procs : procs[p].kind = "restore"
At(p, pc)  == procs[p].pc = pc
Goto(p, c) == procs' = [procs EXCEPT ![p] = c]
Spend(w)   == /\ left[w] > 0 /\ left["any"] > 0
              /\ left' = [left EXCEPT ![w] = @ - 1, !["any"] = @ - 1]

(* The pause of p is over.  Only the first attempt and restart() wait for two *)
(* seconds.  A Mongo that has not answered everything by then is late.        *)
Longer(p) == At(p, "backoff") /\ procs[p].tries > 1
Due(p)    == Longer(p) \/ (timers # <<>> /\ p = Head(timers))
Patience  == IF inbox = {} THEN UNCHANGED left ELSE Spend("late")
Fired(p)  == IF Longer(p) THEN timers ELSE Tail(timers)

(* stop(): the registered runtime's socket ends and the entry goes. *)
StopNow(box) ==
    /\ registry' = NoRuntime
    /\ IF registry = NoRuntime THEN inbox' = box /\ UNCHANGED <<sock, events, wipes>>
                               ELSE EndSocket(registry, box)

(* Mutant: _restarting is not cleared. *)
ReturnRestarting(p) ==
    /\ Goto(p, Idle)
    /\ UNCHANGED restarting

(* The end of a call; the one of a reconnection loop ends restart() too. *)
Return(p) ==
    /\ Goto(p, Idle)
    /\ restarting' = (restarting /\ procs[p].kind # "loop")

(* Mutants: one attempt too many; none but the first. *)
ThrowOnceMore(p) ==
    \/ /\ procs[p].kind # "loop" \/ procs[p].tries > MaxAttempts
       /\ Return(p)
       /\ IF procs[p].kind = "loop" THEN StopNow(inbox)
                                    ELSE UNCHANGED <<sock, inbox, events, wipes, registry>>
    \/ /\ procs[p].kind = "loop" /\ procs[p].tries <= MaxAttempts
       /\ Goto(p, [procs[p] EXCEPT !.pc = "backoff", !.rt = NoRuntime, !.tries = @ + 1])
       /\ restarting' = FALSE
       /\ UNCHANGED <<sock, inbox, events, wipes, registry>>

ThrowGivesUp(p) ==
    /\ Return(p)
    /\ IF procs[p].kind = "loop" THEN StopNow(inbox)
                                 ELSE UNCHANGED <<sock, inbox, events, wipes, registry>>

(* A start() throws.  In a loop that ends restart(), and the loop pauses for *)
(* another attempt or, after the last one, stops the instance.               *)
Throw(p) ==
    \/ /\ procs[p].kind # "loop" \/ procs[p].tries = MaxAttempts
       /\ Return(p)
       /\ IF procs[p].kind = "loop" THEN StopNow(inbox)
                                    ELSE UNCHANGED <<sock, inbox, events, wipes, registry>>
    \/ /\ procs[p].kind = "loop" /\ procs[p].tries < MaxAttempts
       /\ Goto(p, [procs[p] EXCEPT !.pc = "backoff", !.rt = NoRuntime, !.tries = @ + 1])
       /\ restarting' = FALSE
       /\ UNCHANGED <<sock, inbox, events, wipes, registry>>

-----------------------------------------------------------------------------
(* Requests: InstancesConnect and InstancesCreator, InstancesDisconnect,  *)
(* InstancesEraser.  The server listens once restoreAll() is done.        *)
ApiStart(p, phone) ==
    /\ Free(p) /\ ~Booting /\ Spend("start")
    /\ registry = NoRuntime
    /\ Goto(p, [Idle EXCEPT !.kind = "start", !.pc = "find", !.phone = phone])
    /\ UNCHANGED <<sessionVars, registry, restarting, timers>>

ApiStop ==
    /\ ~Booting /\ Spend("stop")
    /\ StopNow(inbox)
    /\ UNCHANGED <<doc, creds, wired, bound, restarting, procs, timers>>

ApiDelete(p) ==
    /\ Free(p) /\ ~Booting /\ Spend("delete")
    /\ doc' = "absent"
    /\ Goto(p, [Idle EXCEPT !.kind = "delete", !.pc = "stop"])
    /\ UNCHANGED <<creds, sock, wired, bound, inbox, events, wipes,
                   registry, restarting, timers>>

Deleted(p) ==
    /\ At(p, "stop")
    /\ StopNow(inbox)
    /\ Goto(p, Idle)
    /\ UNCHANGED <<doc, creds, wired, bound, restarting, timers, left>>

(* start(): findById answers, the runtime is created and bound to the bus. *)
Find(p) ==
    /\ At(p, "find") /\ doc # "absent"
    /\ \E k \in Runtimes \ bound :
        /\ bound' = bound \cup {k}
        /\ Goto(p, [procs[p] EXCEPT !.pc = "connect", !.rt = k])
    /\ UNCHANGED <<doc, creds, sock, wired, inbox, events, wipes,
                   registry, restarting, timers, left>>

FindNothing(p) ==
    /\ At(p, "find") /\ doc = "absent"
    /\ Throw(p)
    /\ UNCHANGED <<doc, creds, wired, bound, timers, left>>

(* Mutant: no lifecycle is attached. *)
RegisterOnly(p) ==
    /\ registry' = procs[p].rt
    /\ Return(p)
    /\ UNCHANGED wired

(* connect() made the socket and listens to it; start() goes on to register *)
(* the runtime and to attach the lifecycle.                                 *)
Register(p) ==
    /\ wired' = wired \cup {procs[p].rt}
    /\ registry' = procs[p].rt
    /\ Return(p)

(* connect() reads the auth folder, awaits the version of Baileys, and uses *)
(* both: one await here.  That the socket writes its credentials back       *)
(* (saveCreds) is left out; creds changes when it pairs.                    *)
Connect(p) ==
    /\ At(p, "connect")
    /\ creds = "paired" \/ ~procs[p].phone
    /\ sock' = [sock EXCEPT ![procs[p].rt] = IF creds = "paired" THEN "opening" ELSE "fresh"]
    /\ Register(p)
    /\ UNCHANGED <<doc, creds, bound, inbox, events, wipes, timers, left>>

(* With a phone number and no credentials connect() asks for a pairing code *)
(* before it listens to the socket.                                         *)
AskPairing(p) ==
    /\ At(p, "connect")
    /\ creds = "empty" /\ procs[p].phone
    /\ sock' = [sock EXCEPT ![procs[p].rt] = "fresh"]
    /\ Goto(p, [procs[p] EXCEPT !.pc = "pairing"])
    /\ UNCHANGED <<doc, creds, wired, bound, inbox, events, wipes,
                   registry, restarting, timers, left>>

Paired(p) ==
    /\ At(p, "pairing")
    /\ procs[p].rt \in Live
    /\ Register(p)
    /\ UNCHANGED <<doc, creds, sock, bound, inbox, events, wipes, timers, left>>

PairingFails(p) ==
    /\ At(p, "pairing")
    /\ procs[p].rt \notin Live
    /\ Throw(p)
    /\ UNCHANGED <<doc, creds, wired, bound, timers, left>>

(* findById, connect() or requestPairingCode() throws. *)
StartFails(p) ==
    /\ procs[p].pc \in {"find", "connect", "pairing"}
    /\ Spend("fail")
    /\ Throw(p)
    /\ UNCHANGED <<doc, creds, wired, bound, timers>>

(* Mutant: _restarting is not looked at. *)
AttemptAnyway(p) ==
    /\ At(p, "backoff") /\ Due(p)
    /\ restarting' = TRUE
    /\ timers' = Append(Fired(p), p)
    /\ StopNow(inbox)
    /\ Goto(p, [procs[p] EXCEPT !.pc = "pause"])
    /\ Patience
    /\ UNCHANGED <<doc, creds, wired, bound>>

(* handleReconnect(): after the pause, restart() unless one is under way. *)
Attempt(p) ==
    /\ At(p, "backoff") /\ Due(p) /\ ~restarting
    /\ restarting' = TRUE
    /\ timers' = Append(Fired(p), p)
    /\ StopNow(inbox)
    /\ Goto(p, [procs[p] EXCEPT !.pc = "pause"])
    /\ Patience
    /\ UNCHANGED <<doc, creds, wired, bound>>

AttemptSkipped(p) ==
    /\ At(p, "backoff") /\ Due(p) /\ restarting
    /\ timers' = Fired(p)
    /\ Goto(p, Idle)
    /\ Patience
    /\ UNCHANGED <<sessionVars, registry, restarting>>

(* restart(): start() after the pause; nothing to do if an entry appeared. *)
StartAgain(p) ==
    /\ At(p, "pause") /\ Due(p)
    /\ timers' = Fired(p)
    /\ IF registry = NoRuntime
       THEN Goto(p, [procs[p] EXCEPT !.pc = "find"]) /\ UNCHANGED restarting
       ELSE Return(p)
    /\ Patience
    /\ UNCHANGED <<sessionVars, registry>>

(* The rest of a 'disconnected' listener calls the handler, if it is set. *)
Reconnect(m, p) ==
    /\ m \in inbox /\ m.stage = "publish"
    /\ m.rt \in wired /\ m.event = "TRANSIENT" /\ Free(p)
    /\ inbox' = inbox \ {m}
    /\ Goto(p, [Idle EXCEPT !.kind = "loop", !.pc = "backoff", !.tries = 1])
    /\ timers' = Append(timers, p)
    /\ UNCHANGED <<doc, creds, sock, wired, bound, events, wipes,
                   registry, restarting, left>>

SessionLost(m) ==
    /\ m \in inbox /\ m.stage = "publish"
    /\ m.rt \in wired /\ m.event # "TRANSIENT"
    /\ StopNow(inbox \ {m})
    /\ UNCHANGED <<doc, creds, wired, bound, restarting, procs, timers, left>>

NoHandler(m) ==
    /\ m \in inbox /\ m.stage = "publish"
    /\ m.rt \notin wired
    /\ inbox' = inbox \ {m}
    /\ UNCHANGED <<doc, creds, sock, wired, bound, events, wipes,
                   registry, restarting, procs, timers, left>>

(* The session's own steps. *)
Manager == <<registry, restarting, procs, timers, left>>

Opens  == (\E k \in Runtimes : Open(k)) /\ UNCHANGED Manager
Pairs  == (\E k \in Runtimes : Pair(k)) /\ UNCHANGED Manager
Wipes  == Wipe /\ UNCHANGED Manager

(* Mongo applies an update; before an earlier one if it is late. *)
Stores ==
    /\ \E m \in inbox : Update(m) /\ IF InTurn(m) THEN UNCHANGED left ELSE Spend("late")
    /\ UNCHANGED <<registry, restarting, procs, timers>>

Closes(k, e) ==
    /\ Spend("close")
    /\ ServerCloses(k, e)
    /\ UNCHANGED <<registry, restarting, procs, timers>>

(* The process dies (an unhandled rejection is enough) and boots again. *)
Crash(p) ==
    /\ Spend("crash")
    /\ SessionCrash
    /\ registry' = NoRuntime
    /\ restarting' = FALSE
    /\ timers' = <<>>
    /\ Boot(procs', p, doc)

(* Nothing is under way: the instance waits for a request or for a close. *)
AtRest == /\ \A p \in Procs : Free(p)
          /\ inbox = {} /\ wipes = 0
          /\ \A k \in wired : sock[k] # "opening"

(* A call needs a runtime, or a listener a call, and all of the model's are *)
(* in use: an end of the bounded exploration.                               *)
OutOfBounds == \/ bound = Runtimes /\ \E p \in Procs : At(p, "find")
               \/ inbox # {} /\ \A p \in Procs : ~Free(p)

Wait == (AtRest \/ OutOfBounds) /\ UNCHANGED vars

Calls(p) ==
    \/ Find(p) \/ FindNothing(p) \/ Connect(p) \/ AskPairing(p) \/ Paired(p)
    \/ PairingFails(p) \/ Deleted(p) \/ Attempt(p) \/ AttemptSkipped(p) \/ StartAgain(p)

Handlers(m) == (\E p \in Procs : Reconnect(m, p)) \/ SessionLost(m) \/ NoHandler(m)

Requests(p) == (\E phone \in BOOLEAN : ApiStart(p, phone)) \/ ApiDelete(p)

Next ==
    \/ \E p \in Procs : Calls(p) \/ Requests(p) \/ StartFails(p) \/ Crash(p)
    \/ \E m \in inbox : Handlers(m)
    \/ \E k \in Runtimes, e \in Closings : Closes(k, e)
    \/ ApiStop \/ Opens \/ Pairs \/ Stores \/ Wipes \/ Wait

Spec == Init /\ [][Next]_vars

(* Timers fire, the database and Baileys answer, paired sockets open; no *)
(* phone has to pair, and nothing has to fail.                           *)
Fairness ==
    /\ \A p \in Procs : WF_vars(Calls(p))
    /\ WF_vars(\E m \in inbox : Handlers(m))
    /\ WF_vars(Stores)
    /\ WF_vars(Wipes)
    /\ WF_vars(Opens)

FairSpec == Spec /\ Fairness
-----------------------------------------------------------------------------
(* Every variable has the values the code can give it. *)
TypeOK ==
    /\ SessionTypeOK
    /\ registry \in Runtimes \cup {NoRuntime}
    /\ restarting \in BOOLEAN
    /\ procs \in [Procs -> Call]
    /\ timers \in Seq(Procs)
    /\ left \in [Outside -> Nat]

(* _restarting holds the instance exactly while one reconnection loop is in *)
(* restart(): its finally clause is reached on every path, and two loops    *)
(* never stop and start the instance at the same time.                      *)
InRestart == {p \in Procs : procs[p].kind = "loop" /\ procs[p].pc \in {"pause", "find", "connect"}}

RestartExclusive ==
    /\ \A p, q \in InRestart : p = q
    /\ restarting <=> InRestart # {}

(* A runtime in the registry can be stopped and hears of its own end: its *)
(* socket exists, is listened to, and has the lifecycle attached.         *)
RegisteredIsWired ==
    registry # NoRuntime => /\ registry \in wired \cap bound
                            /\ sock[registry] # "none"

(* The types, the exclusion of restarts and the wiring, together. *)
RuntimeSound == TypeOK /\ RestartExclusive /\ RegisteredIsWired

(* An update by a runtime that outlives its instance never brings back the *)
(* document that InstancesEraser deleted.                                  *)
DeletedForGood == [][doc = "absent" => doc' = "absent"]_vars

(* An instance has at most one live socket: start() makes none while one *)
(* is registered or being made.                                          *)
NotStartedTwice == \A j, k \in Live : j = k

(* The reconnection loops, restoreAll() and stop() by themselves keep to *)
(* that: as long as nobody asked for a start there is one live socket,   *)
(* whatever was lost, failed, stopped or deleted.                        *)
OneSocket == left["start"] = Budget["start"] => NotStartedTwice

(* As long as Mongo was never late: once nothing is under way and a socket *)
(* has opened or closed since boot, the document says connected only if a  *)
(* socket is open.                                                         *)
StatusTruthful ==
    (left["late"] = Budget["late"] /\ AtRest /\ events > 0 /\ doc = "connected")
        => \E k \in Runtimes : sock[k] = "open"

(* After a disconnect request that no connect request follows, the instance *)
(* comes to rest with no live socket.                                       *)
DisconnectHolds == AtRest /\ left["stop"] < Budget["stop"] => Live = {}

(* The credentials of a paired session are removed only because WhatsApp    *)
(* refused it: where every loss is transient they stay.                     *)
SessionKept == [][creds = "paired" => creds' = "paired"]_vars

(* Every restart() ends. *)
RestartsEnd == restarting ~> ~restarting

(* An instance that was started and is paired is, or ends up, connected. *)
Reconnects ==
    (registry # NoRuntime /\ creds = "paired")
        ~> (registry # NoRuntime /\ sock[registry] = "open")

(* All three: the session survives the losses, no loop is left behind, and *)
(* the connection comes back.                                              *)
Recovers == SessionKept /\ RestartsEnd /\ Reconnects
=============================================================================
