--------------------------------- MODULE Api ---------------------------------
(***************************************************************************)
(* The requests of the API under way together: each runs the steps of its  *)
(* endpoint (Endpoints.tla), up to the next await in one turn, over the    *)
(* documents, the registry of runtimes, the stored groups and the          *)
(* flow they share.                                                        *)
(*                                                                         *)
(* A read or write of the database, and a call of the socket, takes place  *)
(* at one moment (Settle) and the handler goes on at a later one (Resume). *)
(* External: Mongo, which applies a write or reports its failure, and      *)
(* WhatsApp, which may carry out a call and still answer too late or with  *)
(* an error; one may be lost, but each settles (BaileysMessageService      *)
(* gives up after ten seconds).                                            *)
(*                                                                         *)
(* The life of a connection goes on beside the requests: its events are    *)
(* heard by listeners that update the document and nobody awaits, and a    *)
(* loss begins a reconnection loop, which stops the runtime and starts it  *)
(* again.  RuntimeManager has their numbers, times and sockets; here what  *)
(* is at one point for one instance is one or several of its kind, and how *)
(* often a loop has tried is not counted.  Left out: the queue before the  *)
(* controllers, in HttpBackpressure; the tasks of the orchestrator, in     *)
(* Sends; messages, in IncomingMessages and InstanceEvents; QR and pairing *)
(* codes.                                                                  *)
(***************************************************************************)
EXTENDS Endpoints, FiniteSets, Naturals

CONSTANTS
    Requests,   \* the requests, each the id of the instance it would create
    Known,      \* the instance there may be before them
    Menu,       \* Menu[r]: the endpoints request r may be for
    KnownName,  \* its name
    Names,      \* Names[r]: the names r may ask for, if it creates an instance
    Before,     \* what there may be before them, see Beginning
    Events      \* bound: how often a connection opens or closes by itself

Ids == Requests \cup {Known}

(* The document of Known and whether it has a runtime, the stored groups   *)
(* and the flow.                                                           *)
Beginning ==
    [doc : {"absent", "disconnected", "connected"}, registry : SUBSET {Known},
     groups : SUBSET {Known}, flow : {"absent", "active"}]

ASSUME ApiAssumption ==
    /\ IsFiniteSet(Requests) /\ Known \notin Requests
    /\ Before \subseteq Beginning
    /\ \A r \in Requests : Menu[r] \subseteq DOMAIN Endpoint
    /\ Events \in Nat

(* What a socket tells: it is open, or closed, so that the runtime is to   *)
(* reconnect (TRANSIENT), or not (INVALID_SESSION, LOGGED_OUT).            *)
Kind == {"open", "transient", "lost"}

(* Where a reconnection loop can be: before a try; in restart, between its *)
(* stop and its start; in that start, at its query and at its connect.     *)
Point == {"pausing", "stopped", "finding", "connecting"}

VARIABLES
    req,        \* the requests, see Request
    doc,        \* doc[i]: "absent" or the status in the document
    registry,   \* the instances that have a runtime
    groups,     \* the instances whose groups are stored
    flow,       \* the flow: "absent", "active" or "inactive"
    loose,      \* calls nobody waits for: <<request, "send" or "syncChats">>
    alive,      \* the process
    updates,    \* <<i, kind>>: a listener's update of i's document is out
    loops,      \* <<i, point>>: a reconnection loop of i is at the point
    stray,      \* the instances with a runtime another was registered over
    late,       \* history: deleted while a loop that had found them connected
    left        \* how many events may still come

connections == <<updates, loops, stray, late, left>>
vars == <<req, doc, registry, groups, flow, loose, alive, connections>>

Fault  == ErrorClass \cup {"none"}
Status == {0, 200, 201, 202, 400, 401, 403, 422, 500, 503}

Steps(q) == Endpoint[q.to].steps
Step(r)  == Steps(req[r])[req[r].pc]
IdOf(r, q) == IF q.to = "createInstance" THEN r ELSE q.about
Id(r)      == IdOf(r, req[r])

NameOf(i) == IF i = Known THEN KnownName ELSE req[i].name

-----------------------------------------------------------------------------
(* One turn of a handler. *)

(* Mutant: an instance is taken for stopped while it runs. *)
HoldsRegistered(c, i, copy) ==
    \/ c \in {"registered", "unregistered"} /\ i \in registry
    \/ c = "found" /\ copy # "absent"

Holds(c, i, copy) ==
    \/ c = "registered" /\ i \in registry
    \/ c = "unregistered" /\ i \notin registry
    \/ c = "found" /\ copy # "absent"

(* What step s of request q, about instance i, throws in the turn that     *)
(* reaches it.                                                             *)
Throws(s, q, i, copy) ==
    CASE s.do = "validate" ->
            IF \/ q.wrong \in s.arg
               \/ \E f \in s.arg : f[1] = "params" /\ f[2] \notin Endpoint[q.to].path
            THEN s.error ELSE "none"
      [] s.do = "refuse"  -> IF s.arg = q.wrong THEN s.error ELSE "none"
      [] s.do = "param"   -> IF s.arg \notin Endpoint[q.to].path THEN s.error ELSE "none"
      [] s.do = "found"   -> IF copy # "absent" THEN s.error ELSE "none"
      [] s.do = "absent"  -> IF copy = "absent" THEN s.error ELSE "none"
      [] s.do = "offline" -> IF copy # "connected" THEN s.error ELSE "none"
      [] s.do = "runtime" -> IF i \notin registry THEN s.error ELSE "none"
      [] OTHER            -> "none"

(* From step k on: the step where the turn ends (an await, the reply, or a *)
(* step that throws), what it throws, and the marks it leaves.             *)
Turn(q, i, k, copy) ==
    LET turn[j \in 1..Len(Steps(q))] ==
            LET s == Steps(q)[j]
                e == Throws(s, q, i, copy)
                mark(t, m) == [t EXCEPT !.marks = @ \cup {m}]
            IN  CASE e # "none" \/ s.do \in {"await", "reply"} ->
                        [pc |-> j, fault |-> e, marks |-> {}]
                  [] e = "none" /\ s.do = "skip" ->
                        IF Holds(s.arg, i, copy) THEN mark(turn[j + s.error + 1], s.arg)
                                                 ELSE turn[j + 1]
                  [] e = "none" /\ s.do = "now" -> mark(turn[j + 1], s.arg)
                  [] OTHER -> turn[j + 1]
    IN  turn[k]

(* The response to q is sent; only what it was and did is remembered. *)
Answer(r, q, status, marks) ==
    req' = [req EXCEPT ![r] = [q EXCEPT !.phase = "answered", !.status = status, !.marks = @ \cup marks,
                                       !.wrong = Nothing, !.pc = 1, !.copy = "absent",
                                       !.fault = "none"]]

(* registry.register: a runtime that was there is forgotten, not stopped. *)
Registers(i) ==
    /\ registry' = registry \cup {i}
    /\ stray' = stray \cup ({i} \cap registry)
    /\ UNCHANGED updates

(* RuntimeManager.stop: a socket that is still open closes, and the class   *)
(* of 'Manual disconnect' is INVALID_SESSION.                               *)
Unregisters(i) ==
    /\ registry' = registry \ {i}
    /\ \E heard \in SUBSET (({i} \cap registry) \X {"lost"}) : updates' = updates \cup heard
    /\ UNCHANGED stray

(* The handler of q goes on from step k with the document it read, and     *)
(* ends its turn t: it waits, or answers.                                  *)
Go(r, q, k, copy) ==
    \E t \in {Turn(q, IdOf(r, q), k, copy)} :
        LET s == Steps(q)[t.pc]
        IN  /\ \/ /\ t.fault = "none" /\ s.do = "await"
                  /\ req' = [req EXCEPT ![r] = [q EXCEPT !.pc = t.pc, !.copy = copy, !.phase = "waiting",
                                                        !.marks = @ \cup t.marks]]
               \/ /\ t.fault = "none" /\ s.do = "reply"
                  /\ Answer(r, q, s.arg, t.marks)
               \/ /\ t.fault # "none"
                  /\ Answer(r, q, errorMiddleware(t.fault), t.marks)
            /\ \/ "register" \in t.marks /\ Registers(IdOf(r, q))
               \/ "unregister" \in t.marks /\ Unregisters(IdOf(r, q))
               \/ t.marks \cap {"register", "unregister"} = {} /\ UNCHANGED <<registry, stray, updates>>
            /\ loose' = loose \cup {<<r, m>> : m \in t.marks \cap {"send", "syncChats"}}
            /\ UNCHANGED <<doc, groups, flow, alive, loops, late, left>>

(* Mutant: a controller that does not call next(error). *)
FailUnheard(r, q, e) ==
    /\ req' = [req EXCEPT ![r] = [q EXCEPT !.phase = "lost"]]
    /\ UNCHANGED <<doc, registry, groups, flow, loose, alive, connections>>

(* The error goes to errorMiddleware. *)
Fail(r, q, e) ==
    /\ Answer(r, q, errorMiddleware(e), {})
    /\ UNCHANGED <<doc, registry, groups, flow, loose, alive, connections>>

(* What a request may be about: the instance there is, or one whose id has *)
(* been seen in a list.                                                    *)
About(r, e) ==
    {Known} \cup (IF "instanceId" \notin Endpoint[e].path THEN {}
                 ELSE {i \in Requests \ {r} : "saveInstance" \in req[i].marks})

Asked(r, e) == IF e = "createInstance" THEN Names[r] ELSE {KnownName}

(* A client asks for endpoint e, about instance i, with mistake w; a       *)
(* creation, for name n.  The request passes the middlewares, and the      *)
(* endpoint starts.                                                        *)
Receive(r, e, i, n, w) ==
    /\ alive /\ req[r].phase = "none"
    /\ LET q == [req[r] EXCEPT !.to = e, !.about = i, !.name = n, !.wrong = w]
       IN  IF w = Token THEN Fail(r, q, "UnauthorizedError") ELSE Go(r, q, 1, "absent")

Resume(r) ==
    /\ alive /\ req[r].phase = "settled"
    /\ IF req[r].fault # "none" THEN Fail(r, req[r], req[r].fault)
                                ELSE Go(r, req[r], req[r].pc + 1, req[r].copy)

-----------------------------------------------------------------------------
(* What is awaited takes place. *)

Waiting(r, ops) ==
    /\ alive /\ req[r].phase = "waiting" /\ Step(r).arg \in ops

Settled(r, copy, marks, e) ==
    LET q == req[r]
    IN  req' = [req EXCEPT ![r] = [q EXCEPT !.phase = "settled", !.copy = copy, !.fault = e,
                                            !.marks = @ \cup marks]]

(* It rejects, and nothing has changed; but a connect that fails at the     *)
(* pairing code leaves an open socket no runtime is registered for.         *)
Rejects(r) ==
    /\ alive /\ req[r].phase = "waiting"
    /\ \E socket \in SUBSET (IF Step(r).arg = "connect" THEN {"socket"} ELSE {}) :
           Settled(r, req[r].copy, socket, Step(r).error)
    /\ UNCHANGED <<doc, registry, groups, flow, loose, alive, connections>>

Named(n) == {i \in Ids : doc[i] # "absent" /\ NameOf(i) = n}

Reads(r) ==
    /\ Waiting(r, {"qr", "findInstance", "findByName", "findFlow", "findGroups", "read", "fetchGroups", "connect"})
    /\ \E shown \in {"absent", "shown"} :
       LET what == Step(r).arg
       IN  Settled(r, CASE what = "qr"           -> shown
                        [] what = "findInstance" -> doc[Id(r)]
                        [] what = "findByName"   -> IF Named(req[r].name) = {} THEN "absent" ELSE "taken"
                        [] what = "findFlow"     -> flow
                        [] what = "findGroups"   -> IF Id(r) \in groups THEN "stored" ELSE "absent"
                        [] OTHER                 -> req[r].copy,
                   {what} \cap {"connect"}, "none")
    /\ UNCHANGED <<doc, registry, groups, flow, loose, alive, connections>>

UniqueNameNone(i) == TRUE   \* mutant: no index

(* The index of the collection: the name is unique. *)
UniqueName(i) == \A j \in Ids \ {i} : doc[j] = "absent" \/ NameOf(j) # NameOf(i)

SavesInstance(r) ==
    /\ Waiting(r, {"saveInstance"})
    /\ IF UniqueName(r)
       THEN /\ doc' = [doc EXCEPT ![r] = "disconnected"]
            /\ Settled(r, req[r].copy, {"saveInstance"}, "none")
       ELSE /\ Settled(r, req[r].copy, {}, Step(r).error)
            /\ UNCHANGED doc
    /\ UNCHANGED <<registry, groups, flow, loose, alive, connections>>

DeletesInstance(r) ==
    /\ Waiting(r, {"deleteInstance"})
    /\ doc' = [doc EXCEPT ![Id(r)] = "absent"]
    /\ Settled(r, req[r].copy, {"deleteInstance"}, "none")
    /\ late' = IF <<Id(r), "connecting">> \in loops THEN late \cup {Id(r)} ELSE late
    /\ UNCHANGED <<registry, groups, flow, loose, alive, updates, loops, stray, left>>

(* Mutant: a flow that was written may still be reported as failed. *)
WritesFlowLate(r) ==
    /\ Waiting(r, {"createFlow", "saveFlow", "deactivateFlow"})
    /\ \E e \in {"none", Step(r).error} : Settled(r, req[r].copy, {Step(r).arg}, e)
    /\ UNCHANGED <<doc, registry, groups, flow, loose, alive, connections>>

(* save() writes the whole flow, the one read before, and upserts. *)
WritesFlow(r) ==
    /\ Waiting(r, {"createFlow", "saveFlow", "deactivateFlow"})
    /\ LET what == Step(r).arg
       IN  /\ flow' = CASE what = "saveFlow"       -> req[r].copy
                        [] what = "deactivateFlow" -> "inactive"
                        [] OTHER                   -> flow
           /\ Settled(r, req[r].copy, {what}, "none")
    /\ UNCHANGED <<doc, registry, groups, loose, alive, connections>>

WritesCampaign(r) ==
    /\ Waiting(r, {"saveCampaign", "deleteCampaign"})
    /\ Settled(r, req[r].copy, {Step(r).arg}, "none")
    /\ UNCHANGED <<doc, registry, groups, flow, loose, alive, connections>>

(* The socket carries the call out; what comes back may be an error.  A    *)
(* socket that was ended carries out nothing.                              *)
Performs(r) ==
    /\ Waiting(r, {"message", "group", "members"}) /\ Id(r) \in registry
    /\ \E e \in {"none", Step(r).error} : Settled(r, req[r].copy, {Step(r).arg}, e)
    /\ UNCHANGED <<doc, registry, groups, flow, loose, alive, connections>>

(* A call nobody waits for ends, or its rejection ends the process. *)
LooseEnds(l) ==
    /\ alive /\ l \in loose
    /\ loose' = loose \ {l}
    /\ groups' = IF l[2] = "syncChats" THEN groups \cup {Id(l[1])} ELSE groups
    /\ req' = IF l[2] = "send" THEN [req EXCEPT ![l[1]].marks = @ \cup {"message"}] ELSE req
    /\ UNCHANGED <<doc, registry, flow, alive, connections>>

LooseFails(l) ==
    /\ alive /\ l \in loose
    /\ alive' = FALSE
    /\ UNCHANGED <<req, doc, registry, groups, flow, loose, connections>>

-----------------------------------------------------------------------------
(* Connections. *)

(* One of those that x stands for has gone on: there may be others. *)
Without(S, x) == {S, S \ {x}}

(* The connection of a runtime opens or closes; its listeners hear of it. *)
Event(i, k) ==
    /\ alive /\ left > 0 /\ i \in registry \cup stray
    /\ left' = left - 1
    /\ updates' = updates \cup {<<i, k>>}
    /\ UNCHANGED <<req, doc, registry, groups, flow, loose, alive, loops, stray, late>>

(* The update is applied to the document, if it is still there.  The         *)
(* disconnect handler then begins a loop, or stops the runtime.              *)
Updates(i, k) ==
    /\ alive /\ <<i, k>> \in updates
    /\ doc' = IF doc[i] = "absent" THEN doc
              ELSE [doc EXCEPT ![i] = IF k = "open" THEN "connected" ELSE "disconnected"]
    /\ loops' = IF k = "transient" THEN loops \cup {<<i, "pausing">>} ELSE loops
    /\ registry' = IF k = "lost" THEN registry \ {i} ELSE registry
    /\ updates' \in Without(updates, <<i, k>>)
    /\ UNCHANGED <<req, groups, flow, loose, alive, stray, late, left>>

(* It rejects, in a listener that nobody awaits: the process ends. *)
UpdateFails(i, k) ==
    /\ alive /\ <<i, k>> \in updates
    /\ alive' = FALSE
    /\ UNCHANGED <<req, doc, registry, groups, flow, loose, connections>>

Restarting(i) == loops \cap ({i} \X {"stopped", "finding", "connecting"}) # {}

(* A try begins after its pause.  One restart at a time: the others return. *)
Restarts(i) ==
    /\ alive /\ <<i, "pausing">> \in loops
    /\ \E rest \in Without(loops, <<i, "pausing">>) :
           \/ Restarting(i) /\ loops' = rest /\ UNCHANGED <<registry, updates, stray>>
           \/ ~Restarting(i) /\ loops' = rest \cup {<<i, "stopped">>} /\ Unregisters(i)
    /\ UNCHANGED <<req, doc, groups, flow, loose, alive, late, left>>

(* Two seconds later it starts the instance, if nobody else has. *)
StartsAgain(i) ==
    /\ alive /\ <<i, "stopped">> \in loops
    /\ loops' = (loops \ {<<i, "stopped">>}) \cup ({i} \ registry) \X {"finding"}
    /\ UNCHANGED <<req, doc, registry, groups, flow, loose, alive, updates, stray, late, left>>

(* The try at point p fails: another pause, or it was the last. *)
TryFails(i, p) ==
    \/ /\ loops' = (loops \ {<<i, p>>}) \cup {<<i, "pausing">>}
       /\ UNCHANGED <<registry, updates, stray>>
    \/ /\ loops' = loops \ {<<i, p>>}
       /\ Unregisters(i)

Finds(i) ==
    /\ alive /\ <<i, "finding">> \in loops
    /\ \/ /\ doc[i] # "absent"
          /\ loops' = (loops \ {<<i, "finding">>}) \cup {<<i, "connecting">>}
          /\ UNCHANGED <<registry, updates, stray>>
       \/ TryFails(i, "finding")    \* the query rejects, or finds nothing
    /\ UNCHANGED <<req, doc, groups, flow, loose, alive, late, left>>

Connects(i) ==
    /\ alive /\ <<i, "connecting">> \in loops
    /\ \/ Registers(i) /\ loops' = loops \ {<<i, "connecting">>}
       \/ TryFails(i, "connecting")
    /\ UNCHANGED <<req, doc, groups, flow, loose, alive, late, left>>

NoRequest == [to |-> "none", about |-> Known, name |-> KnownName, wrong |-> Nothing, pc |-> 1,
              phase |-> "none", copy |-> "absent", fault |-> "none", status |-> 0, marks |-> {}]

Init ==
    /\ req = [r \in Requests |-> NoRequest]
    /\ \E b \in Before :
           /\ doc = [i \in Ids |-> IF i = Known THEN b.doc ELSE "absent"]
           /\ registry = b.registry /\ groups = b.groups /\ flow = b.flow
    /\ loose = {} /\ alive = TRUE
    /\ updates = {} /\ loops = {} /\ stray = {} /\ late = {} /\ left = Events

(* What r waits for takes place. *)
Settles(r) ==
    Reads(r) \/ SavesInstance(r) \/ DeletesInstance(r) \/ WritesFlow(r) \/ WritesCampaign(r)
        \/ Performs(r)

(* The event loop goes on while a request has anything left to do: what it  *)
(* awaits settles, its handler goes on, and calls nobody waits for end.     *)
EventLoop ==
    \/ \E r \in Requests : Rejects(r) \/ Settles(r)
    \/ \E l \in loose : LooseFails(l) \/ LooseEnds(l)
    \/ \E r \in Requests : Resume(r)

Next ==
    \/ \E r \in {q \in Requests : req[q].phase = "none"} :
           \E e \in Menu[r] :
               \E i \in About(r, e), n \in Asked(r, e), w \in {Nothing} \cup Mistake(e) :
                   Receive(r, e, i, n, w)
    \/ EventLoop
    \/ \E i \in Ids :
           \/ \E k \in Kind : Event(i, k) \/ Updates(i, k) \/ UpdateFails(i, k)
           \/ Restarts(i) \/ StartsAgain(i) \/ Finds(i) \/ Connects(i)

Fairness == WF_vars(EventLoop)

Spec == Init /\ [][Next]_vars /\ Fairness

-----------------------------------------------------------------------------
TypeOK ==
    /\ doc \in [Ids -> {"absent", "disconnected", "connected"}]
    /\ registry \subseteq Ids /\ groups \subseteq Ids
    /\ flow \in {"absent", "active", "inactive"}
    /\ alive \in BOOLEAN
    /\ loose \subseteq Requests \X {"send", "syncChats"}
    /\ updates \subseteq Ids \X Kind /\ loops \subseteq Ids \X Point
    /\ stray \subseteq Ids /\ late \subseteq Ids /\ left \in 0..Events
    /\ \A r \in Requests :
        /\ req[r].phase \in {"none", "waiting", "settled", "answered"}
        /\ req[r].fault \in Fault /\ req[r].status \in Status
        /\ req[r].phase = "answered" <=> req[r].status # 0

Answered(r) == req[r].phase = "answered"
Success(r)  == Answered(r) /\ req[r].status < 300

(* What a success of endpoint e says: one mark of each set is there.  A    *)
(* text is only handed over, and a flow only deactivated.                  *)
Promise(e) ==
    CASE e = "createInstance" -> {{"saveInstance"}, {"register", "registered"}}
      [] e = "connect"        -> {{"register", "registered"}}
      [] e = "disconnect"     -> {{"unregister", "unregistered"}}
      [] e = "deleteInstance" -> {{"deleteInstance"}, {"unregister", "unregistered"}}
      [] e = "sendText"       -> {{"send"}}
      [] e \in DOMAIN MultimediaRouter -> {{"message"}}
      [] e = "createGroup"    -> {{"group"}}
      [] e \in {"addMembers", "removeMembers"} -> {{"members"}}
      [] e \in {"createCampaign", "updateCampaign"} -> {{"saveCampaign"}}
      [] e = "deleteCampaign" -> {{"deleteCampaign"}}
      [] e = "createFlow"     -> {{"createFlow"}}
      [] e \in {"createNodes", "updateFlow", "deleteNodes"} -> {{"saveFlow"}}
      [] e = "deleteFlow"     -> {{"deactivateFlow"}}
      [] OTHER                -> {}

AnswersKeepPromises ==
    \A r \in Requests : Success(r) => \A m \in Promise(req[r].to) : m \cap req[r].marks # {}

(* A deleted instance is gone: its document for good, and its runtime      *)
(* unless a creation, a connection or a reconnection had found the         *)
(* document before.                                                        *)
DeletedIsGone ==
    \A r \in Requests :
        (Success(r) /\ req[r].to = "deleteInstance") =>
            /\ doc[Id(r)] = "absent"
            /\ Id(r) \in registry =>
                   \/ \E q \in Requests \ {r} : Id(q) = Id(r) /\ "connect" \in req[q].marks
                   \/ Id(r) \in late

(* Only calls nobody waits for end the process, a request's or a           *)
(* listener's: every other error is answered or tried again.               *)
DeathsExplained == ~alive => loose # {} \/ updates # {}

(* What a request is answered is true, whatever other requests and the     *)
(* reconnection loops did, and the process outlives every error but those  *)
(* of calls that nobody awaits.                                            *)
ApiSound == TypeOK /\ AnswersKeepPromises /\ DeletedIsGone /\ DeathsExplained

(* The marks of what others can see. *)
Traces ==
    {"saveInstance", "register", "unregister", "deleteInstance", "send", "syncChats", "message",
     "group", "members", "saveCampaign", "deleteCampaign", "createFlow", "saveFlow", "deactivateFlow",
     "socket"}

(* A creation may have stored an instance it could not start, a connection *)
(* that fails at the pairing code leaves its socket open, the              *)
(* synchronisation that a list of groups begins goes on, and a call of the *)
(* socket may have been carried out.                                       *)
Excused(e) ==
    CASE e = "createInstance" -> {"saveInstance", "socket"}
      [] e = "connect"        -> {"socket"}
      [] e = "listGroups"     -> {"syncChats"}
      [] OTHER                -> {"message", "group", "members"}

(* A request that is answered an error has changed nothing, but for what   *)
(* its endpoint is excused.                                                *)
ErrorsLeaveNoTrace ==
    \A r \in Requests :
        (Answered(r) /\ req[r].status >= 400) => req[r].marks \cap Traces \subseteq Excused(req[r].to)

(* Two instances never have one name, though a creation looks the name up  *)
(* and saves in two steps (InstancesCreator.execute).                      *)
OneNameOnce ==
    \A i, j \in Ids : (i # j /\ doc[i] # "absent" /\ doc[j] # "absent") => NameOf(i) # NameOf(j)

(* Every request is answered, and what it left behind ends, or the process *)
(* dies.                                                                   *)
RequestsEnd ==
    <>[](\/ ~alive
         \/ loose = {} /\ \A r \in Requests : req[r].phase \in {"none", "answered"})
=============================================================================
