---------------------------- MODULE EndpointPaths ----------------------------
(***************************************************************************)
(* What a handler may have done by the time it arrives at a step, whatever *)
(* the request, the documents and the other handlers were: each endpoint   *)
(* as a graph whose nodes are its steps.                                   *)
(*                                                                         *)
(* The assumption at the end is what the proofs of ApiProofs need to know  *)
(* of the endpoints.  It mentions no constant and no variable: it is a     *)
(* statement about Endpoint alone, and TLC, which evaluates it, decides it.*)
(***************************************************************************)
EXTENDS Api

(* What leaves a mark once it has been awaited. *)
Effects ==
    {"connect", "saveInstance", "deleteInstance", "createFlow", "saveFlow", "deactivateFlow",
     "saveCampaign", "deleteCampaign", "message", "group", "members"}

(* From step j on: the step that comes next and the marks it comes with. *)
Ways(e, j) ==
    LET s == Endpoint[e].steps[j]
    IN  CASE s.do = "reply" -> {}
          [] s.do = "param" -> IF s.arg \in Endpoint[e].path THEN {<<j + 1, {}>>} ELSE {}
          [] s.do = "skip"  -> {<<j + 1, {}>>, <<j + s.error + 1, {s.arg}>>}
          [] s.do = "now"   -> {<<j + 1, {s.arg}>>}
          [] s.do = "await" -> {<<j + 1, {s.arg} \cap Effects>>}
          [] OTHER          -> {<<j + 1, {}>>}

(* Arrive[e][k]: the sets of marks with which a handler of e arrives at k. *)
Arrive ==
    [e \in DOMAIN Endpoint |->
        LET into(k)   == {x \in (1..(k - 1)) \X UNION {Ways(e, j) : j \in 1..(k - 1)} :
                              x[2] \in Ways(e, x[1]) /\ x[2][1] = k}
            arrive[k \in DOMAIN Endpoint[e].steps] ==
                IF k = 1 THEN {{}}
                ELSE UNION {{marks \cup x[2][2] : marks \in arrive[x[1]]} : x \in into(k)}
        IN  arrive]

Successes == {200, 201, 202}

(* Step k of e is one that Turn can take: there is a step after it, what it  *)
(* throws has a class, and its mark says what it did.                        *)
WellMade(e, k) ==
    LET s == Endpoint[e].steps[k]
        n == Len(Endpoint[e].steps)
    IN  /\ s.do # "reply" => k + 1 <= n
        /\ s.do = "skip" => /\ k + s.error + 1 \in (k + 1)..n
                            /\ s.arg \in {"registered", "unregistered", "found"}
        /\ s.do = "now" => s.arg \in {"register", "unregister", "send", "syncChats"}
        /\ s.do = "reply" => s.arg \in Successes
        /\ s.do \notin {"skip", "now", "reply"} => s.error \in ErrorClass
        /\ s.do = "await" /\ s.arg = "saveInstance" => e = "createInstance"
        /\ s.do = "await" /\ s.arg = "deleteInstance" => e = "deleteInstance"

(* Whoever writes a flow back has read nothing but the flow. *)
WritesBack(e) ==
    \E k \in DOMAIN Endpoint[e].steps :
        Endpoint[e].steps[k].do = "await" /\ Endpoint[e].steps[k].arg = "saveFlow"

ReadsFlowsOnly(e) ==
    \A k \in DOMAIN Endpoint[e].steps :
        Endpoint[e].steps[k].do = "await" => Endpoint[e].steps[k].arg \in {"findFlow", "saveFlow"}

(* The marks say which endpoint it is, that a runtime is registered only    *)
(* after it was connected, and that a deletion stops last.                   *)
Telling(e, marks) ==
    /\ "send" \in marks => e = "sendText"
    /\ "syncChats" \in marks => e = "listGroups"
    /\ "register" \in marks => "connect" \in marks /\ e # "deleteInstance"
    /\ "deleteInstance" \in marks => e = "deleteInstance"
    /\ e = "deleteInstance" /\ marks \cap {"unregister", "unregistered"} # {} =>
           "deleteInstance" \in marks

(* What an error may find, and what a reply promises. *)
Clean(e, marks) == marks \cap Traces \subseteq Excused(e)
Kept(e, marks) ==
    /\ \A m \in Promise(e) : m \cap marks # {}
    /\ e = "deleteInstance" => /\ "deleteInstance" \in marks
                               /\ marks \cap {"unregister", "unregistered"} # {}

(* A handler of e that arrives at k with these marks. *)
Arriving(e, k, marks) ==
    LET s == Endpoint[e].steps[k]
    IN  /\ \A w \in Ways(e, k) : marks \cup w[2] \in Arrive[e][w[1]]
        /\ Telling(e, marks)
        /\ "send" \in marks => s.do = "reply"
        /\ s.do = "await" /\ s.arg = "saveInstance" => "saveInstance" \notin marks
        /\ s.do = "reply" => Kept(e, marks)
        /\ s.do \notin {"skip", "now", "reply"} => Clean(e, marks)
        /\ s.do = "await" /\ s.arg \in {"message", "group", "members"} => Clean(e, marks \cup {s.arg})
        /\ s.do = "await" /\ s.arg = "connect" => Clean(e, marks \cup {"socket"})

ASSUME EndpointsAssumption ==
    /\ \A c \in ErrorClass : errorMiddleware(c) \in {s \in Status : s >= 400}
    /\ "UnauthorizedError" \in ErrorClass
    /\ \A e \in DOMAIN Endpoint :
        /\ Len(Endpoint[e].steps) \in Nat /\ DOMAIN Endpoint[e].steps = 1..Len(Endpoint[e].steps)
        /\ 1 \in DOMAIN Endpoint[e].steps /\ {} \in Arrive[e][1]
        /\ WritesBack(e) => ReadsFlowsOnly(e)
        /\ "send" \notin Excused(e)
        /\ \A k \in DOMAIN Endpoint[e].steps :
               WellMade(e, k) /\ \A marks \in Arrive[e][k] : Arriving(e, k, marks)
=============================================================================
