------------------------ MODULE RuntimeManagerProofs ------------------------
(***************************************************************************)
(* Proofs about RuntimeManager for every value of its constants: any       *)
(* number of runtimes and of calls under way, whatever requests, losses,   *)
(* failures and crashes come, and however late Mongo answers.              *)
(*                                                                         *)
(* The point of the argument: an attempt enters restart() only when        *)
(* _restarting is clear and sets it, and whatever ends a loop's call       *)
(* between stop() and start(), returning or throwing, clears it.  That     *)
(* needs to know where a loop can be (Shaped): never at the pairing code,  *)
(* for a loop gives no phone number, and nobody but a loop ever pauses.    *)
(***************************************************************************)
EXTENDS RuntimeManager, SequenceTheorems, TLAPS

LoopPC == {"backoff", "pause", "find", "connect"}

Shaped ==
    \A p \in Procs :
        /\ procs[p].kind = "loop" => procs[p].pc \in LoopPC /\ ~procs[p].phone
        /\ procs[p].pc \in {"backoff", "pause"} => procs[p].kind = "loop"
        /\ procs[p].pc \in {"connect", "pairing"} => procs[p].rt \in bound
        /\ procs[p].pc = "pairing" => procs[p].phone

IInv == TypeOK /\ Shaped /\ RestartExclusive /\ RegisteredIsWired

-----------------------------------------------------------------------------
(* What the calls in restart() become when one call changes. *)
In(c)     == c.kind = "loop" /\ c.pc \in {"pause", "find", "connect"}
Inside(f) == {p \in Procs : In(f[p])}

LEMMA CallMoves ==
    ASSUME NEW f \in [Procs -> Call], NEW p \in Procs, NEW c
    PROVE  Inside([f EXCEPT ![p] = c]) = IF In(c) THEN Inside(f) \cup {p} ELSE Inside(f) \ {p}
BY DEF Inside

(* The three ways a step may change one call and keep RestartExclusive. *)
LEMMA StaysOut ==
    ASSUME IInv, NEW p \in Procs, NEW c, Goto(p, c), UNCHANGED restarting,
           In(c) <=> In(procs[p])
    PROVE  RestartExclusive'
<1>1. Inside(procs') = Inside(procs)
    BY CallMoves DEF Goto, IInv, TypeOK, Inside
<1>. QED BY <1>1 DEF IInv, RestartExclusive, InRestart, Inside, In

LEMMA ComesIn ==
    ASSUME IInv, NEW p \in Procs, NEW c, Goto(p, c), ~restarting, restarting' = TRUE, In(c)
    PROVE  RestartExclusive'
<1>1. Inside(procs) = {}
    BY DEF IInv, RestartExclusive, InRestart, Inside, In
<1>2. Inside(procs') = {p}
    BY <1>1, CallMoves DEF Goto, IInv, TypeOK
<1>. QED BY <1>2 DEF RestartExclusive, InRestart, Inside, In

LEMMA GoesOut ==
    ASSUME IInv, NEW p \in Procs, NEW c, Goto(p, c), In(procs[p]), restarting' = FALSE, ~In(c)
    PROVE  RestartExclusive'
<1>1. Inside(procs) = {p}
    BY DEF IInv, RestartExclusive, InRestart, Inside, In
<1>2. Inside(procs') = Inside(procs) \ {p}
    BY CallMoves DEF Goto, IInv, TypeOK
<1>3. Inside(procs') = {}
    BY <1>1, <1>2
<1>. QED BY <1>3 DEF RestartExclusive, InRestart, Inside, In

LEMMA IdleIsOut == ~In(Idle) /\ Idle.kind = "idle" /\ Idle.pc = "idle"
BY DEF Idle, In

LEMMA IdleIsCall == Idle \in Call
BY ManagerAssumption DEF Idle, Call

LEMMA ReturnKeepsExclusive ==
    ASSUME IInv, NEW p \in Procs, Return(p), In(procs[p]) \/ procs[p].kind # "loop"
    PROVE  RestartExclusive'
<1>. USE DEF Return
<1>1. CASE In(procs[p])
    <2>. QED BY <1>1, GoesOut, IdleIsOut DEF In
<1>2. CASE procs[p].kind # "loop"
    <2>1. UNCHANGED restarting
        BY <1>2 DEF IInv, TypeOK
    <2>. QED BY <1>2, <2>1, StaysOut, IdleIsOut DEF In
<1>. QED BY <1>1, <1>2

LEMMA ThrowKeepsExclusive ==
    ASSUME IInv, NEW p \in Procs, Throw(p), procs[p].pc \in {"find", "connect", "pairing"}
    PROVE  RestartExclusive'
<1>1. In(procs[p]) \/ procs[p].kind # "loop"
    BY DEF In, IInv, Shaped, LoopPC
<1>2. CASE Return(p)
    BY <1>1, <1>2, ReturnKeepsExclusive
<1>3. ASSUME procs[p].kind = "loop",
             Goto(p, [procs[p] EXCEPT !.pc = "backoff", !.rt = NoRuntime, !.tries = @ + 1]),
             restarting' = FALSE
      PROVE  RestartExclusive'
    <2>1. procs[p] \in Call
        BY DEF IInv, TypeOK
    <2>2. ~In([procs[p] EXCEPT !.pc = "backoff", !.rt = NoRuntime, !.tries = @ + 1])
        BY <2>1 DEF In, Call
    <2>. QED BY <1>1, <1>3, <2>2, GoesOut
<1>. QED BY <1>2, <1>3 DEF Throw

-----------------------------------------------------------------------------
(* What the steps of a socket and stop() do to the session. *)
SessionKinds ==
    /\ sock \in [Runtimes -> {"none", "fresh", "opening", "open", "closed"}]
    /\ inbox \subseteq Letter
    /\ events \in Nat
    /\ wipes \in Nat

LEMMA EmitKinds ==
    ASSUME IInv, NEW e \in Event, NEW box \in SUBSET Letter, Emit(e, box)
    PROVE  inbox' \subseteq Letter /\ events' \in Nat
<1>1. events + 1 \in Nat
    BY DEF IInv, TypeOK, SessionTypeOK
<1>2. \A k \in bound : [rt |-> k, event |-> e, num |-> events + 1, stage |-> "update"] \in Letter
    BY <1>1 DEF Letter, IInv, TypeOK, SessionTypeOK
<1>. QED BY <1>1, <1>2 DEF Emit

LEMMA CloseKinds ==
    ASSUME IInv, NEW k \in Runtimes, NEW e \in Event, NEW box \in SUBSET Letter,
           CloseSocket(k, e, box)
    PROVE  SessionKinds' /\ \A r \in Runtimes : sock[r] # "none" => sock'[r] # "none"
<1>1. /\ sock' \in [Runtimes -> {"none", "fresh", "opening", "open", "closed"}]
      /\ \A r \in Runtimes : sock[r] # "none" => sock'[r] # "none"
    BY DEF CloseSocket, IInv, TypeOK, SessionTypeOK
<1>2. CASE k \in wired
    <2>1. wipes' \in Nat
        BY <1>2 DEF CloseSocket, IInv, TypeOK, SessionTypeOK
    <2>2. Emit(e, box)
        BY <1>2 DEF CloseSocket
    <2>. QED BY <1>1, <2>1, <2>2, EmitKinds DEF SessionKinds
<1>3. CASE k \notin wired
    BY <1>1, <1>3 DEF CloseSocket, SessionKinds, IInv, TypeOK, SessionTypeOK
<1>. QED BY <1>2, <1>3

LEMMA StopKinds ==
    ASSUME IInv, NEW box \in SUBSET Letter, StopNow(box)
    PROVE  /\ SessionKinds'
           /\ registry' = NoRuntime
           /\ \A r \in Runtimes : sock[r] # "none" => sock'[r] # "none"
<1>. USE DEF StopNow
<1>1. CASE registry = NoRuntime \/ registry \notin Live
    BY <1>1 DEF EndSocket, SessionKinds, IInv, TypeOK, SessionTypeOK
<1>2. CASE registry # NoRuntime /\ registry \in Live
    <2>1. registry \in Runtimes
        BY <1>2 DEF Live
    <2>2. CloseSocket(registry, "INVALID_SESSION", box)
        BY <1>2 DEF EndSocket
    <2>. QED BY <2>1, <2>2, CloseKinds DEF Event, DisconnectType
<1>. QED BY <1>1, <1>2

(* A call that changes keeps procs well typed and, unless it is at one of *)
(* the places Shaped speaks of, well shaped.                              *)
ShapedCall(c, b) ==
    /\ c.kind = "loop" => c.pc \in LoopPC /\ ~c.phone
    /\ c.pc \in {"backoff", "pause"} => c.kind = "loop"
    /\ c.pc \in {"connect", "pairing"} => c.rt \in b
    /\ c.pc = "pairing" => c.phone

LEMMA ShapedMoves ==
    ASSUME IInv, NEW p \in Procs, NEW c \in Call, Goto(p, c), bound \subseteq bound',
           ShapedCall(c, bound')
    PROVE  procs' \in [Procs -> Call] /\ Shaped'
<1>1. procs \in [Procs -> Call] /\ procs' = [procs EXCEPT ![p] = c]
    BY DEF IInv, TypeOK, Goto
<1>2. procs' \in [Procs -> Call]
    BY <1>1
<1>3. ASSUME NEW q \in Procs
      PROVE  ShapedCall(procs'[q], bound')
    <2>1. CASE q = p
        BY <1>1, <2>1
    <2>2. CASE q # p
        <3>1. procs'[q] = procs[q]
            BY <1>1, <2>2
        <3>. QED BY <3>1 DEF ShapedCall, IInv, Shaped
    <2>. QED BY <2>1, <2>2
<1>. QED BY <1>2, <1>3 DEF Shaped, ShapedCall

LEMMA ShapedStays ==
    ASSUME IInv, UNCHANGED procs, bound \subseteq bound'
    PROVE  procs' \in [Procs -> Call] /\ Shaped'
BY DEF IInv, TypeOK, Shaped

LEMMA IdleIsShaped == \A b : ShapedCall(Idle, b)
BY DEF Idle, ShapedCall

LEMMA SpendKinds ==
    ASSUME IInv, NEW w \in Outside \ {"any"}, Spend(w)
    PROVE  left' \in [Outside -> Nat]
<1>1. left \in [Outside -> Nat] /\ "any" \in Outside
    BY DEF IInv, TypeOK, Outside
<1>. QED BY <1>1 DEF Spend

LEMMA PatienceKinds ==
    ASSUME IInv, Patience
    PROVE  left' \in [Outside -> Nat]
BY SpendKinds DEF Patience, Outside, IInv, TypeOK

LEMMA TimerKinds ==
    ASSUME IInv, NEW p \in Procs, Due(p)
    PROVE  Fired(p) \in Seq(Procs)
BY HeadTailProperties DEF Due, Fired, IInv, TypeOK

LEMMA AppendKinds ==
    ASSUME NEW s \in Seq(Procs), NEW p \in Procs
    PROVE  Append(s, p) \in Seq(Procs)
OBVIOUS

-----------------------------------------------------------------------------
(* The initial states. *)
LEMMA BootKinds ==
    ASSUME NEW f, NEW p \in Procs, NEW status, Boot(f, p, status)
    PROVE  /\ f \in [Procs -> Call]
           /\ Inside(f) = {}
           /\ \A q \in Procs : \A b : ShapedCall(f[q], b)
<1>1. Restoring(p)[p] \in Call /\ [Idle EXCEPT !.kind = "restore", !.pc = "find"] \in Call
    BY IdleIsCall DEF Restoring, Call
<1>2. \A b : ShapedCall([Idle EXCEPT !.kind = "restore", !.pc = "find"], b)
    BY DEF Idle, ShapedCall
<1>3. ~In([Idle EXCEPT !.kind = "restore", !.pc = "find"])
    BY DEF Idle, In
<1>4. \A q \in Procs : f[q] \in {Idle, [Idle EXCEPT !.kind = "restore", !.pc = "find"]}
    BY DEF Boot, Restoring
<1>5. f \in [Procs -> Call]
    BY <1>1, IdleIsCall DEF Boot, Restoring
<1>6. Inside(f) = {}
    BY <1>3, <1>4, IdleIsOut DEF Inside
<1>7. \A q \in Procs : \A b : ShapedCall(f[q], b)
    BY <1>2, <1>4, IdleIsShaped
<1>. QED BY <1>5, <1>6, <1>7

LEMMA InitHolds == Init => IInv
<1>. SUFFICES ASSUME Init PROVE IInv
    OBVIOUS
<1>1. PICK p \in Procs : Boot(procs, p, doc)
    BY DEF Init
<1>2. /\ procs \in [Procs -> Call]
      /\ Inside(procs) = {}
      /\ \A q \in Procs : \A b : ShapedCall(procs[q], b)
    BY <1>1, BootKinds
<1>3. Shaped
    BY <1>2 DEF Shaped, ShapedCall
<1>4. RestartExclusive
    BY <1>2 DEF Init, RestartExclusive, InRestart, Inside, In
<1>5. SessionTypeOK
    BY DEF Init, SessionInit, SessionTypeOK
<1>6. registry \in Runtimes \cup {NoRuntime} /\ restarting \in BOOLEAN /\ timers = <<>>
    BY DEF Init
<1>7. left \in [Outside -> Nat]
    BY ManagerAssumption DEF Init
<1>8. TypeOK
    BY <1>2, <1>5, <1>6, <1>7, EmptySeq DEF TypeOK
<1>. QED BY <1>3, <1>4, <1>8 DEF IInv, RegisteredIsWired, Init

-----------------------------------------------------------------------------
(* The steps that change no call. *)
LEMMA CallsUntouched ==
    ASSUME IInv, UNCHANGED <<procs, restarting, bound>>
    PROVE  Shaped' /\ RestartExclusive' /\ procs' \in [Procs -> Call] /\ restarting' \in BOOLEAN
<1>1. Shaped' /\ procs' \in [Procs -> Call]
    BY ShapedStays
<1>2. RestartExclusive'
    BY DEF IInv, RestartExclusive, InRestart
<1>. QED BY <1>1, <1>2 DEF IInv, TypeOK

LEMMA SessionSteps ==
    ASSUME IInv, Opens \/ Pairs \/ Stores \/ Wipes
    PROVE  IInv'
<1>. USE DEF IInv, TypeOK, SessionTypeOK
<1>1. UNCHANGED <<registry, restarting, procs, timers, bound, wired>>
    BY DEF Opens, Pairs, Stores, Wipes, Manager, Open, Pair, Update, Wipe
<1>6. left' \in [Outside -> Nat]
    BY SpendKinds DEF Opens, Pairs, Stores, Wipes, Manager, Outside
<1>2. Shaped' /\ RestartExclusive' /\ procs' \in [Procs -> Call]
    BY <1>1, CallsUntouched
<1>3. /\ SessionKinds'
      /\ \A r \in Runtimes : sock[r] # "none" => sock'[r] # "none"
      /\ doc' \in {"absent", "disconnected", "connected"} /\ creds' \in {"empty", "paired"}
    <2>1. ASSUME NEW k \in Runtimes, Open(k)
          PROVE  <1>3!:
        <3>1. inbox' \subseteq Letter /\ events' \in Nat
            BY <2>1, EmitKinds DEF Open, Event
        <3>. QED BY <2>1, <3>1 DEF Open, SessionKinds
    <2>2. ASSUME NEW k \in Runtimes, Pair(k)
          PROVE  <1>3!:
        BY <2>2, CloseKinds DEF Pair, Event, DisconnectType
    <2>3. ASSUME NEW m \in inbox, Update(m)
          PROVE  <1>3!:
        <3>1. [m EXCEPT !.stage = "publish"] \in Letter
            BY DEF Letter
        <3>2. inbox' \subseteq Letter
            BY <2>3, <3>1 DEF Update
        <3>3. doc' \in {"absent", "disconnected", "connected"}
            BY <2>3 DEF Update, Store, StatusOf
        <3>. QED BY <2>3, <3>2, <3>3 DEF Update, SessionKinds
    <2>4. CASE Wipe
        BY <2>4 DEF Wipe, SessionKinds
    <2>. QED BY <2>1, <2>2, <2>3, <2>4 DEF Opens, Pairs, Stores, Wipes
<1>4. TypeOK'
    BY <1>1, <1>2, <1>3, <1>6 DEF SessionKinds
<1>5. RegisteredIsWired'
    BY <1>1, <1>3 DEF RegisteredIsWired
<1>. QED BY <1>2, <1>4, <1>5

LEMMA ClosesKeeps ==
    ASSUME IInv, NEW k \in Runtimes, NEW e \in Closings, Closes(k, e)
    PROVE  IInv'
<1>1. UNCHANGED <<registry, restarting, procs, timers, bound, wired, doc, creds>>
    BY DEF Closes, ServerCloses
<1>2. Shaped' /\ RestartExclusive' /\ procs' \in [Procs -> Call]
    BY <1>1, CallsUntouched
<1>3. SessionKinds' /\ \A r \in Runtimes : sock[r] # "none" => sock'[r] # "none"
    <2>1. e \in Event /\ CloseSocket(k, e, inbox) /\ inbox \in SUBSET Letter
        BY ManagerAssumption DEF Closes, ServerCloses, Event, IInv, TypeOK, SessionTypeOK
    <2>. QED BY <2>1, CloseKinds
<1>4. left' \in [Outside -> Nat]
    BY SpendKinds DEF Closes, Outside
<1>5. TypeOK'
    BY <1>1, <1>2, <1>3, <1>4 DEF IInv, TypeOK, SessionTypeOK, SessionKinds
<1>6. RegisteredIsWired'
    BY <1>1, <1>3 DEF IInv, TypeOK, RegisteredIsWired
<1>. QED BY <1>2, <1>5, <1>6 DEF IInv

(* stop(), alone: a disconnect request, or a lost session's handler. *)
LEMMA StopAlone ==
    ASSUME IInv, NEW box \in SUBSET Letter, StopNow(box),
           UNCHANGED <<doc, creds, wired, bound, restarting, procs, timers>>,
           left' \in [Outside -> Nat]
    PROVE  IInv'
<1>1. Shaped' /\ RestartExclusive' /\ procs' \in [Procs -> Call]
    BY CallsUntouched
<1>2. SessionKinds' /\ registry' = NoRuntime
    BY StopKinds
<1>3. TypeOK'
    BY <1>1, <1>2 DEF IInv, TypeOK, SessionTypeOK, SessionKinds
<1>. QED BY <1>1, <1>2, <1>3 DEF IInv, RegisteredIsWired

LEMMA OtherStops ==
    ASSUME IInv, ApiStop \/ (\E m \in inbox : SessionLost(m) \/ NoHandler(m))
    PROVE  IInv'
<1>1. CASE ApiStop
    <2>1. left' \in [Outside -> Nat] /\ inbox \in SUBSET Letter
        BY <1>1, SpendKinds DEF ApiStop, Outside, IInv, TypeOK, SessionTypeOK
    <2>. QED BY <1>1, <2>1, StopAlone DEF ApiStop
<1>2. ASSUME NEW m \in inbox, SessionLost(m)
      PROVE  IInv'
    <2>1. inbox \ {m} \in SUBSET Letter /\ left' \in [Outside -> Nat]
        BY <1>2 DEF SessionLost, IInv, TypeOK, SessionTypeOK
    <2>. QED BY <1>2, <2>1, StopAlone DEF SessionLost
<1>3. ASSUME NEW m \in inbox, NoHandler(m)
      PROVE  IInv'
    <2>1. Shaped' /\ RestartExclusive' /\ procs' \in [Procs -> Call]
        BY <1>3, CallsUntouched DEF NoHandler
    <2>. QED BY <1>3, <2>1 DEF NoHandler, IInv, TypeOK, SessionTypeOK, RegisteredIsWired
<1>. QED BY <1>1, <1>2, <1>3

-----------------------------------------------------------------------------
(* The steps of one call: what is left to check once the call is well typed *)
(* and well shaped, the session's variables are, and restart() stays        *)
(* exclusive.                                                               *)
LEMMA CallStep ==
    ASSUME IInv, NEW p \in Procs, NEW c \in Call, Goto(p, c), ShapedCall(c, bound'),
           RestartExclusive', RegisteredIsWired', SessionKinds',
           doc' \in {"absent", "disconnected", "connected"}, UNCHANGED creds,
           bound \subseteq bound', bound' \subseteq Runtimes, wired' \subseteq Runtimes,
           registry' \in Runtimes \cup {NoRuntime}, restarting' \in BOOLEAN,
           timers' \in Seq(Procs), left' \in [Outside -> Nat]
    PROVE  IInv'
<1>1. procs' \in [Procs -> Call] /\ Shaped'
    BY ShapedMoves
<1>2. SessionTypeOK'
    BY DEF SessionKinds, SessionTypeOK, IInv, TypeOK
<1>. QED BY <1>1, <1>2 DEF IInv, TypeOK

LEMMA QuietSession ==
    ASSUME IInv, UNCHANGED <<inbox, events, wipes>>,
           sock' \in [Runtimes -> {"none", "fresh", "opening", "open", "closed"}]
    PROVE  SessionKinds'
BY DEF IInv, TypeOK, SessionTypeOK, SessionKinds

LEMMA SameRegistry ==
    ASSUME IInv, UNCHANGED registry, wired \subseteq wired', bound \subseteq bound',
           \A r \in Runtimes : sock[r] # "none" => sock'[r] # "none"
    PROVE  RegisteredIsWired'
BY DEF IInv, TypeOK, RegisteredIsWired

LEMMA ApiStartKeeps ==
    ASSUME IInv, NEW p \in Procs, NEW phone \in BOOLEAN, ApiStart(p, phone)
    PROVE  IInv'
<1>. DEFINE c == [Idle EXCEPT !.kind = "start", !.pc = "find", !.phone = phone]
<1>. USE DEF ApiStart, sessionVars
<1>1. c \in Call /\ ShapedCall(c, bound') /\ ~In(c) /\ ~In(procs[p])
    BY IdleIsCall DEF Call, Idle, ShapedCall, In, Free
<1>2. RestartExclusive'
    BY <1>1, StaysOut
<1>3. SessionKinds' /\ RegisteredIsWired'
    BY QuietSession, SameRegistry DEF IInv, TypeOK, SessionTypeOK
<1>4. left' \in [Outside -> Nat]
    BY SpendKinds DEF Outside
<1>. HIDE DEF c
<1>5. Goto(p, c)
    BY DEF c
<1>. QED BY <1>1, <1>2, <1>3, <1>4, <1>5, CallStep DEF IInv, TypeOK, SessionTypeOK

LEMMA ApiDeleteKeeps ==
    ASSUME IInv, NEW p \in Procs, ApiDelete(p)
    PROVE  IInv'
<1>. DEFINE c == [Idle EXCEPT !.kind = "delete", !.pc = "stop"]
<1>. USE DEF ApiDelete
<1>1. c \in Call /\ ShapedCall(c, bound') /\ ~In(c) /\ ~In(procs[p])
    BY IdleIsCall DEF Call, Idle, ShapedCall, In, Free
<1>2. RestartExclusive'
    BY <1>1, StaysOut
<1>3. SessionKinds' /\ RegisteredIsWired'
    BY QuietSession, SameRegistry DEF IInv, TypeOK, SessionTypeOK
<1>4. left' \in [Outside -> Nat]
    BY SpendKinds DEF Outside
<1>. HIDE DEF c
<1>5. Goto(p, c)
    BY DEF c
<1>. QED BY <1>1, <1>2, <1>3, <1>4, <1>5, CallStep DEF IInv, TypeOK, SessionTypeOK

LEMMA DeletedKeeps ==
    ASSUME IInv, NEW p \in Procs, Deleted(p)
    PROVE  IInv'
<1>. USE DEF Deleted
<1>1. ~In(procs[p])
    BY DEF At, In
<1>2. RestartExclusive'
    BY <1>1, IdleIsOut, StaysOut
<1>3. SessionKinds' /\ registry' = NoRuntime
    BY StopKinds DEF IInv, TypeOK, SessionTypeOK
<1>4. RegisteredIsWired'
    BY <1>3 DEF RegisteredIsWired
<1>. QED BY <1>2, <1>3, <1>4, IdleIsCall, IdleIsShaped, CallStep DEF IInv, TypeOK, SessionTypeOK

LEMMA FindKeeps ==
    ASSUME IInv, NEW p \in Procs, Find(p)
    PROVE  IInv'
<1>. USE DEF Find
<1>1. PICK k \in Runtimes \ bound :
          bound' = bound \cup {k} /\ Goto(p, [procs[p] EXCEPT !.pc = "connect", !.rt = k])
    OBVIOUS
<1>. DEFINE c == [procs[p] EXCEPT !.pc = "connect", !.rt = k]
<1>2. procs[p] \in Call
    BY DEF IInv, TypeOK
<1>3. c \in Call /\ (In(c) <=> In(procs[p]))
    BY <1>2 DEF Call, In, At
<1>4. ShapedCall(c, bound')
    BY <1>1, <1>2 DEF ShapedCall, Call, IInv, Shaped, LoopPC
<1>. HIDE DEF c
<1>5. Goto(p, c)
    BY <1>1 DEF c
<1>6. RestartExclusive'
    BY <1>3, <1>5, StaysOut
<1>7. SessionKinds' /\ RegisteredIsWired'
    BY <1>1, QuietSession, SameRegistry DEF IInv, TypeOK, SessionTypeOK
<1>. QED BY <1>1, <1>3, <1>4, <1>5, <1>6, <1>7, CallStep DEF IInv, TypeOK, SessionTypeOK

LEMMA ThrowKeeps ==
    ASSUME IInv, NEW p \in Procs, Throw(p), procs[p].pc \in {"find", "connect", "pairing"},
           UNCHANGED <<doc, creds, wired, bound, timers>>, left' \in [Outside -> Nat]
    PROVE  IInv'
<1>. USE DEF IInv, TypeOK, SessionTypeOK
<1>1. RestartExclusive'
    BY ThrowKeepsExclusive
<1>2. CASE Return(p) /\ StopNow(inbox)
    <2>1. SessionKinds' /\ registry' = NoRuntime
        BY <1>2, StopKinds
    <2>2. RegisteredIsWired'
        BY <2>1 DEF RegisteredIsWired
    <2>. QED BY <1>1, <1>2, <2>1, <2>2, IdleIsCall, IdleIsShaped, CallStep DEF Return
<1>3. CASE Return(p) /\ UNCHANGED <<sock, inbox, events, wipes, registry>>
    <2>1. SessionKinds' /\ RegisteredIsWired'
        BY <1>3, QuietSession, SameRegistry
    <2>. QED BY <1>1, <1>3, <2>1, IdleIsCall, IdleIsShaped, CallStep DEF Return
<1>4. CASE /\ procs[p].kind = "loop" /\ procs[p].tries < MaxAttempts
           /\ Goto(p, [procs[p] EXCEPT !.pc = "backoff", !.rt = NoRuntime, !.tries = @ + 1])
           /\ restarting' = FALSE
           /\ UNCHANGED <<sock, inbox, events, wipes, registry>>
    <2>. DEFINE c == [procs[p] EXCEPT !.pc = "backoff", !.rt = NoRuntime, !.tries = @ + 1]
    <2>1. procs[p] \in Call
        OBVIOUS
    <2>2. procs[p].tries + 1 \in 0..MaxAttempts
        BY <1>4, <2>1, ManagerAssumption DEF Call
    <2>3. c \in Call
        BY <2>1, <2>2 DEF Call
    <2>4. ShapedCall(c, bound')
        BY <1>4, <2>1 DEF ShapedCall, Call, Shaped, LoopPC
    <2>5. SessionKinds' /\ RegisteredIsWired'
        BY <1>4, QuietSession, SameRegistry
    <2>. HIDE DEF c
    <2>6. Goto(p, c) /\ restarting' \in BOOLEAN /\ registry' \in Runtimes \cup {NoRuntime}
        BY <1>4 DEF c
    <2>. QED BY <1>1, <2>3, <2>4, <2>5, <2>6, CallStep
<1>. QED BY <1>2, <1>3, <1>4 DEF Throw

LEMMA FailuresKeep ==
    ASSUME IInv, NEW p \in Procs, FindNothing(p) \/ PairingFails(p) \/ StartFails(p)
    PROVE  IInv'
<1>1. CASE FindNothing(p)
    BY <1>1, ThrowKeeps DEF FindNothing, At, IInv, TypeOK
<1>2. CASE PairingFails(p)
    BY <1>2, ThrowKeeps DEF PairingFails, At, IInv, TypeOK
<1>3. CASE StartFails(p)
    <2>1. left' \in [Outside -> Nat]
        BY <1>3, SpendKinds DEF StartFails, Outside
    <2>. QED BY <1>3, <2>1, ThrowKeeps DEF StartFails
<1>. QED BY <1>1, <1>2, <1>3

(* start() registers the runtime it bound, whose socket exists. *)
LEMMA RegisterKeeps ==
    ASSUME IInv, NEW p \in Procs, Register(p), procs[p].pc \in {"connect", "pairing"},
           sock' \in [Runtimes -> {"none", "fresh", "opening", "open", "closed"}],
           sock'[procs[p].rt] # "none",
           UNCHANGED <<doc, creds, bound, inbox, events, wipes, timers, left>>
    PROVE  IInv'
<1>. USE DEF IInv, TypeOK, SessionTypeOK
<1>1. procs[p].rt \in bound /\ procs[p].rt \in Runtimes
    BY DEF Shaped
<1>2. In(procs[p]) \/ procs[p].kind # "loop"
    BY DEF Shaped, In, LoopPC
<1>3. RestartExclusive'
    BY <1>2, ReturnKeepsExclusive DEF Register
<1>4. RegisteredIsWired'
    BY <1>1 DEF Register, RegisteredIsWired
<1>5. SessionKinds'
    BY QuietSession
<1>6. /\ wired' \subseteq Runtimes /\ registry' \in Runtimes \cup {NoRuntime}
      /\ restarting' \in BOOLEAN /\ Goto(p, Idle)
    BY <1>1 DEF Register, Return
<1>. QED BY <1>3, <1>4, <1>5, <1>6, IdleIsCall, IdleIsShaped, CallStep

LEMMA ConnectKeeps ==
    ASSUME IInv, NEW p \in Procs, Connect(p) \/ Paired(p)
    PROVE  IInv'
<1>1. CASE Connect(p)
    <2>1. procs[p].rt \in Runtimes
        BY <1>1 DEF Connect, At, IInv, TypeOK, SessionTypeOK, Shaped
    <2>2. /\ sock' \in [Runtimes -> {"none", "fresh", "opening", "open", "closed"}]
          /\ sock'[procs[p].rt] # "none"
        BY <1>1, <2>1 DEF Connect, IInv, TypeOK, SessionTypeOK
    <2>. QED BY <1>1, <2>2, RegisterKeeps DEF Connect, At
<1>2. CASE Paired(p)
    <2>1. sock'[procs[p].rt] # "none"
        BY <1>2 DEF Paired, Live
    <2>. QED BY <1>2, <2>1, RegisterKeeps DEF Paired, At, IInv, TypeOK, SessionTypeOK
<1>. QED BY <1>1, <1>2

LEMMA AskPairingKeeps ==
    ASSUME IInv, NEW p \in Procs, AskPairing(p)
    PROVE  IInv'
<1>. DEFINE c == [procs[p] EXCEPT !.pc = "pairing"]
<1>. USE DEF AskPairing
<1>1. procs[p] \in Call /\ procs[p].rt \in bound /\ procs[p].kind # "loop"
    BY DEF At, IInv, TypeOK, Shaped
<1>2. c \in Call /\ ShapedCall(c, bound') /\ ~In(c) /\ ~In(procs[p])
    BY <1>1 DEF Call, ShapedCall, In
<1>. HIDE DEF c
<1>3. Goto(p, c)
    BY DEF c
<1>4. RestartExclusive'
    BY <1>2, <1>3, StaysOut
<1>5. SessionKinds' /\ RegisteredIsWired'
    BY QuietSession, SameRegistry DEF IInv, TypeOK, SessionTypeOK
<1>. QED BY <1>2, <1>3, <1>4, <1>5, CallStep DEF IInv, TypeOK, SessionTypeOK

LEMMA AttemptKeeps ==
    ASSUME IInv, NEW p \in Procs, Attempt(p)
    PROVE  IInv'
<1>. DEFINE c == [procs[p] EXCEPT !.pc = "pause"]
<1>. USE DEF Attempt
<1>1. procs[p] \in Call /\ procs[p].kind = "loop" /\ ~procs[p].phone
    BY DEF At, IInv, TypeOK, Shaped
<1>2. c \in Call /\ ShapedCall(c, bound') /\ In(c)
    BY <1>1 DEF Call, ShapedCall, In, LoopPC
<1>. HIDE DEF c
<1>3. Goto(p, c)
    BY DEF c
<1>4. RestartExclusive'
    BY <1>2, <1>3, ComesIn
<1>5. SessionKinds' /\ registry' = NoRuntime
    BY StopKinds DEF IInv, TypeOK, SessionTypeOK
<1>6. RegisteredIsWired'
    BY <1>5 DEF RegisteredIsWired
<1>7. timers' \in Seq(Procs)
    BY TimerKinds, AppendKinds
<1>8. left' \in [Outside -> Nat]
    BY PatienceKinds
<1>. QED BY <1>2, <1>3, <1>4, <1>5, <1>6, <1>7, <1>8, CallStep DEF IInv, TypeOK, SessionTypeOK

LEMMA AttemptSkippedKeeps ==
    ASSUME IInv, NEW p \in Procs, AttemptSkipped(p)
    PROVE  IInv'
<1>. USE DEF AttemptSkipped, sessionVars
<1>1. ~In(procs[p])
    BY DEF At, In
<1>2. RestartExclusive'
    BY <1>1, IdleIsOut, StaysOut
<1>3. SessionKinds' /\ RegisteredIsWired'
    BY QuietSession, SameRegistry DEF IInv, TypeOK, SessionTypeOK
<1>4. timers' \in Seq(Procs)
    BY TimerKinds
<1>5. left' \in [Outside -> Nat]
    BY PatienceKinds
<1>. QED BY <1>2, <1>3, <1>4, <1>5, IdleIsCall, IdleIsShaped, CallStep DEF IInv, TypeOK, SessionTypeOK

LEMMA StartAgainKeeps ==
    ASSUME IInv, NEW p \in Procs, StartAgain(p)
    PROVE  IInv'
<1>. DEFINE c == [procs[p] EXCEPT !.pc = "find"]
<1>. USE DEF StartAgain, sessionVars
<1>1. procs[p] \in Call /\ procs[p].kind = "loop" /\ ~procs[p].phone /\ In(procs[p])
    BY DEF At, IInv, TypeOK, Shaped, In
<1>2. c \in Call /\ ShapedCall(c, bound') /\ In(c)
    BY <1>1 DEF Call, ShapedCall, In, LoopPC
<1>3. /\ SessionKinds' /\ RegisteredIsWired' /\ timers' \in Seq(Procs)
      /\ left' \in [Outside -> Nat]
    BY QuietSession, SameRegistry, TimerKinds, PatienceKinds DEF IInv, TypeOK, SessionTypeOK
<1>. HIDE DEF c
<1>4. CASE Goto(p, c) /\ UNCHANGED restarting
    <2>1. RestartExclusive'
        BY <1>1, <1>2, <1>4, StaysOut
    <2>. QED BY <1>2, <1>3, <1>4, <2>1, CallStep DEF IInv, TypeOK, SessionTypeOK
<1>5. CASE Return(p)
    <2>1. RestartExclusive'
        BY <1>1, <1>5, ReturnKeepsExclusive
    <2>2. Goto(p, Idle) /\ restarting' \in BOOLEAN
        BY <1>5 DEF Return, IInv, TypeOK
    <2>. QED BY <1>3, <2>1, <2>2, IdleIsCall, IdleIsShaped, CallStep DEF IInv, TypeOK, SessionTypeOK
<1>. QED BY <1>4, <1>5 DEF c

LEMMA ReconnectKeeps ==
    ASSUME IInv, NEW m \in inbox, NEW p \in Procs, Reconnect(m, p)
    PROVE  IInv'
<1>. DEFINE c == [Idle EXCEPT !.kind = "loop", !.pc = "backoff", !.tries = 1]
<1>. USE DEF Reconnect
<1>1. 1 \in 0..MaxAttempts
    BY ManagerAssumption
<1>2. c \in Call /\ ShapedCall(c, bound') /\ ~In(c) /\ ~In(procs[p])
    BY <1>1, IdleIsCall, IdleIsOut DEF Call, ShapedCall, In, LoopPC, Free, Idle
<1>. HIDE DEF c
<1>3. Goto(p, c)
    BY DEF c
<1>4. RestartExclusive'
    BY <1>2, <1>3, StaysOut
<1>5. SessionKinds' /\ RegisteredIsWired'
    BY SameRegistry DEF SessionKinds, IInv, TypeOK, SessionTypeOK
<1>6. timers' \in Seq(Procs)
    BY AppendKinds DEF IInv, TypeOK
<1>. QED BY <1>2, <1>3, <1>4, <1>5, <1>6, CallStep DEF IInv, TypeOK, SessionTypeOK

LEMMA CrashKeeps ==
    ASSUME IInv, NEW p \in Procs, Crash(p)
    PROVE  IInv'
<1>. USE DEF Crash, SessionCrash
<1>1. /\ procs' \in [Procs -> Call]
      /\ Inside(procs') = {}
      /\ \A q \in Procs : \A b : ShapedCall(procs'[q], b)
    BY BootKinds
<1>2. Shaped'
    BY <1>1 DEF Shaped, ShapedCall
<1>3. RestartExclusive'
    BY <1>1 DEF RestartExclusive, InRestart, Inside, In
<1>4. left' \in [Outside -> Nat]
    BY SpendKinds DEF Outside
<1>5. SessionTypeOK'
    BY DEF SessionTypeOK, IInv, TypeOK
<1>6. TypeOK'
    BY <1>1, <1>4, <1>5, EmptySeq DEF TypeOK
<1>. QED BY <1>2, <1>3, <1>6 DEF IInv, RegisteredIsWired

LEMMA NothingKeeps == IInv /\ UNCHANGED vars => IInv'
BY DEF vars, sessionVars, IInv, TypeOK, SessionTypeOK, Shaped, RestartExclusive, InRestart,
       RegisteredIsWired

LEMMA NextKeeps == IInv /\ [Next]_vars => IInv'
<1>. SUFFICES ASSUME IInv, [Next]_vars PROVE IInv'
    OBVIOUS
<1>1. ASSUME NEW p \in Procs, Calls(p)
      PROVE  IInv'
    BY <1>1, FindKeeps, FailuresKeep, ConnectKeeps, AskPairingKeeps, DeletedKeeps,
       AttemptKeeps, AttemptSkippedKeeps, StartAgainKeeps DEF Calls
<1>2. ASSUME NEW p \in Procs, Requests(p) \/ StartFails(p) \/ Crash(p)
      PROVE  IInv'
    BY <1>2, ApiStartKeeps, ApiDeleteKeeps, FailuresKeep, CrashKeeps DEF Requests
<1>3. ASSUME NEW m \in inbox, Handlers(m)
      PROVE  IInv'
    BY <1>3, ReconnectKeeps, OtherStops DEF Handlers
<1>4. ASSUME NEW k \in Runtimes, NEW e \in Closings, Closes(k, e)
      PROVE  IInv'
    BY <1>4, ClosesKeeps
<1>5. CASE ApiStop \/ Opens \/ Pairs \/ Stores \/ Wipes
    BY <1>5, OtherStops, SessionSteps
<1>6. CASE Wait \/ UNCHANGED vars
    BY <1>6, NothingKeeps DEF Wait
<1>. QED BY <1>1, <1>2, <1>3, <1>4, <1>5, <1>6 DEF Next

-----------------------------------------------------------------------------
(* The inductive invariant holds in every state RuntimeManager reaches. *)
THEOREM ManagerInvariant == Spec => []IInv
BY InitHolds, NextKeeps, PTL DEF Spec

(* RuntimeManager, its registry and the session's variables stay well typed. *)
THEOREM TypeCorrect == Spec => []TypeOK
BY ManagerInvariant, PTL DEF IInv

(* RuntimeManager.restart: however many reconnection loops run, at most one  *)
(* is between stop() and start(), and _restarting says so; none is ever left *)
(* set by a failed start, which would end reconnection for good.             *)
THEOREM RestartsAreExclusive == Spec => []RestartExclusive
BY ManagerInvariant, PTL DEF IInv

(* RuntimeManager.start: what the registry holds can be stopped and hears of *)
(* its own end, whichever starts, stops and losses race.                     *)
THEOREM RegisteredRuntimesAreWired == Spec => []RegisteredIsWired
BY ManagerInvariant, PTL DEF IInv

(* MongoWhatsAppInstanceRepository.update: no late update of a runtime that  *)
(* outlives its instance brings the deleted document back.                   *)
THEOREM DeletionIsFinal == Spec => DeletedForGood
<1>1. [Next]_vars => [doc = "absent" => doc' = "absent"]_vars
    BY DEF Next, vars, sessionVars, Calls, Requests, Handlers, Find, FindNothing, Connect,
           AskPairing, Paired, PairingFails, StartFails, Deleted, Attempt, AttemptSkipped,
           StartAgain, ApiStart, ApiStop, ApiDelete, Reconnect, SessionLost, NoHandler,
           Closes, ServerCloses, Opens, Open, Pairs, Pair, Stores, Update, Store, Wipes, Wipe,
           Crash, SessionCrash, Wait
<1>. QED BY <1>1, PTL DEF Spec, DeletedForGood

-----------------------------------------------------------------------------
(* Reconnection on its own.  While no request starts the instance, the only  *)
(* calls that can create a socket are restoreAll() right after boot, when    *)
(* nothing else runs, and the one loop in restart(), which has just stopped  *)
(* the registered runtime, the only one with a live socket.                  *)
Starter(c) == c.pc \in {"pause", "find", "connect"}

Unasked(c) == /\ ~c.phone /\ c.kind # "start"
              /\ c.kind \in {"idle", "delete"} => c.pc \in {"idle", "stop"}

BootAlone ==
    \A p \in Procs : procs[p].kind = "restore" =>
        /\ inbox = {} /\ wired = {}
        /\ \A q \in Procs \ {p} : procs[q] = Idle

Alone ==
    /\ \A p \in Procs : Unasked(procs[p])
    /\ \A p, q \in Procs : Starter(procs[p]) /\ Starter(procs[q]) => p = q
    /\ (\E p \in Procs : Starter(procs[p])) => Live = {} /\ registry = NoRuntime
    /\ Live \subseteq {registry}
    /\ BootAlone

LEMMA CloseEnds ==
    ASSUME IInv, NEW k \in Runtimes, NEW e, NEW box, CloseSocket(k, e, box)
    PROVE  Live' = Live \ {k}
BY DEF CloseSocket, Live, IInv, TypeOK, SessionTypeOK

LEMMA StopEnds ==
    ASSUME IInv, NEW box, StopNow(box)
    PROVE  Live' = Live \ {registry} /\ registry' = NoRuntime
<1>1. CASE registry \in Live
    <2>1. registry \in Runtimes /\ registry # NoRuntime
        BY <1>1, ManagerAssumption DEF Live
    <2>. QED BY <1>1, <2>1, CloseEnds DEF StopNow, EndSocket
<1>2. CASE registry \notin Live
    <2>1. UNCHANGED sock
        BY <1>2 DEF StopNow, EndSocket
    <2>. QED BY <1>2, <2>1 DEF StopNow, Live
<1>. QED BY <1>1, <1>2

(* No step but a start request takes from the budget for them, and none adds. *)
Unstarted == left'["start"] = left["start"]

LEMMA SpendLess ==
    ASSUME IInv, NEW w \in Outside \ {"any"}, Spend(w)
    PROVE  /\ left'["start"] <= left["start"]
           /\ w = "start" => ~Unstarted
BY DEF Spend, Unstarted, IInv, TypeOK, Outside

LEMMA StartSpends ==
    ASSUME IInv, NEW p \in Procs, NEW phone \in BOOLEAN, ApiStart(p, phone)
    PROVE  ~Unstarted
BY SpendLess DEF ApiStart, Outside

LEMMA NeverRefilled ==
    ASSUME IInv, [Next]_vars
    PROVE  left'["start"] <= left["start"]
<1>1. CASE \E w \in Outside \ {"any"} : Spend(w)
    BY <1>1, SpendLess
<1>2. CASE UNCHANGED left
    BY <1>2 DEF IInv, TypeOK, Outside
<1>3. UNCHANGED left \/ \E w \in Outside \ {"any"} : Spend(w)
    BY DEF Next, vars, Calls, Requests, Handlers, Find, FindNothing, Connect, Register,
           AskPairing, Paired, PairingFails, StartFails, Deleted, Attempt, AttemptSkipped,
           StartAgain, Patience, ApiStart, ApiStop, ApiDelete, Reconnect, SessionLost, NoHandler,
           Closes, Opens, Pairs, Stores, Wipes, Manager, Crash, Wait, Outside
<1>. QED BY <1>1, <1>2, <1>3

(* A step of one call: what is left to check. *)
LEMMA AloneStep ==
    ASSUME IInv, Alone, NEW p \in Procs, NEW c, Goto(p, c), Unasked(c),
           Live' \subseteq {registry'}, BootAlone',
           Starter(c) => Live' = {} /\ registry' = NoRuntime,
           \/ \A q \in Procs \ {p} : ~Starter(procs[q])
           \/ ~Starter(c) /\ Live' \subseteq Live /\ registry' \in {registry, NoRuntime}
    PROVE  Alone'
<1>1. procs' = [procs EXCEPT ![p] = c] /\ procs \in [Procs -> Call]
    BY DEF Goto, IInv, TypeOK
<1>2. procs'[p] = c /\ \A q \in Procs \ {p} : procs'[q] = procs[q]
    BY <1>1
<1>3. \A q \in Procs : Unasked(procs'[q])
    BY <1>2 DEF Alone
<1>4. \A q, r \in Procs : Starter(procs'[q]) /\ Starter(procs'[r]) => q = r
    BY <1>2 DEF Alone
<1>5. (\E q \in Procs : Starter(procs'[q])) => Live' = {} /\ registry' = NoRuntime
    BY <1>2 DEF Alone
<1>. QED BY <1>3, <1>4, <1>5 DEF Alone

(* Once a call other than restoreAll() runs, nothing is being restored. *)
LEMMA BootEnds ==
    ASSUME IInv, Alone, NEW p \in Procs, NEW c, Goto(p, c), procs[p] # Idle,
           c.kind # "restore"
    PROVE  BootAlone'
<1>1. procs' = [procs EXCEPT ![p] = c] /\ procs \in [Procs -> Call]
    BY DEF Goto, IInv, TypeOK
<1>2. \A q \in Procs \ {p} : procs[q].kind # "restore"
    BY DEF Alone, BootAlone
<1>3. \A q \in Procs : procs'[q].kind # "restore"
    BY <1>1, <1>2
<1>. QED BY <1>3 DEF BootAlone

LEMMA BootOver ==
    ASSUME IInv, ~Booting \/ inbox # {} \/ wired # {}, Alone, NEW p \in Procs, NEW c, Goto(p, c),
           c.kind # "restore"
    PROVE  BootAlone'
<1>1. procs' = [procs EXCEPT ![p] = c] /\ procs \in [Procs -> Call]
    BY DEF Goto, IInv, TypeOK
<1>2. \A q \in Procs : procs[q].kind # "restore"
    BY DEF Alone, BootAlone, Booting
<1>3. \A q \in Procs : procs'[q].kind # "restore"
    BY <1>1, <1>2
<1>. QED BY <1>3 DEF BootAlone

LEMMA IdleIsUnasked == Unasked(Idle) /\ ~Starter(Idle) /\ Idle.kind # "restore"
BY DEF Idle, Unasked, Starter

LEMMA NotIdle ==
    ASSUME NEW p \in Procs, procs[p].pc # "idle"
    PROVE  procs[p] # Idle
BY DEF Idle

(* A fresh process has nothing but restoreAll(). *)
LEMMA BootIsAlone ==
    ASSUME NEW f, NEW p \in Procs, NEW status, Boot(f, p, status)
    PROVE  /\ \A q \in Procs : Unasked(f[q])
           /\ \A q, r \in Procs : Starter(f[q]) /\ Starter(f[r]) => q = r
           /\ \A q \in Procs : f[q].kind = "restore" => \A r \in Procs \ {q} : f[r] = Idle
<1>. DEFINE R == [Idle EXCEPT !.kind = "restore", !.pc = "find"]
<1>1. Unasked(R) /\ Unasked(Idle) /\ ~Starter(Idle) /\ Idle.kind # "restore"
    BY DEF Idle, Unasked, Starter
<1>2. \A q \in Procs \ {p} : f[q] = Idle
    BY DEF Boot, Restoring
<1>3. f[p] \in {R, Idle}
    BY DEF Boot, Restoring
<1>. QED BY <1>1, <1>2, <1>3

LEMMA InitAlone == Init => Alone
<1>. SUFFICES ASSUME Init PROVE Alone
    OBVIOUS
<1>1. PICK p \in Procs : Boot(procs, p, doc)
    BY DEF Init
<1>2. Live = {} /\ registry = NoRuntime /\ inbox = {} /\ wired = {}
    BY DEF Init, SessionInit, Live
<1>. QED BY <1>1, <1>2, BootIsAlone DEF Alone, BootAlone

LEMMA CrashAlone ==
    ASSUME IInv, Alone, NEW p \in Procs, Crash(p)
    PROVE  Alone'
<1>1. Boot(procs', p, doc)
    BY DEF Crash
<1>2. Live' = {} /\ registry' = NoRuntime /\ inbox' = {} /\ wired' = {}
    BY DEF Crash, SessionCrash, Live
<1>4. /\ \A q \in Procs : Unasked(procs'[q])
      /\ \A q, r \in Procs : Starter(procs'[q]) /\ Starter(procs'[r]) => q = r
      /\ \A q \in Procs : procs'[q].kind = "restore" => \A r \in Procs \ {q} : procs'[r] = Idle
    BY <1>1, BootIsAlone
<1>. QED BY <1>2, <1>4 DEF Alone, BootAlone

(* The steps that change no call. *)
LEMMA QuietAlone ==
    ASSUME IInv, Alone, UNCHANGED procs, BootAlone',
           Live' \subseteq Live /\ (registry' = registry \/ (registry' = NoRuntime /\ Live' = {}))
    PROVE  Alone'
BY DEF Alone

LEMMA NoBoot ==
    ASSUME Alone, ~Booting \/ inbox # {} \/ wired # {}, UNCHANGED procs
    PROVE  BootAlone'
BY DEF Alone, BootAlone, Booting

LEMMA SessionAlone ==
    ASSUME IInv, Alone, Opens \/ Pairs \/ Stores \/ Wipes
    PROVE  Alone'
<1>1. UNCHANGED <<procs, registry, wired>>
    BY DEF Opens, Pairs, Stores, Wipes, Manager, Open, Pair, Update, Wipe
<1>2. Live' \subseteq Live /\ BootAlone'
    <2>1. ASSUME NEW k \in Runtimes, Open(k)
          PROVE  Live' \subseteq Live /\ BootAlone'
        <3>1. BootAlone'
            BY <1>1, <2>1, NoBoot DEF Open
        <3>. QED BY <2>1, <3>1 DEF Open, Live, IInv, TypeOK, SessionTypeOK
    <2>2. ASSUME NEW k \in Runtimes, Pair(k)
          PROVE  Live' \subseteq Live /\ BootAlone'
        <3>1. BootAlone'
            BY <1>1, <2>2, NoBoot DEF Pair
        <3>. QED BY <2>2, <3>1, CloseEnds DEF Pair
    <2>3. ASSUME NEW m \in inbox, Update(m)
          PROVE  Live' \subseteq Live /\ BootAlone'
        <3>1. BootAlone'
            BY <1>1, NoBoot
        <3>. QED BY <2>3, <3>1 DEF Update, Live
    <2>4. CASE Wipe
        BY <1>1, <2>4 DEF Wipe, Live, Alone, BootAlone
    <2>. QED BY <2>1, <2>2, <2>3, <2>4 DEF Opens, Pairs, Stores, Wipes
<1>. QED BY <1>1, <1>2, QuietAlone DEF Alone

LEMMA ClosesAlone ==
    ASSUME IInv, Alone, NEW k \in Runtimes, NEW e \in Closings, Closes(k, e)
    PROVE  Alone'
<1>1. UNCHANGED <<procs, registry, wired>> /\ CloseSocket(k, e, inbox)
    BY DEF Closes, ServerCloses
<1>2. Live' \subseteq Live
    BY <1>1, CloseEnds
<1>4. BootAlone'
    <2>1. CASE k \in wired
        BY <1>1, <2>1, NoBoot
    <2>2. CASE k \notin wired
        BY <1>1, <2>2 DEF CloseSocket, Alone, BootAlone
    <2>. QED BY <2>1, <2>2
<1>. QED BY <1>1, <1>2, <1>4, QuietAlone

LEMMA StopsAlone ==
    ASSUME IInv, Alone, ApiStop \/ (\E m \in inbox : SessionLost(m) \/ NoHandler(m))
    PROVE  Alone'
<1>1. CASE ApiStop
    <2>1. UNCHANGED procs /\ StopNow(inbox) /\ ~Booting
        BY <1>1 DEF ApiStop
    <2>. QED BY <2>1, NoBoot, StopEnds, QuietAlone DEF Alone
<1>2. ASSUME NEW m \in inbox, SessionLost(m)
      PROVE  Alone'
    <2>1. UNCHANGED procs /\ StopNow(inbox \ {m})
        BY <1>2 DEF SessionLost
    <2>. QED BY <2>1, NoBoot, StopEnds, QuietAlone DEF Alone
<1>3. ASSUME NEW m \in inbox, NoHandler(m)
      PROVE  Alone'
    <2>1. UNCHANGED <<procs, registry, sock>>
        BY <1>3 DEF NoHandler
    <2>2. Live' = Live
        BY <2>1 DEF Live
    <2>3. BootAlone'
        BY <2>1, NoBoot
    <2>. QED BY <2>1, <2>2, <2>3, QuietAlone DEF Alone
<1>. QED BY <1>1, <1>2, <1>3

LEMMA StartAlone ==
    ASSUME IInv, Alone, NEW p \in Procs, Find(p) \/ StartAgain(p)
    PROVE  Alone'
<1>1. Starter(procs[p]) /\ procs[p] # Idle /\ procs[p] \in Call
    BY NotIdle DEF Find, StartAgain, At, Starter, IInv, TypeOK
<1>2. Live = {} /\ registry = NoRuntime /\ \A q \in Procs \ {p} : ~Starter(procs[q])
    BY <1>1 DEF Alone
<1>3. UNCHANGED <<sock, registry, inbox, wired>>
    BY DEF Find, StartAgain, sessionVars
<1>4. Live' = {} /\ registry' = NoRuntime
    BY <1>2, <1>3 DEF Live
<1>5. PICK c : /\ Goto(p, c)
               /\ c.pc \in {"find", "connect"} /\ c.kind = procs[p].kind /\ c.phone = procs[p].phone
    <2>1. CASE Find(p)
        <3>1. PICK k \in Runtimes : Goto(p, [procs[p] EXCEPT !.pc = "connect", !.rt = k])
            BY <2>1 DEF Find
        <3>2. LET c == [procs[p] EXCEPT !.pc = "connect", !.rt = k]
              IN  c.pc = "connect" /\ c.kind = procs[p].kind /\ c.phone = procs[p].phone
            BY <1>1 DEF Call
        <3>. QED BY <3>1, <3>2
    <2>2. CASE StartAgain(p)
        <3>1. Goto(p, [procs[p] EXCEPT !.pc = "find"])
            BY <1>2, <2>2 DEF StartAgain
        <3>2. LET c == [procs[p] EXCEPT !.pc = "find"]
              IN  c.pc = "find" /\ c.kind = procs[p].kind /\ c.phone = procs[p].phone
            BY <1>1 DEF Call
        <3>. QED BY <3>1, <3>2
    <2>. QED BY <2>1, <2>2
<1>6. Unasked(c)
    BY <1>1, <1>5 DEF Alone, Unasked, Starter
<1>7. BootAlone'
    <2>1. CASE procs[p].kind = "restore"
        <3>1. \A q \in Procs \ {p} : procs'[q] = Idle
            BY <1>5, <2>1 DEF Goto, Alone, BootAlone, IInv, TypeOK
        <3>2. inbox' = {} /\ wired' = {}
            BY <1>3, <2>1 DEF Alone, BootAlone
        <3>. QED BY <3>1, <3>2, IdleIsUnasked DEF BootAlone
    <2>2. CASE procs[p].kind # "restore"
        BY <1>1, <1>5, <2>2, BootEnds
    <2>. QED BY <2>1, <2>2
<1>. QED BY <1>2, <1>4, <1>5, <1>6, <1>7, AloneStep

LEMMA ConnectAlone ==
    ASSUME IInv, Alone, NEW p \in Procs, Connect(p) \/ Paired(p) \/ AskPairing(p)
    PROVE  Alone'
<1>1. ~procs[p].phone /\ procs[p].pc # "pairing"
    BY DEF Alone, Unasked, IInv, Shaped
<1>2. Connect(p)
    BY <1>1 DEF Paired, AskPairing, At
<1>3. Starter(procs[p]) /\ procs[p] # Idle
    BY <1>2, NotIdle DEF Connect, At, Starter
<1>4. Live = {} /\ \A q \in Procs \ {p} : ~Starter(procs[q])
    BY <1>3 DEF Alone
<1>5. Goto(p, Idle) /\ registry' = procs[p].rt
    BY <1>2 DEF Connect, Register, Return
<1>6. Live' \subseteq {procs[p].rt}
    BY <1>2, <1>4 DEF Connect, Live, IInv, TypeOK, SessionTypeOK
<1>7. BootAlone'
    BY <1>3, <1>5, IdleIsUnasked, BootEnds
<1>. QED BY <1>4, <1>5, <1>6, <1>7, IdleIsUnasked, AloneStep DEF Alone

LEMMA ThrowAlone ==
    ASSUME IInv, Alone, NEW p \in Procs, FindNothing(p) \/ PairingFails(p) \/ StartFails(p)
    PROVE  Alone'
<1>1. Throw(p) /\ procs[p] # Idle
    BY NotIdle DEF FindNothing, PairingFails, StartFails, At
<1>3. Live' \subseteq Live /\ (registry' = registry \/ (registry' = NoRuntime /\ Live' = {}))
    <2>1. CASE StopNow(inbox)
        BY <2>1, StopEnds DEF Alone
    <2>2. CASE UNCHANGED <<sock, registry>>
        BY <2>2 DEF Live
    <2>. QED BY <1>1, <2>1, <2>2 DEF Throw
<1>4. PICK c : Goto(p, c) /\ Unasked(c) /\ ~Starter(c) /\ c.kind # "restore"
    <2>1. procs[p] \in Call /\ ~procs[p].phone
        BY DEF IInv, TypeOK, Alone, Unasked
    <2>2. CASE procs[p].kind = "loop"
        <3>. DEFINE d == [procs[p] EXCEPT !.pc = "backoff", !.rt = NoRuntime, !.tries = @ + 1]
        <3>1. Unasked(d) /\ ~Starter(d) /\ d.kind # "restore"
            BY <2>1, <2>2 DEF Call, Unasked, Starter
        <3>. HIDE DEF d
        <3>2. Goto(p, d) \/ Goto(p, Idle)
            BY <1>1 DEF Throw, Return, d
        <3>. QED BY <3>1, <3>2, IdleIsUnasked
    <2>3. CASE procs[p].kind # "loop"
        BY <1>1, <2>3, IdleIsUnasked DEF Throw, Return
    <2>. QED BY <2>2, <2>3
<1>5. BootAlone'
    BY <1>1, <1>4, BootEnds
<1>. QED BY <1>3, <1>4, <1>5, AloneStep DEF Alone

LEMMA LoopAlone ==
    ASSUME IInv, Alone, NEW p \in Procs, Attempt(p) \/ AttemptSkipped(p) \/ Deleted(p)
    PROVE  Alone'
<1>1. procs[p] # Idle /\ procs[p] \in Call
    BY NotIdle DEF Attempt, AttemptSkipped, Deleted, At, IInv, TypeOK
<1>2. CASE Attempt(p)
    <2>. DEFINE c == [procs[p] EXCEPT !.pc = "pause"]
    <2>1. procs[p].kind = "loop" /\ ~procs[p].phone
        BY <1>2 DEF Attempt, At, IInv, Shaped
    <2>2. Unasked(c) /\ c.kind # "restore"
        BY <1>1, <2>1 DEF Call, Unasked
    <2>. HIDE DEF c
    <2>3. Goto(p, c)
        BY <1>2 DEF Attempt, c
    <2>4. Live' = {} /\ registry' = NoRuntime
        BY <1>2, StopEnds DEF Attempt, Alone
    <2>5. ASSUME NEW q \in Procs, Starter(procs[q])
          PROVE  FALSE
        <3>1. procs[q] \in Call /\ q \notin InRestart
            BY <1>2 DEF Attempt, IInv, TypeOK, RestartExclusive
        <3>2. procs[q].kind = "restore"
            BY <2>5, <3>1 DEF Call, Starter, InRestart, Alone, Unasked
        <3>3. q = p
            BY <1>1, <3>2 DEF Alone, BootAlone
        <3>. QED BY <2>1, <3>2, <3>3
    <2>6. BootAlone'
        BY <1>1, <2>2, <2>3, BootEnds
    <2>. QED BY <1>1, <2>2, <2>3, <2>4, <2>5, <2>6, AloneStep DEF Alone
<1>3. CASE AttemptSkipped(p)
    <2>1. Goto(p, Idle) /\ UNCHANGED <<sock, registry>>
        BY <1>3 DEF AttemptSkipped, sessionVars
    <2>2. Live' = Live
        BY <2>1 DEF Live
    <2>3. BootAlone'
        BY <1>1, <2>1, IdleIsUnasked, BootEnds
    <2>. QED BY <1>1, <2>1, <2>2, <2>3, IdleIsUnasked, AloneStep DEF Alone
<1>4. CASE Deleted(p)
    <2>1. Goto(p, Idle) /\ Live' = {} /\ registry' = NoRuntime
        BY <1>4, StopEnds DEF Deleted, Alone
    <2>2. BootAlone'
        BY <1>1, <2>1, IdleIsUnasked, BootEnds
    <2>. QED BY <1>1, <2>1, <2>2, IdleIsUnasked, AloneStep DEF Alone
<1>. QED BY <1>2, <1>3, <1>4

LEMMA RequestAlone ==
    ASSUME IInv, Alone, NEW p \in Procs,
           Requests(p) \/ (\E m \in inbox : Reconnect(m, p)), Unstarted
    PROVE  Alone'
<1>1. ASSUME NEW phone \in BOOLEAN, ApiStart(p, phone)
      PROVE  FALSE
    BY <1>1, StartSpends
<1>2. CASE ApiDelete(p)
    <2>. DEFINE c == [Idle EXCEPT !.kind = "delete", !.pc = "stop"]
    <2>1. Unasked(c) /\ ~Starter(c) /\ c.kind # "restore"
        BY DEF Unasked, Starter, Idle
    <2>. HIDE DEF c
    <2>2. Goto(p, c) /\ ~Booting /\ UNCHANGED <<sock, registry>>
        BY <1>2 DEF ApiDelete, c
    <2>4. Live' = Live
        BY <2>2 DEF Live
    <2>5. BootAlone'
        BY <2>1, <2>2, BootOver
    <2>. QED BY <2>1, <2>2, <2>4, <2>5, AloneStep DEF Alone
<1>3. ASSUME NEW m \in inbox, Reconnect(m, p)
      PROVE  Alone'
    <2>. DEFINE c == [Idle EXCEPT !.kind = "loop", !.pc = "backoff", !.tries = 1]
    <2>1. Unasked(c) /\ ~Starter(c) /\ c.kind # "restore"
        BY DEF Unasked, Starter, Idle
    <2>. HIDE DEF c
    <2>2. Goto(p, c) /\ UNCHANGED <<sock, registry>>
        BY <1>3 DEF Reconnect, c
    <2>3. Live' = Live
        BY <2>2 DEF Live
    <2>4. BootAlone'
        BY <2>1, <2>2, BootOver
    <2>. QED BY <2>1, <2>2, <2>3, <2>4, AloneStep DEF Alone
<1>. QED BY <1>1, <1>2, <1>3 DEF Requests

LEMMA NextAlone == IInv /\ Alone /\ Unstarted /\ [Next]_vars => Alone'
<1>. SUFFICES ASSUME IInv, Alone, Unstarted, [Next]_vars PROVE Alone'
    OBVIOUS
<1>1. ASSUME NEW p \in Procs, Calls(p) \/ Requests(p) \/ StartFails(p) \/ Crash(p)
      PROVE  Alone'
    BY <1>1, StartAlone, ConnectAlone, ThrowAlone, LoopAlone, RequestAlone, CrashAlone DEF Calls
<1>2. ASSUME NEW m \in inbox, Handlers(m)
      PROVE  Alone'
    BY <1>2, RequestAlone, StopsAlone DEF Handlers
<1>3. ASSUME NEW k \in Runtimes, NEW e \in Closings, Closes(k, e)
      PROVE  Alone'
    BY <1>3, ClosesAlone
<1>4. CASE ApiStop \/ Opens \/ Pairs \/ Stores \/ Wipes
    BY <1>4, StopsAlone, SessionAlone
<1>5. CASE Wait \/ UNCHANGED vars
    BY <1>5 DEF Wait, vars, sessionVars, Alone, BootAlone, Live
<1>. QED BY <1>1, <1>2, <1>3, <1>4, <1>5 DEF Next

(* While the budget for start requests is untouched, nobody asked for one. *)
AloneUntilAsked ==
    /\ left["start"] <= Budget["start"]
    /\ left["start"] = Budget["start"] => Alone

LEMMA NextUntilAsked == IInv /\ AloneUntilAsked /\ [Next]_vars => AloneUntilAsked'
<1>. SUFFICES ASSUME IInv, AloneUntilAsked, [Next]_vars PROVE AloneUntilAsked'
    OBVIOUS
<1>1. left["start"] \in Nat /\ left'["start"] \in Nat /\ Budget["start"] \in Nat
    BY NextKeeps, ManagerAssumption DEF IInv, TypeOK, Outside
<1>2. left'["start"] <= left["start"]
    BY NeverRefilled
<1>3. ASSUME left'["start"] = Budget["start"]
      PROVE  Alone'
    <2>1. Unstarted /\ left["start"] = Budget["start"]
        BY <1>1, <1>2, <1>3 DEF AloneUntilAsked, Unstarted
    <2>. QED BY <2>1, NextAlone DEF AloneUntilAsked
<1>4. left'["start"] <= Budget["start"]
    BY <1>1, <1>2 DEF AloneUntilAsked
<1>. QED BY <1>3, <1>4 DEF AloneUntilAsked

(* RuntimeManager.restoreAll, handleReconnect and restart never open a second *)
(* socket by themselves, whatever losses, failed starts, disconnect requests, *)
(* deletions and crashes happen and however late Mongo answers: it takes a    *)
(* request that starts the instance.                                          *)
THEOREM ReconnectionOpensOneSocket == Spec => []OneSocket
<1>1. Init => AloneUntilAsked
    <2>1. Init => left["start"] = Budget["start"] /\ Budget["start"] \in Nat
        BY ManagerAssumption DEF Init, Outside
    <2>. QED BY <2>1, InitAlone DEF AloneUntilAsked
<1>2. AloneUntilAsked => OneSocket
    BY DEF AloneUntilAsked, Alone, OneSocket, NotStartedTwice
<1>3. Spec => []IInv
    BY ManagerInvariant
<1>. QED BY <1>1, <1>2, <1>3, NextUntilAsked, PTL DEF Spec

(* Registry, _restarting, sockets and listeners agree at every moment. *)
THEOREM RuntimeIsSound == Spec => []RuntimeSound
BY TypeCorrect, RestartsAreExclusive, RegisteredRuntimesAreWired, PTL DEF RuntimeSound

-----------------------------------------------------------------------------
(* What the document says.  Only a runtime that listens can have an open     *)
(* socket, and nothing connects on a runtime that already does: so whatever  *)
(* closes an open socket is announced.  The updates that follow an event are *)
(* asked for together; while Mongo is never late those of the last event are *)
(* the last it applies.                                                      *)
Connecting(c) == c.pc \in {"connect", "pairing"}
Opened        == {k \in Runtimes : sock[k] = "open"}

Wiring ==
    /\ Opened \subseteq wired
    /\ wired \subseteq bound
    /\ \A p \in Procs : Connecting(procs[p]) => procs[p].rt \notin wired
    /\ \A p, q \in Procs :
           Connecting(procs[p]) /\ Connecting(procs[q]) /\ procs[p].rt = procs[q].rt => p = q

Updates == {m \in inbox : m.stage = "update"}
Latest  == {m \in Updates : m.num = events}

Told ==
    /\ \A m \in Updates : m.num <= events
    /\ Updates # {} => Latest # {}
    /\ \A m \in Latest : m.event = "connected" => Opened # {}
    /\ events > 0 /\ Latest = {} /\ doc = "connected" => Opened # {}

(* While the budget for late updates is untouched, Mongo was never late. *)
ToldUntilLate ==
    /\ left["late"] <= Budget["late"]
    /\ left["late"] = Budget["late"] => Told

LEMMA GotoCalls ==
    ASSUME IInv, NEW p \in Procs, NEW c, Goto(p, c)
    PROVE  procs'[p] = c /\ \A q \in Procs \ {p} : procs'[q] = procs[q]
BY DEF Goto, IInv, TypeOK

(* A step of a call that does not connect afterwards, on the same runtimes. *)
LEMMA WiringMoves ==
    ASSUME IInv, Wiring, NEW p \in Procs, NEW c, Goto(p, c), ~Connecting(c),
           UNCHANGED <<wired, bound>>, Opened' \subseteq Opened
    PROVE  Wiring'
BY GotoCalls DEF Wiring

LEMMA WiringStays ==
    ASSUME Wiring, UNCHANGED <<procs, wired, bound>>, Opened' \subseteq wired
    PROVE  Wiring'
BY DEF Wiring

LEMMA CloseOpened ==
    ASSUME IInv, NEW k \in Runtimes, NEW e, NEW box, CloseSocket(k, e, box)
    PROVE  Opened' = Opened \ {k}
BY DEF CloseSocket, Opened, IInv, TypeOK, SessionTypeOK

LEMMA StopOpened ==
    ASSUME IInv, NEW box, StopNow(box)
    PROVE  Opened' \subseteq Opened
<1>1. CASE registry \in Live
    <2>1. registry \in Runtimes /\ registry # NoRuntime
        BY <1>1, ManagerAssumption DEF Live
    <2>. QED BY <1>1, <2>1, CloseOpened DEF StopNow, EndSocket
<1>2. CASE registry \notin Live
    <2>1. UNCHANGED sock
        BY <1>2 DEF StopNow, EndSocket
    <2>. QED BY <2>1 DEF Opened
<1>. QED BY <1>1, <1>2

LEMMA FindWired ==
    ASSUME IInv, Wiring, NEW p \in Procs, Find(p)
    PROVE  Wiring'
<1>1. PICK k \in Runtimes \ bound :
          bound' = bound \cup {k} /\ Goto(p, [procs[p] EXCEPT !.pc = "connect", !.rt = k])
    BY DEF Find
<1>. DEFINE c == [procs[p] EXCEPT !.pc = "connect", !.rt = k]
<1>2. procs[p] \in Call
    BY DEF IInv, TypeOK
<1>3. c.rt = k
    BY <1>2 DEF Call
<1>. HIDE DEF c
<1>4. procs'[p] = c /\ \A q \in Procs \ {p} : procs'[q] = procs[q]
    BY <1>1, GotoCalls DEF c
<1>5. UNCHANGED <<wired, sock>>
    BY DEF Find
<1>6. \A q \in Procs : Connecting(procs[q]) => procs[q].rt # k
    BY <1>1 DEF IInv, Shaped, Connecting
<1>7. k \notin wired
    BY <1>1 DEF Wiring
<1>8. Opened' = Opened
    BY <1>5 DEF Opened
<1>9. \A q \in Procs : Connecting(procs'[q]) => procs'[q].rt \notin wired'
    BY <1>3, <1>4, <1>5, <1>7 DEF Wiring
<1>10. \A q, r \in Procs :
           Connecting(procs'[q]) /\ Connecting(procs'[r]) /\ procs'[q].rt = procs'[r].rt => q = r
    BY <1>3, <1>4, <1>6 DEF Wiring
<1>. QED BY <1>1, <1>5, <1>8, <1>9, <1>10 DEF Wiring

LEMMA ConnectOpened ==
    ASSUME IInv, Wiring, NEW p \in Procs, Connect(p) \/ AskPairing(p) \/ Paired(p)
    PROVE  Opened' = Opened /\ procs[p].rt \in bound \ wired
<1>1. procs[p].rt \in bound \ wired
    BY DEF Connect, AskPairing, Paired, At, IInv, Shaped, Wiring, Connecting
<1>2. procs[p].rt \notin Opened
    BY <1>1 DEF Wiring
<1>3. CASE Paired(p)
    BY <1>1, <1>3 DEF Paired, Opened
<1>4. CASE Connect(p) \/ AskPairing(p)
    <2>1. PICK s \in {"opening", "fresh"} : sock' = [sock EXCEPT ![procs[p].rt] = s]
        BY <1>4 DEF Connect, AskPairing
    <2>. QED BY <1>1, <1>2, <2>1 DEF Opened, IInv, TypeOK, SessionTypeOK
<1>. QED BY <1>3, <1>4

LEMMA RegisterWired ==
    ASSUME IInv, Wiring, NEW p \in Procs, Connect(p) \/ Paired(p)
    PROVE  Wiring'
<1>1. Opened' = Opened /\ procs[p].rt \in bound \ wired /\ Connecting(procs[p])
    BY ConnectOpened DEF Connect, Paired, At, Connecting
<1>2. wired' = wired \cup {procs[p].rt} /\ UNCHANGED bound /\ Goto(p, Idle)
    BY DEF Connect, Paired, Register, Return
<1>3. procs'[p] = Idle /\ ~Connecting(Idle) /\ \A q \in Procs \ {p} : procs'[q] = procs[q]
    BY <1>2, GotoCalls, IdleIsOut DEF Connecting
<1>. QED BY <1>1, <1>2, <1>3 DEF Wiring

LEMMA AskPairingWired ==
    ASSUME IInv, Wiring, NEW p \in Procs, AskPairing(p)
    PROVE  Wiring'
<1>1. Opened' = Opened /\ Connecting(procs[p])
    BY ConnectOpened DEF AskPairing, At, Connecting
<1>. DEFINE c == [procs[p] EXCEPT !.pc = "pairing"]
<1>2. c.rt = procs[p].rt
    BY DEF IInv, TypeOK, Call
<1>. HIDE DEF c
<1>3. Goto(p, c) /\ UNCHANGED <<wired, bound>>
    BY DEF AskPairing, c
<1>4. procs'[p] = c /\ \A q \in Procs \ {p} : procs'[q] = procs[q]
    BY <1>3, GotoCalls
<1>. QED BY <1>1, <1>2, <1>3, <1>4 DEF Wiring

LEMMA ThrowOpened ==
    ASSUME IInv, NEW p \in Procs, FindNothing(p) \/ PairingFails(p) \/ StartFails(p)
    PROVE  /\ UNCHANGED <<wired, bound>> /\ Opened' \subseteq Opened
           /\ \E c : Goto(p, c) /\ ~Connecting(c)
<1>1. Throw(p) /\ UNCHANGED <<wired, bound>>
    BY DEF FindNothing, PairingFails, StartFails
<1>2. Opened' \subseteq Opened
    <2>1. CASE StopNow(inbox)
        BY <2>1, StopOpened
    <2>2. CASE UNCHANGED sock
        BY <2>2 DEF Opened
    <2>. QED BY <1>1, <2>1, <2>2 DEF Throw
<1>3. \E c : Goto(p, c) /\ ~Connecting(c)
    <2>. DEFINE d == [procs[p] EXCEPT !.pc = "backoff", !.rt = NoRuntime, !.tries = @ + 1]
    <2>1. ~Connecting(d)
        BY DEF IInv, TypeOK, Call, Connecting
    <2>. HIDE DEF d
    <2>2. Goto(p, d) \/ Goto(p, Idle)
        BY <1>1 DEF Throw, Return, d
    <2>. QED BY <2>1, <2>2, IdleIsOut DEF Connecting
<1>. QED BY <1>1, <1>2, <1>3

LEMMA LoopOpened ==
    ASSUME IInv, NEW p \in Procs,
           Attempt(p) \/ AttemptSkipped(p) \/ StartAgain(p) \/ Deleted(p)
    PROVE  /\ UNCHANGED <<wired, bound>> /\ Opened' \subseteq Opened
           /\ \E c : Goto(p, c) /\ ~Connecting(c)
<1>1. UNCHANGED <<wired, bound>>
    BY DEF Attempt, AttemptSkipped, StartAgain, Deleted, sessionVars
<1>2. Opened' \subseteq Opened
    <2>1. CASE Attempt(p) \/ Deleted(p)
        BY <2>1, StopOpened DEF Attempt, Deleted
    <2>2. CASE AttemptSkipped(p) \/ StartAgain(p)
        BY <2>2 DEF AttemptSkipped, StartAgain, sessionVars, Opened
    <2>. QED BY <2>1, <2>2
<1>3. \E c : Goto(p, c) /\ ~Connecting(c)
    <2>1. /\ ~Connecting([procs[p] EXCEPT !.pc = "pause"])
          /\ ~Connecting([procs[p] EXCEPT !.pc = "find"])
        BY DEF IInv, TypeOK, Call, Connecting
    <2>2. ~Connecting(Idle)
        BY IdleIsOut DEF Connecting
    <2>. QED BY <2>1, <2>2 DEF Attempt, AttemptSkipped, StartAgain, Deleted, Return
<1>. QED BY <1>1, <1>2, <1>3

LEMMA RequestOpened ==
    ASSUME IInv, NEW p \in Procs, Requests(p) \/ (\E m \in inbox : Reconnect(m, p))
    PROVE  /\ UNCHANGED <<wired, bound, sock, events>>
           /\ \E c : Goto(p, c) /\ ~Connecting(c)
<1>1. UNCHANGED <<wired, bound, sock, events>>
    BY DEF Requests, ApiStart, ApiDelete, Reconnect, sessionVars
<1>2. /\ \A phone \in BOOLEAN : ~Connecting([Idle EXCEPT !.kind = "start", !.pc = "find", !.phone = phone])
      /\ ~Connecting([Idle EXCEPT !.kind = "delete", !.pc = "stop"])
      /\ ~Connecting([Idle EXCEPT !.kind = "loop", !.pc = "backoff", !.tries = 1])
    BY DEF Idle, Connecting
<1>3. ASSUME NEW phone \in BOOLEAN, ApiStart(p, phone)
      PROVE  \E c : Goto(p, c) /\ ~Connecting(c)
    BY <1>2, <1>3 DEF ApiStart
<1>4. CASE ApiDelete(p)
    BY <1>2, <1>4 DEF ApiDelete
<1>5. ASSUME NEW m \in inbox, Reconnect(m, p)
      PROVE  \E c : Goto(p, c) /\ ~Connecting(c)
    BY <1>2, <1>5 DEF Reconnect
<1>. QED BY <1>1, <1>3, <1>4, <1>5 DEF Requests

LEMMA BootWired ==
    ASSUME NEW f, NEW p \in Procs, NEW status, Boot(f, p, status)
    PROVE  \A q \in Procs : ~Connecting(f[q])
BY DEF Boot, Restoring, Idle, Connecting

LEMMA InitWired == Init => Wiring
<1>. SUFFICES ASSUME Init PROVE Wiring
    OBVIOUS
<1>1. PICK p \in Procs : Boot(procs, p, doc)
    BY DEF Init
<1>. QED BY <1>1, BootWired DEF Wiring, Init, SessionInit, Opened

LEMMA CrashWired ==
    ASSUME NEW p \in Procs, Crash(p)
    PROVE  Wiring'
<1>1. \A q \in Procs : ~Connecting(procs'[q])
    BY BootWired DEF Crash
<1>. QED BY <1>1 DEF Wiring, Crash, SessionCrash, Opened

(* The steps that change no call: sockets open, close, or stay. *)
LEMMA QuietWired ==
    ASSUME IInv, Wiring,
           \/ ApiStop \/ Opens \/ Pairs \/ Stores \/ Wipes
           \/ \E m \in inbox : SessionLost(m) \/ NoHandler(m)
           \/ \E k \in Runtimes, e \in Closings : Closes(k, e)
    PROVE  Wiring'
<1>1. UNCHANGED <<procs, wired, bound>>
    BY DEF ApiStop, Opens, Pairs, Stores, Wipes, Manager, SessionLost, NoHandler, Closes,
           Open, Pair, Update, Wipe, ServerCloses
<1>2. CASE ApiStop \/ \E m \in inbox : SessionLost(m)
    <2>1. Opened' \subseteq Opened
        BY <1>2, StopOpened DEF ApiStop, SessionLost
    <2>. QED BY <1>1, <2>1, WiringStays DEF Wiring
<1>3. CASE Stores \/ Wipes \/ \E m \in inbox : NoHandler(m)
    <2>1. Opened' = Opened
        BY <1>3 DEF Stores, Update, Wipes, Wipe, NoHandler, Opened
    <2>. QED BY <1>1, <2>1, WiringStays DEF Wiring
<1>4. CASE Pairs \/ \E k \in Runtimes, e \in Closings : Closes(k, e)
    <2>1. \E k \in Runtimes : \E e : CloseSocket(k, e, inbox)
        BY <1>4 DEF Pairs, Pair, Closes, ServerCloses
    <2>2. Opened' \subseteq Opened
        BY <2>1, CloseOpened
    <2>. QED BY <1>1, <2>2, WiringStays DEF Wiring
<1>5. ASSUME NEW k \in Runtimes, Open(k), UNCHANGED Manager
      PROVE  Wiring'
    <2>1. Opened' \subseteq Opened \cup {k} /\ k \in wired
        BY <1>5 DEF Open, Opened, IInv, TypeOK, SessionTypeOK
    <2>2. UNCHANGED <<procs, wired, bound>>
        BY <1>5 DEF Open, Manager
    <2>. QED BY <2>1, <2>2, WiringStays DEF Wiring
<1>. QED BY <1>2, <1>3, <1>4, <1>5 DEF Opens

LEMMA NextWired == IInv /\ Wiring /\ [Next]_vars => Wiring'
<1>. SUFFICES ASSUME IInv, Wiring, [Next]_vars PROVE Wiring'
    OBVIOUS
<1>1. ASSUME NEW p \in Procs, Calls(p) \/ StartFails(p)
      PROVE  Wiring'
    BY <1>1, FindWired, RegisterWired, AskPairingWired, ThrowOpened, LoopOpened, WiringMoves
       DEF Calls
<1>2. ASSUME NEW p \in Procs, Requests(p) \/ (\E m \in inbox : Reconnect(m, p))
      PROVE  Wiring'
    <2>1. Opened' = Opened
        BY <1>2, RequestOpened DEF Opened
    <2>. QED BY <1>2, <2>1, RequestOpened, WiringMoves
<1>3. ASSUME NEW p \in Procs, Crash(p)
      PROVE  Wiring'
    BY <1>3, CrashWired
<1>4. CASE Wait \/ UNCHANGED vars
    BY <1>4 DEF Wait, vars, sessionVars, Wiring, Opened
<1>. QED BY <1>1, <1>2, <1>3, <1>4, QuietWired DEF Next, Handlers

(* A step that announces nothing: the updates under way, and what they say, *)
(* stay; one that announces e asks every bound runtime for an update.       *)
Silent == /\ Updates' = Updates /\ UNCHANGED events
          /\ doc' \in {doc, "absent"}
          /\ Opened # {} => Opened' # {}

Announces == \E e \in Event :
                 /\ events' = events + 1
                 /\ Updates' = Updates \cup
                        {[rt |-> k, event |-> e, num |-> events + 1, stage |-> "update"] : k \in bound}
                 /\ bound # {}
                 /\ e = "connected" => Opened' # {}

LEMMA SilentTold ==
    ASSUME Told, Silent
    PROVE  Told'
BY DEF Told, Silent, Latest

LEMMA AnnouncedTold ==
    ASSUME IInv, Told, Announces
    PROVE  Told'
<1>1. PICK e \in Event :
          /\ events' = events + 1
          /\ Updates' = Updates \cup
                 {[rt |-> k, event |-> e, num |-> events + 1, stage |-> "update"] : k \in bound}
          /\ bound # {}
          /\ e = "connected" => Opened' # {}
    BY DEF Announces
<1>2. events \in Nat /\ \A m \in Updates : m.num \in Nat /\ m.num <= events
    BY DEF IInv, TypeOK, SessionTypeOK, Letter, Updates, Told
<1>3. \A m \in Updates' : m \in Updates \/ (m.num = events' /\ m.event = e)
    BY <1>1
<1>4. \A m \in Updates' : m.num <= events'
    BY <1>1, <1>2, <1>3
<1>5. \A m \in Latest' : m.event = e
    BY <1>1, <1>2, <1>3 DEF Latest
<1>6. Latest' # {}
    <2>1. PICK k \in bound : TRUE
        BY <1>1
    <2>. DEFINE n == [rt |-> k, event |-> e, num |-> events + 1, stage |-> "update"]
    <2>2. n \in Updates' /\ n.num = events'
        BY <1>1
    <2>. QED BY <2>2 DEF Latest
<1>. QED BY <1>1, <1>4, <1>5, <1>6 DEF Told

(* Mongo applies an update in its turn. *)
LEMMA StoredTold ==
    ASSUME IInv, Told, NEW m \in inbox, Update(m), InTurn(m)
    PROVE  Told'
<1>1. m \in Updates /\ UNCHANGED <<events, sock>> /\ Opened' = Opened
    BY DEF Update, Updates, Opened
<1>2. Updates' = Updates \ {m}
    <2>1. [m EXCEPT !.stage = "publish"].stage = "publish"
        BY DEF IInv, TypeOK, SessionTypeOK, Letter
    <2>. DEFINE l == [m EXCEPT !.stage = "publish"]
    <2>2. inbox' = (inbox \ {m}) \cup (IF m.event = "connected" THEN {} ELSE {l})
        BY DEF Update
    <2>3. l.stage # "update"
        BY <2>1
    <2>. HIDE DEF l
    <2>. QED BY <2>2, <2>3 DEF Updates
<1>3. \A n \in Updates : n.num \in Nat /\ m.num \in Nat /\ m.num <= n.num
    BY <1>1 DEF InTurn, Updates, IInv, TypeOK, SessionTypeOK, Letter
<1>4. events \in Nat /\ \A n \in Updates : n.num <= events
    BY DEF IInv, TypeOK, SessionTypeOK, Told
<1>5. doc' = "connected" => m.event = "connected"
    BY <1>1 DEF Update, Store, StatusOf
<1>6. CASE m \in Latest
    <2>1. Latest' = Updates'
        BY <1>1, <1>2, <1>3, <1>4, <1>6 DEF Latest
    <2>2. m.event = "connected" => Opened' # {}
        BY <1>1, <1>6 DEF Told
    <2>3. \A n \in Latest' : n \in Latest
        BY <1>1, <1>2 DEF Latest
    <2>. QED BY <1>1, <1>2, <1>4, <1>5, <2>1, <2>2, <2>3 DEF Told
<1>7. CASE m \notin Latest
    <2>1. Latest' = Latest
        BY <1>1, <1>2, <1>7 DEF Latest
    <2>. QED BY <1>1, <1>2, <1>4, <2>1 DEF Told
<1>. QED BY <1>6, <1>7

(* What closes a socket that is listened to announces it; any other was not *)
(* open.                                                                    *)
LEMMA CloseTells ==
    ASSUME IInv, Wiring, NEW k \in Runtimes, NEW e \in DisconnectType, NEW box \in SUBSET inbox,
           CloseSocket(k, e, box), {m \in box : m.stage = "update"} = Updates,
           UNCHANGED doc
    PROVE  Silent \/ Announces
<1>1. Opened' = Opened \ {k}
    BY CloseOpened
<1>2. CASE k \in wired
    <2>1. /\ events' = events + 1
          /\ inbox' = box \cup {[rt |-> j, event |-> e, num |-> events + 1, stage |-> "update"] :
                                    j \in bound}
        BY <1>2 DEF CloseSocket, Emit
    <2>2. Updates' = Updates \cup
              {[rt |-> j, event |-> e, num |-> events + 1, stage |-> "update"] : j \in bound}
        BY <2>1 DEF Updates
    <2>3. bound # {} /\ e \in Event /\ e # "connected"
        BY <1>2 DEF Wiring, Event, DisconnectType
    <2>. QED BY <2>1, <2>2, <2>3 DEF Announces
<1>3. CASE k \notin wired
    <2>1. Opened' = Opened
        BY <1>1, <1>3 DEF Wiring
    <2>. QED BY <1>3, <2>1 DEF CloseSocket, Silent, Updates
<1>. QED BY <1>2, <1>3

LEMMA StopTells ==
    ASSUME IInv, Wiring, NEW box \in SUBSET inbox, StopNow(box),
           {m \in box : m.stage = "update"} = Updates, UNCHANGED doc
    PROVE  Silent \/ Announces
<1>1. CASE registry \in Live
    <2>1. registry \in Runtimes /\ registry # NoRuntime
        BY <1>1, ManagerAssumption DEF Live
    <2>. QED BY <1>1, <2>1, CloseTells DEF StopNow, EndSocket, DisconnectType
<1>2. CASE registry \notin Live
    <2>1. inbox' = box /\ UNCHANGED <<sock, events>>
        BY <1>2 DEF StopNow, EndSocket
    <2>. QED BY <2>1 DEF Silent, Updates, Opened
<1>. QED BY <1>1, <1>2

LEMMA StillSilent ==
    ASSUME UNCHANGED <<inbox, events, sock>>, doc' \in {doc, "absent"}
    PROVE  Silent
BY DEF Silent, Updates, Opened

(* What each step tells. *)
LEMMA CallTells ==
    ASSUME IInv, Wiring, NEW p \in Procs, Calls(p) \/ StartFails(p)
    PROVE  Silent \/ Announces
<1>1. CASE Find(p) \/ AttemptSkipped(p) \/ StartAgain(p)
    BY <1>1, StillSilent DEF Find, AttemptSkipped, StartAgain, sessionVars
<1>2. CASE Connect(p) \/ AskPairing(p) \/ Paired(p)
    <2>1. UNCHANGED <<inbox, events, doc>>
        BY <1>2 DEF Connect, AskPairing, Paired
    <2>. QED BY <1>2, <2>1, ConnectOpened DEF Silent, Updates
<1>3. CASE FindNothing(p) \/ PairingFails(p) \/ StartFails(p)
    <2>1. Throw(p) /\ UNCHANGED doc
        BY <1>3 DEF FindNothing, PairingFails, StartFails
    <2>2. CASE StopNow(inbox)
        BY <2>1, <2>2, StopTells DEF Updates
    <2>3. CASE UNCHANGED <<sock, inbox, events>>
        BY <2>1, <2>3, StillSilent
    <2>. QED BY <2>1, <2>2, <2>3 DEF Throw
<1>4. CASE Attempt(p) \/ Deleted(p)
    <2>1. StopNow(inbox) /\ UNCHANGED doc
        BY <1>4 DEF Attempt, Deleted
    <2>. QED BY <2>1, StopTells DEF Updates
<1>. QED BY <1>1, <1>2, <1>3, <1>4 DEF Calls

LEMMA RequestTells ==
    ASSUME NEW p \in Procs, Requests(p)
    PROVE  Silent
BY StillSilent DEF Requests, ApiStart, ApiDelete, sessionVars

LEMMA HandlerTells ==
    ASSUME IInv, Wiring, NEW m \in inbox, Handlers(m)
    PROVE  Silent \/ Announces
<1>1. m.stage = "publish" /\ UNCHANGED doc
    BY DEF Handlers, Reconnect, SessionLost, NoHandler
<1>2. {n \in inbox \ {m} : n.stage = "update"} = Updates
    BY <1>1 DEF Updates
<1>3. CASE SessionLost(m)
    BY <1>1, <1>2, <1>3, StopTells DEF SessionLost
<1>4. CASE inbox' = inbox \ {m} /\ UNCHANGED <<sock, events>>
    BY <1>1, <1>2, <1>4 DEF Silent, Updates, Opened
<1>. QED BY <1>3, <1>4 DEF Handlers, Reconnect, NoHandler

LEMMA SocketTells ==
    ASSUME IInv, Wiring,
           ApiStop \/ Opens \/ Pairs \/ Wipes \/ \E k \in Runtimes, e \in Closings : Closes(k, e)
    PROVE  Silent \/ Announces
<1>1. CASE ApiStop
    BY <1>1, StopTells DEF ApiStop, Updates
<1>2. ASSUME NEW k \in Runtimes, Open(k)
      PROVE  Announces
    <2>1. k \in Opened' /\ k \in bound
        BY <1>2 DEF Open, Opened, Wiring, IInv, TypeOK, SessionTypeOK
    <2>2. Updates' = Updates \cup
              {[rt |-> j, event |-> "connected", num |-> events + 1, stage |-> "update"] : j \in bound}
        BY <1>2 DEF Open, Emit, Updates
    <2>. QED BY <1>2, <2>1, <2>2 DEF Open, Emit, Announces, Event
<1>3. ASSUME NEW k \in Runtimes, NEW e \in DisconnectType, CloseSocket(k, e, inbox), UNCHANGED doc
      PROVE  Silent \/ Announces
    BY <1>3, CloseTells DEF Updates
<1>4. CASE Pairs
    BY <1>3, <1>4 DEF Pairs, Pair, DisconnectType
<1>5. CASE \E k \in Runtimes, e \in Closings : Closes(k, e)
    BY <1>3, <1>5, ManagerAssumption DEF Closes, ServerCloses
<1>6. CASE Wipes
    BY <1>6, StillSilent DEF Wipes, Wipe
<1>. QED BY <1>1, <1>2, <1>4, <1>5, <1>6 DEF Opens

LEMMA CrashTold ==
    ASSUME NEW p \in Procs, Crash(p)
    PROVE  Told'
BY DEF Crash, SessionCrash, Told, Latest, Updates

LEMMA InitTold == Init => Told
BY DEF Init, SessionInit, Told, Latest, Updates

(* A late update spends from the budget for them; nothing adds to it. *)
LEMMA LateSpends ==
    ASSUME IInv, NEW w \in Outside \ {"any"}, Spend(w)
    PROVE  /\ left'["late"] <= left["late"]
           /\ w = "late" => left'["late"] # left["late"]
BY DEF Spend, IInv, TypeOK, Outside

LEMMA LateNeverRefilled ==
    ASSUME IInv, [Next]_vars
    PROVE  left'["late"] <= left["late"]
<1>1. UNCHANGED left \/ \E w \in Outside \ {"any"} : Spend(w)
    BY DEF Next, vars, Calls, Requests, Handlers, Find, FindNothing, Connect, Register,
           AskPairing, Paired, PairingFails, StartFails, Deleted, Attempt, AttemptSkipped,
           StartAgain, Patience, ApiStart, ApiStop, ApiDelete, Reconnect, SessionLost, NoHandler,
           Closes, Opens, Pairs, Stores, Wipes, Manager, Crash, Wait, Outside
<1>. QED BY <1>1, LateSpends DEF IInv, TypeOK, Outside

LEMMA NextTold ==
    IInv /\ Wiring /\ Told /\ left'["late"] = left["late"] /\ [Next]_vars => Told'
<1>. SUFFICES ASSUME IInv, Wiring, Told, left'["late"] = left["late"], [Next]_vars PROVE Told'
    OBVIOUS
<1>1. CASE Silent \/ Announces
    BY <1>1, SilentTold, AnnouncedTold
<1>2. CASE Stores
    <2>1. PICK m \in inbox : Update(m) /\ (InTurn(m) \/ Spend("late"))
        BY <1>2 DEF Stores
    <2>2. ~Spend("late")
        BY LateSpends DEF Outside
    <2>. QED BY <2>1, <2>2, StoredTold
<1>3. ASSUME NEW p \in Procs, Crash(p)
      PROVE  Told'
    BY <1>3, CrashTold
<1>4. CASE Wait \/ UNCHANGED vars
    BY <1>1, <1>4, StillSilent DEF Wait, vars, sessionVars
<1>. QED BY <1>1, <1>2, <1>3, <1>4, CallTells, RequestTells, HandlerTells, SocketTells DEF Next

LEMMA NextToldUntilLate == IInv /\ Wiring /\ ToldUntilLate /\ [Next]_vars => ToldUntilLate'
<1>. SUFFICES ASSUME IInv, Wiring, ToldUntilLate, [Next]_vars PROVE ToldUntilLate'
    OBVIOUS
<1>1. left["late"] \in Nat /\ left'["late"] \in Nat /\ Budget["late"] \in Nat
    BY NextKeeps, ManagerAssumption DEF IInv, TypeOK, Outside
<1>2. left'["late"] <= left["late"] /\ left["late"] <= Budget["late"]
    BY LateNeverRefilled DEF ToldUntilLate
<1>3. ASSUME left'["late"] = Budget["late"]
      PROVE  Told'
    <2>1. left'["late"] = left["late"] /\ left["late"] = Budget["late"]
        BY <1>1, <1>2, <1>3
    <2>. QED BY <2>1, NextTold DEF ToldUntilLate
<1>4. left'["late"] <= Budget["late"]
    BY <1>1, <1>2
<1>. QED BY <1>3, <1>4 DEF ToldUntilLate

(* Whatever sockets, losses, requests, failures and crashes there were, as    *)
(* long as MongoWhatsAppInstanceRepository.update applied what it was asked   *)
(* in turn: at rest the document says connected only if a socket is open.     *)
THEOREM StatusIsTruthful == Spec => []StatusTruthful
<1>1. Init => ToldUntilLate
    <2>1. Init => left["late"] = Budget["late"] /\ Budget["late"] \in Nat
        BY ManagerAssumption DEF Init, Outside
    <2>. QED BY <2>1, InitTold DEF ToldUntilLate
<1>2. Told /\ AtRest => StatusTruthful
    BY DEF Told, Latest, Updates, AtRest, StatusTruthful, Opened
<1>3. ToldUntilLate => StatusTruthful
    BY <1>2 DEF ToldUntilLate, StatusTruthful
<1>4. Spec => []IInv
    BY ManagerInvariant
<1>5. Spec => []Wiring
    BY <1>4, InitWired, NextWired, PTL DEF Spec
<1>. QED BY <1>1, <1>3, <1>4, <1>5, NextToldUntilLate, PTL DEF Spec
=============================================================================
