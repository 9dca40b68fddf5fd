------------------------------ MODULE ApiProofs ------------------------------
(***************************************************************************)
(* Proofs about Api for any number of requests, instances and names.       *)
(*                                                                         *)
(* A turn of a handler is a recursive function over the steps of its       *)
(* endpoint: it exists, and where it ends its marks are those of a path    *)
(* (TurnEnds).  So every request is at a step with the marks of a path to  *)
(* it, and the invariant says besides what these marks mean for the state  *)
(* that requests share: a document that was deleted stays absent, a        *)
(* runtime that was stopped stays away unless a request connected it or a  *)
(* reconnection had found the document before it was deleted.              *)
(***************************************************************************)
EXTENDS EndpointPaths, TLAPS, WellFoundedInduction

-----------------------------------------------------------------------------
\* Induction over sets of natural numbers, from the well-foundedness of <.
LEMMA NotBefore ==
    ASSUME NEW x \in Nat, NEW y \in Nat, <<x, y>> \notin OpToRel(<, Nat)
    PROVE  ~(x < y)
BY DEF OpToRel

LEMMA LeastNatural ==
    ASSUME NEW T \in SUBSET Nat, T # {}
    PROVE  \E m \in T : \A k \in T : m <= k
<1>1. IsWellFoundedOn(OpToRel(<, Nat), Nat)
  BY NatLessThanWellFounded
<1>2. PICK m \in T : \A y \in T : ~(<<y, m>> \in OpToRel(<, Nat))
  BY <1>1, WFMin
<1>3. \A y \in T : ~(y < m)
  <2>1. TAKE y \in T
  <2>2. <<y, m>> \notin OpToRel(<, Nat) /\ y \in Nat /\ m \in Nat
    BY <1>2
  <2>. HIDE <1>2
  <2>. QED BY <2>2, NotBefore
<1>. QED BY <1>3

LEMMA NaturalInduction ==
    ASSUME NEW T \in SUBSET Nat, 0 \in T, \A n \in T : n + 1 \in T
    PROVE  T = Nat
<1>. DEFINE U == Nat \ T
<1>1. SUFFICES ASSUME U # {} PROVE FALSE
  OBVIOUS
<1>2. PICK m \in U : \A k \in U : m <= k
  BY <1>1, LeastNatural
<1>3. m # 0 /\ m - 1 \in Nat /\ m - 1 \notin U
  BY <1>2
<1>4. m - 1 \in T
  BY <1>3
<1>5. (m - 1) + 1 \in T
  BY <1>4
<1>. QED BY <1>2, <1>5

-----------------------------------------------------------------------------
(* The turn of a handler: the recursive function exists, and what it leaves *)
(* is what the paths of the endpoint say.                                   *)
TurnAt(q, i, copy, f, j) ==
    LET s == Steps(q)[j]
        e == Throws(s, q, i, copy)
    IN  CASE e # "none" \/ s.do \in {"await", "reply"} ->
                [pc |-> j, fault |-> e, marks |-> {}]
          [] e = "none" /\ s.do = "skip" ->
                IF Holds(s.arg, i, copy)
                THEN [f[j + s.error + 1] EXCEPT !.marks = @ \cup {s.arg}]
                ELSE f[j + 1]
          [] e = "none" /\ s.do = "now" -> [f[j + 1] EXCEPT !.marks = @ \cup {s.arg}]
          [] OTHER -> f[j + 1]

LEMMA StepFacts ==
    ASSUME NEW e \in DOMAIN Endpoint
    PROVE  /\ Len(Endpoint[e].steps) \in Nat
           /\ DOMAIN Endpoint[e].steps = 1..Len(Endpoint[e].steps)
           /\ 1 \in DOMAIN Endpoint[e].steps /\ {} \in Arrive[e][1]
           /\ WritesBack(e) => ReadsFlowsOnly(e)
           /\ "send" \notin Excused(e)
           /\ \A k \in DOMAIN Endpoint[e].steps :
                 WellMade(e, k) /\ \A marks \in Arrive[e][k] : Arriving(e, k, marks)
BY EndpointsAssumption

(* TurnAt looks only at later steps. *)
LEMMA TurnLooksAhead ==
    ASSUME NEW q, q.to \in DOMAIN Endpoint, NEW i, NEW copy, NEW f, NEW g, NEW n \in Nat,
           n = Len(Endpoint[q.to].steps), NEW j \in 1..n, \A k \in (j + 1)..n : f[k] = g[k]
    PROVE  TurnAt(q, i, copy, f, j) = TurnAt(q, i, copy, g, j)
<1>. DEFINE s == Endpoint[q.to].steps[j]
<1>1. WellMade(q.to, j)
    BY StepFacts
<1>2. s.do # "reply" => f[j + 1] = g[j + 1]
    BY <1>1 DEF WellMade
<1>3. s.do = "skip" => f[j + s.error + 1] = g[j + s.error + 1]
    BY <1>1 DEF WellMade
<1>. QED BY <1>2, <1>3 DEF TurnAt, Steps

LEMMA TurnExists ==
    ASSUME NEW q, q.to \in DOMAIN Endpoint, NEW i, NEW copy, NEW n \in Nat,
           n = Len(Endpoint[q.to].steps)
    PROVE  \E f : f = [j \in 1..n |-> TurnAt(q, i, copy, f, j)]
<1>. DEFINE Last(m, f) == f = [j \in (n - m + 1)..n |-> TurnAt(q, i, copy, f, j)]
            T == {m \in Nat : m <= n => \E f : Last(m, f)}
<1>1. 0 \in T
    <2>1. [j \in (n - 0 + 1)..n |-> 0] = [j \in (n - 0 + 1)..n |-> TurnAt(q, i, copy, [k \in (n - 0 + 1)..n |-> 0], j)]
        <3>1. \A j \in (n - 0 + 1)..n : FALSE
            OBVIOUS
        <3>. QED BY <3>1
    <2>. QED BY <2>1
<1>2. \A m \in T : m + 1 \in T
    <2>1. SUFFICES ASSUME NEW m \in Nat, m + 1 <= n, NEW f, Last(m, f)
                   PROVE  \E g : Last(m + 1, g)
        OBVIOUS
    <2>. DEFINE first == TurnAt(q, i, copy, f, n - m)
                g == [j \in (n - m)..n |-> IF j = n - m THEN first ELSE f[j]]
    <2>2. \A j \in (n - m)..n : g[j] = TurnAt(q, i, copy, g, j)
        <3>1. TAKE j \in (n - m)..n
        <3>2. j \in 1..n /\ \A k \in (j + 1)..n : f[k] = g[k]
            BY <2>1
        <3>3. TurnAt(q, i, copy, f, j) = TurnAt(q, i, copy, g, j)
            <4>. HIDE DEF g
            <4>. QED BY <3>2, TurnLooksAhead
        <3>4. j # n - m => f[j] = TurnAt(q, i, copy, f, j)
            <4>1. j # n - m => j \in (n - m + 1)..n
                OBVIOUS
            <4>. QED BY <2>1, <4>1
        <3>. QED BY <3>3, <3>4
    <2>3. n - (m + 1) + 1 = n - m
        OBVIOUS
    <2>4. g = [j \in (n - m)..n |-> g[j]]
        OBVIOUS
    <2>5. Last(m + 1, g)
        <3>. HIDE DEF g
        <3>. QED BY <2>2, <2>3, <2>4
    <2>. QED BY <2>5
<1>3. T = Nat
    <2>1. T \in SUBSET Nat
        OBVIOUS
    <2>. HIDE DEF T
    <2>. QED BY <1>1, <1>2, <2>1, NaturalInduction
<1>4. PICK f : Last(n, f)
    BY <1>3
<1>5. n - n + 1 = 1
    OBVIOUS
<1>. QED BY <1>4, <1>5

LEMMA TurnIsRecursive ==
    ASSUME NEW q, q.to \in DOMAIN Endpoint, NEW i, NEW copy, NEW n \in Nat,
           n = Len(Endpoint[q.to].steps)
    PROVE  \E f : /\ \A k \in 1..n : Turn(q, i, k, copy) = f[k]
                  /\ \A j \in 1..n : f[j] = TurnAt(q, i, copy, f, j)
<1>. DEFINE Recursive(f) == f = [j \in 1..n |-> TurnAt(q, i, copy, f, j)]
            turn == CHOOSE f : Recursive(f)
<1>1. Recursive(turn)
    BY TurnExists
<1>2. \A k : Turn(q, i, k, copy) = turn[k]
    BY DEF Turn, TurnAt, Steps
<1>. HIDE DEF turn
<1>. QED BY <1>1, <1>2

(* No class of errors is called none. *)
LEMMA ErrorNames == "none" \notin ErrorClass
BY DEF ErrorClass, Parent

(* What a turn does without waiting, and the conditions it found to hold. *)
Conditions == {"registered", "unregistered", "found"}
TurnMarks  == {"register", "unregister", "send", "syncChats"} \cup Conditions

(* Where a turn from step j can end, with which marks and error. *)
Ends(q, i, copy, j, t) ==
    /\ t = [pc |-> t.pc, fault |-> t.fault, marks |-> t.marks]
    /\ t.pc \in j..Len(Steps(q))
    /\ t.fault = Throws(Steps(q)[t.pc], q, i, copy)
    /\ t.fault # "none" \/ Steps(q)[t.pc].do \in {"await", "reply"}
    /\ t.marks \subseteq TurnMarks
    /\ \A c \in Conditions \cap t.marks : Holds(c, i, copy)
    /\ \A marks \in Arrive[q.to][j] : marks \cup t.marks \in Arrive[q.to][t.pc]

LEMMA TurnPasses ==
    ASSUME NEW q, q.to \in DOMAIN Endpoint, NEW i, NEW copy, NEW f, NEW n \in Nat,
           n = Len(Endpoint[q.to].steps), NEW j \in 1..n,
           \A k \in (j + 1)..n : Ends(q, i, copy, k, f[k])
    PROVE  Ends(q, i, copy, j, TurnAt(q, i, copy, f, j))
<1>1. PICK s : s = Endpoint[q.to].steps[j]
    OBVIOUS
<1>2. PICK e : e = Throws(s, q, i, copy)
    OBVIOUS
<1>3. WellMade(q.to, j) /\ \A marks \in Arrive[q.to][j] : Arriving(q.to, j, marks)
    BY StepFacts
<1>4. CASE e # "none" \/ s.do \in {"await", "reply"}
    <2>1. TurnAt(q, i, copy, f, j) = [pc |-> j, fault |-> e, marks |-> {}]
        BY <1>1, <1>2, <1>4 DEF TurnAt, Steps
    <2>. QED BY <1>1, <1>2, <1>4, <2>1 DEF Ends, Steps
<1>5. ASSUME NEW k \in (j + 1)..n, NEW m,
             TurnAt(q, i, copy, f, j) = [f[k] EXCEPT !.marks = @ \cup m],
             m \subseteq TurnMarks, \A c \in Conditions \cap m : Holds(c, i, copy),
             \A marks \in Arrive[q.to][j] : marks \cup m \in Arrive[q.to][k]
      PROVE  Ends(q, i, copy, j, TurnAt(q, i, copy, f, j))
    <2>1. PICK u : u = f[k] /\ Ends(q, i, copy, k, u)
        OBVIOUS
    <2>2. PICK t : t = [u EXCEPT !.marks = @ \cup m]
        OBVIOUS
    <2>3. /\ t = [pc |-> t.pc, fault |-> t.fault, marks |-> t.marks]
          /\ t.pc = u.pc /\ t.fault = u.fault /\ t.marks = u.marks \cup m
        BY <2>1, <2>2 DEF Ends
    <2>4. ASSUME NEW marks \in Arrive[q.to][j]
          PROVE  marks \cup t.marks \in Arrive[q.to][t.pc]
        <3>1. (marks \cup m) \cup u.marks \in Arrive[q.to][u.pc]
            BY <1>5, <2>1 DEF Ends
        <3>2. (marks \cup m) \cup u.marks = marks \cup t.marks
            BY <2>3
        <3>. QED BY <2>3, <3>1, <3>2
    <2>5. TurnAt(q, i, copy, f, j) = t
        BY <1>5, <2>1, <2>2
    <2>6. t.pc \in j..Len(Steps(q))
        BY <2>1, <2>3 DEF Ends, Steps
    <2>7. /\ t.fault = Throws(Steps(q)[t.pc], q, i, copy)
          /\ t.fault # "none" \/ Steps(q)[t.pc].do \in {"await", "reply"}
        BY <2>1, <2>3 DEF Ends
    <2>8. t.marks \subseteq TurnMarks /\ \A c \in Conditions \cap t.marks : Holds(c, i, copy)
        BY <1>5, <2>1, <2>3 DEF Ends
    <2>9. Ends(q, i, copy, j, t)
        BY <2>3, <2>4, <2>6, <2>7, <2>8 DEF Ends
    <2>. QED BY <2>5, <2>9
<1>6. ASSUME NEW k \in (j + 1)..n, TurnAt(q, i, copy, f, j) = f[k],
             \A marks \in Arrive[q.to][j] : marks \in Arrive[q.to][k]
      PROVE  Ends(q, i, copy, j, TurnAt(q, i, copy, f, j))
    <2>1. PICK u : u = f[k] /\ Ends(q, i, copy, k, u)
        OBVIOUS
    <2>2. u.pc \in j..Len(Steps(q))
        BY <2>1 DEF Ends, Steps
    <2>3. \A marks \in Arrive[q.to][j] : marks \cup u.marks \in Arrive[q.to][u.pc]
        BY <1>6, <2>1 DEF Ends
    <2>4. Ends(q, i, copy, j, u)
        BY <2>1, <2>2, <2>3 DEF Ends
    <2>. QED BY <1>6, <2>1, <2>4
<1>7. CASE e = "none" /\ s.do = "skip"
    <2>1. /\ j + 1 \in (j + 1)..n /\ j + s.error + 1 \in (j + 1)..n
          /\ {s.arg} \subseteq TurnMarks
        BY <1>1, <1>3, <1>7 DEF WellMade, TurnMarks, Conditions
    <2>2. Ways(q.to, j) = {<<j + 1, {}>>, <<j + s.error + 1, {s.arg}>>}
        BY <1>1, <1>7 DEF Ways
    <2>3. \A marks \in Arrive[q.to][j] :
              marks \in Arrive[q.to][j + 1] /\ marks \cup {s.arg} \in Arrive[q.to][j + s.error + 1]
        <3>1. TAKE marks \in Arrive[q.to][j]
        <3>2. \A w \in Ways(q.to, j) : marks \cup w[2] \in Arrive[q.to][w[1]]
            BY <1>3 DEF Arriving
        <3>3. <<j + 1, {}>> \in Ways(q.to, j) /\ <<j + s.error + 1, {s.arg}>> \in Ways(q.to, j)
            BY <2>2
        <3>4. marks \cup <<j + 1, {}>>[2] \in Arrive[q.to][<<j + 1, {}>>[1]]
            BY <3>2, <3>3
        <3>5. marks \cup <<j + s.error + 1, {s.arg}>>[2] \in Arrive[q.to][<<j + s.error + 1, {s.arg}>>[1]]
            BY <3>2, <3>3
        <3>. QED BY <3>4, <3>5
    <2>4. CASE Holds(s.arg, i, copy)
        <3>1. TurnAt(q, i, copy, f, j) = [f[j + s.error + 1] EXCEPT !.marks = @ \cup {s.arg}]
            BY <1>1, <1>2, <1>7, <2>4 DEF TurnAt, Steps
        <3>2. PICK k \in (j + 1)..n : k = j + s.error + 1
            BY <2>1
        <3>3. \A c \in Conditions \cap {s.arg} : Holds(c, i, copy)
            BY <2>4
        <3>. QED BY <1>5, <2>1, <2>3, <3>1, <3>2, <3>3
    <2>5. CASE ~Holds(s.arg, i, copy)
        <3>1. TurnAt(q, i, copy, f, j) = f[j + 1]
            BY <1>1, <1>2, <1>7, <2>5 DEF TurnAt, Steps
        <3>. QED BY <1>6, <2>1, <2>3, <3>1
    <2>. QED BY <2>4, <2>5
<1>8. CASE e = "none" /\ s.do = "now"
    <2>1. j + 1 \in (j + 1)..n /\ {s.arg} \subseteq TurnMarks /\ Conditions \cap {s.arg} = {}
        BY <1>1, <1>3, <1>8 DEF WellMade, TurnMarks, Conditions
    <2>2. Ways(q.to, j) = {<<j + 1, {s.arg}>>}
        BY <1>1, <1>8 DEF Ways
    <2>3. \A marks \in Arrive[q.to][j] : marks \cup {s.arg} \in Arrive[q.to][j + 1]
        <3>1. TAKE marks \in Arrive[q.to][j]
        <3>2. \A w \in Ways(q.to, j) : marks \cup w[2] \in Arrive[q.to][w[1]]
            BY <1>3 DEF Arriving
        <3>3. marks \cup <<j + 1, {s.arg}>>[2] \in Arrive[q.to][<<j + 1, {s.arg}>>[1]]
            BY <2>2, <3>2
        <3>. QED BY <3>3
    <2>4. TurnAt(q, i, copy, f, j) = [f[j + 1] EXCEPT !.marks = @ \cup {s.arg}]
        BY <1>1, <1>2, <1>8 DEF TurnAt, Steps
    <2>. QED BY <1>5, <2>1, <2>3, <2>4
<1>9. CASE e = "none" /\ s.do \notin {"await", "reply", "skip", "now"}
    <2>1. j + 1 \in (j + 1)..n
        BY <1>1, <1>3, <1>9 DEF WellMade
    <2>2. s.do = "param" => s.arg \in Endpoint[q.to].path
        BY <1>2, <1>3, <1>9, <1>1, ErrorNames DEF Throws, WellMade
    <2>3. Ways(q.to, j) = {<<j + 1, {}>>}
        BY <1>1, <1>9, <2>2 DEF Ways
    <2>4. \A marks \in Arrive[q.to][j] : marks \in Arrive[q.to][j + 1]
        <3>1. TAKE marks \in Arrive[q.to][j]
        <3>2. \A w \in Ways(q.to, j) : marks \cup w[2] \in Arrive[q.to][w[1]]
            BY <1>3 DEF Arriving
        <3>3. marks \cup <<j + 1, {}>>[2] \in Arrive[q.to][<<j + 1, {}>>[1]]
            BY <2>3, <3>2
        <3>. QED BY <3>3
    <2>5. TurnAt(q, i, copy, f, j) = f[j + 1]
        BY <1>1, <1>2, <1>9 DEF TurnAt, Steps
    <2>. QED BY <1>6, <2>1, <2>4, <2>5
<1>. QED BY <1>4, <1>7, <1>8, <1>9

LEMMA TurnEnds ==
    ASSUME NEW q, q.to \in DOMAIN Endpoint, NEW i, NEW copy, NEW k \in DOMAIN Endpoint[q.to].steps
    PROVE  Ends(q, i, copy, k, Turn(q, i, k, copy))
<1>1. PICK n \in Nat : n = Len(Endpoint[q.to].steps) /\ k \in 1..n
    BY StepFacts
<1>2. PICK f : /\ \A j \in 1..n : Turn(q, i, j, copy) = f[j]
               /\ \A j \in 1..n : f[j] = TurnAt(q, i, copy, f, j)
    BY <1>1, TurnIsRecursive
<1>. DEFINE T == {m \in Nat : m < n /\ ~Ends(q, i, copy, n - m, f[n - m])}
<1>3. T = {}
    <2>1. SUFFICES ASSUME T # {} PROVE FALSE
        OBVIOUS
    <2>2. PICK m \in T : \A l \in T : m <= l
        <3>1. T \in SUBSET Nat
            OBVIOUS
        <3>. HIDE DEF T
        <3>. QED BY <2>1, <3>1, LeastNatural
    <2>3. ASSUME NEW j \in (n - m + 1)..n
          PROVE  Ends(q, i, copy, j, f[j])
        <3>1. PICK l \in Nat : l = n - j
            OBVIOUS
        <3>2. l < m /\ l < n /\ n - l = j
            BY <3>1
        <3>3. l \notin T
            BY <2>2, <3>2
        <3>. QED BY <3>2, <3>3
    <2>4. PICK j \in 1..n : j = n - m
        OBVIOUS
    <2>5. Ends(q, i, copy, j, TurnAt(q, i, copy, f, j))
        <3>1. \A l \in (j + 1)..n : Ends(q, i, copy, l, f[l])
            BY <2>3, <2>4
        <3>. QED BY <1>1, <3>1, TurnPasses
    <2>6. ~Ends(q, i, copy, j, f[j])
        BY <2>4
    <2>. QED BY <1>2, <2>5, <2>6
<1>4. n - k \in Nat /\ n - k < n /\ n - (n - k) = k
    <2>. HIDE DEF T
    <2>. QED BY <1>1
<1>5. Ends(q, i, copy, k, f[k])
    BY <1>3, <1>4
<1>. QED BY <1>1, <1>2, <1>5

-----------------------------------------------------------------------------
(* The inductive invariant. *)

(* A request is a record with these fields. *)
Fields == {"to", "about", "name", "wrong", "pc", "phase", "copy", "fault", "status", "marks"}

IsRequest(q) == q = [f \in Fields |-> q[f]]

FlowStatus == {"absent", "active", "inactive"}
Stops      == {"unregister", "unregistered"}

AtAwait(q) == /\ q.pc \in DOMAIN Endpoint[q.to].steps
              /\ Endpoint[q.to].steps[q.pc].do = "await"
              /\ q.status = 0

Waits(q) == q.phase = "waiting" /\ AtAwait(q) /\ q.fault = "none" /\ q.marks \in Arrive[q.to][q.pc]

GoesOn(q) ==
    /\ q.phase = "settled" /\ AtAwait(q)
    /\ \/ q.fault = "none" /\ q.marks \in Arrive[q.to][q.pc + 1]
       \/ q.fault \in ErrorClass /\ Clean(q.to, q.marks)

IsAnswered(q) ==
    /\ q.phase = "answered" /\ q.fault = "none"
    /\ \/ q.status \in Successes /\ Kept(q.to, q.marks)
       \/ q.status \in Status /\ q.status >= 400 /\ Clean(q.to, q.marks)

(* A request that was received: its marks are those of the path it took. *)
UnderWay(q) ==
    /\ IsRequest(q) /\ q.to \in DOMAIN Endpoint
    /\ Telling(q.to, q.marks)
    /\ "send" \in q.marks => q.phase = "answered"
    /\ WritesBack(q.to) => q.copy \in FlowStatus
    /\ Waits(q) \/ GoesOn(q) \/ IsAnswered(q)

Formed == req = [r \in Requests |-> req[r]] /\ \A r \in Requests : req[r] = NoRequest \/ UnderWay(req[r])

(* A request is about an instance whose id it can know. *)
Seen(r, i) == i = Known \/ \E s \in Requests \ {r} : i = s /\ "saveInstance" \in req[s].marks

AboutSeen == \A r \in Requests : req[r].phase # "none" => Seen(r, req[r].about)

LooseMarked ==
    /\ loose \subseteq Requests \X {"send", "syncChats"}
    /\ \A l \in loose : l[2] \in req[l[1]].marks

Typed ==
    /\ doc \in [Ids -> {"absent", "disconnected", "connected"}]
    /\ registry \subseteq Ids /\ groups \subseteq Ids
    /\ flow \in FlowStatus /\ alive \in BOOLEAN
    /\ updates \subseteq Ids \X Kind /\ loops \subseteq Ids \X Point
    /\ stray \subseteq Ids /\ late \subseteq Ids /\ left \in 0..Events

StoredReceived == \A r \in Requests : doc[r] # "absent" => req[r].phase # "none"

(* A deletion is final, and so is its stop unless another request connects, *)
(* or a reconnection that had found the document: no other will find it.    *)
NoneFinds(i) == doc[i] = "absent" /\ (<<i, "connecting">> \in loops => i \in late)

Gone == \A r \in Requests : "deleteInstance" \in req[r].marks => NoneFinds(Id(r))

Reconnected(r) == \E s \in Requests \ {r} : Id(s) = Id(r) /\ "connect" \in req[s].marks

Stopped ==
    \A r \in Requests :
        (req[r].to = "deleteInstance" /\ req[r].marks \cap Stops # {} /\ Id(r) \in registry)
            => Reconnected(r) \/ Id(r) \in late

IInv ==
    /\ Formed /\ AboutSeen /\ LooseMarked /\ Typed /\ StoredReceived /\ Gone /\ Stopped
    /\ DeathsExplained /\ OneNameOnce

LEMMA NoRequestIs ==
    /\ IsRequest(NoRequest) /\ NoRequest.phase = "none" /\ NoRequest.marks = {}
    /\ NoRequest.status = 0 /\ NoRequest.fault = "none" /\ NoRequest.to = "none"
    /\ NoRequest.copy = "absent" /\ NoRequest.about = Known
BY DEF NoRequest, IsRequest, Fields

LEMMA UnderWayPhase ==
    ASSUME NEW q, UnderWay(q)
    PROVE  q.phase \in {"waiting", "settled", "answered"}
BY DEF UnderWay, Waits, GoesOn, IsAnswered

-----------------------------------------------------------------------------
(* One request moves on, or is received. *)
Moves(r, n) ==
    /\ req' = [req EXCEPT ![r] = n]
    /\ UnderWay(n)
    /\ \/ req[r] = NoRequest /\ Seen(r, n.about)
       \/ n.to = req[r].to /\ n.about = req[r].about /\ n.name = req[r].name
    /\ req[r].marks \subseteq n.marks

LEMMA Moved ==
    ASSUME IInv, NEW r \in Requests, NEW n, Moves(r, n)
    PROVE  /\ req'[r] = n /\ \A s \in Requests \ {r} : req'[s] = req[s]
           /\ n.phase # "none"
           /\ \A s \in Requests : req[s].marks \subseteq req'[s].marks
           /\ \A s \in Requests : (s = r /\ req[r] = NoRequest) \/ Id(s)' = Id(s)
           /\ Id(r)' = IdOf(r, n)
           /\ \A i \in Ids : (i = r /\ req[r] = NoRequest) \/ NameOf(i)' = NameOf(i)
<1>1. req'[r] = n /\ \A s \in Requests \ {r} : req'[s] = req[s]
    BY DEF IInv, Formed, Moves
<1>2. n.phase # "none"
    BY UnderWayPhase DEF Moves
<1>3. \A s \in Requests : req[s].marks \subseteq req'[s].marks
    BY <1>1 DEF Moves
<1>4. \A s \in Requests : (s = r /\ req[r] = NoRequest) \/ Id(s)' = Id(s)
    BY <1>1 DEF Moves, Id, IdOf
<1>5. \A i \in Ids : (i = r /\ req[r] = NoRequest) \/ NameOf(i)' = NameOf(i)
    BY <1>1 DEF Moves, NameOf, Ids
<1>6. Id(r)' = IdOf(r, n)
    BY <1>1 DEF Id
<1>. QED BY <1>1, <1>2, <1>3, <1>4, <1>5, <1>6

LEMMA FormedKept ==
    ASSUME IInv, NEW r \in Requests, NEW n, Moves(r, n)
    PROVE  Formed' /\ AboutSeen'
<1>1. Formed'
    <2>1. req' = [s \in Requests |-> req'[s]]
        BY DEF IInv, Formed, Moves
    <2>2. \A s \in Requests : req'[s] = NoRequest \/ UnderWay(req'[s])
        BY Moved DEF IInv, Formed, Moves
    <2>. QED BY <2>1, <2>2 DEF Formed
<1>2. ASSUME NEW s \in Requests, NEW i, Seen(s, i) PROVE Seen(s, i)'
    BY <1>2, Moved DEF Seen
<1>3. ASSUME NEW s \in Requests, req'[s].phase # "none" PROVE Seen(s, req[s].about)'
    <2>1. Seen(s, req'[s].about)
        <3>1. CASE s = r /\ req[r] = NoRequest
            BY <3>1, Moved DEF Moves, Seen, IInv, Formed, NoRequest
        <3>2. CASE s = r /\ req[r] # NoRequest
            <4>1. req[r].phase # "none"
                BY <3>2, UnderWayPhase DEF IInv, Formed
            <4>. QED BY <3>2, <4>1, Moved DEF Moves, IInv, AboutSeen
        <3>3. CASE s # r
            BY <1>3, <3>3, Moved DEF IInv, AboutSeen
        <3>. QED BY <3>1, <3>2, <3>3
    <2>2. PICK i : i = req'[s].about
        OBVIOUS
    <2>3. Seen(s, i)'
        BY <1>2, <2>1, <2>2
    <2>. QED BY <2>2, <2>3 DEF Seen
<1>. QED BY <1>1, <1>3 DEF AboutSeen

LEMMA LooseKept ==
    ASSUME IInv, NEW r \in Requests, NEW n, Moves(r, n),
           loose' \subseteq loose \cup {<<r, m>> : m \in n.marks \cap {"send", "syncChats"}}
    PROVE  LooseMarked'
BY Moved DEF IInv, LooseMarked

(* Documents only disappear. *)
LEMMA NamesKept ==
    ASSUME IInv, NEW r \in Requests, NEW n, Moves(r, n),
           \A i \in Ids : doc[i] = "absent" => doc'[i] = "absent"
    PROVE  StoredReceived' /\ OneNameOnce'
<1>1. req[r] = NoRequest => doc[r] = "absent"
    BY NoRequestIs DEF IInv, StoredReceived
<1>2. Requests \subseteq Ids
    BY DEF Ids
<1>3. StoredReceived'
    BY <1>2, Moved DEF IInv, StoredReceived
<1>4. \A i \in Ids : doc'[i] # "absent" => doc[i] # "absent" /\ NameOf(i)' = NameOf(i)
    BY <1>1, Moved
<1>5. OneNameOnce'
    BY <1>4 DEF IInv, OneNameOnce
<1>. QED BY <1>3, <1>5

LEMMA IdsAreIds ==
    ASSUME IInv, NEW r \in Requests
    PROVE  Id(r) \in Ids /\ req[r].about \in Ids
<1>1. CASE req[r] = NoRequest
    BY <1>1, NoRequestIs DEF Id, IdOf, Ids
<1>2. CASE UnderWay(req[r])
    <2>1. Seen(r, req[r].about)
        BY <1>2, UnderWayPhase DEF IInv, AboutSeen
    <2>. QED BY <2>1 DEF Seen, Id, IdOf, Ids
<1>. QED BY <1>1, <1>2 DEF IInv, Formed

LEMMA GoneKept ==
    ASSUME IInv, NEW r \in Requests, NEW n, Moves(r, n),
           \A i \in Ids : doc[i] = "absent" => doc'[i] = "absent",
           loops' = loops, late \subseteq late',
           "deleteInstance" \in n.marks => "deleteInstance" \in req[r].marks \/ NoneFinds(IdOf(r, n))'
    PROVE  Gone'
<1>1. \A s \in Requests : Id(s) \in Ids
    BY IdsAreIds
<1>2. ASSUME NEW s \in Requests, "deleteInstance" \in req'[s].marks
      PROVE  NoneFinds(Id(s))'
    <2>1. CASE "deleteInstance" \in req[s].marks
        <3>1. NoneFinds(Id(s)) /\ req[s] # NoRequest
            BY <2>1, NoRequestIs DEF IInv, Gone
        <3>2. Id(s)' = Id(s)
            BY <3>1, Moved
        <3>. QED BY <1>1, <3>1, <3>2 DEF NoneFinds
    <2>2. CASE "deleteInstance" \notin req[s].marks
        <3>1. s = r /\ NoneFinds(IdOf(r, n))'
            BY <1>2, <2>2, Moved
        <3>2. Id(s)' = IdOf(r, n)
            BY <3>1, Moved
        <3>3. PICK i : i = IdOf(r, n)
            OBVIOUS
        <3>4. NoneFinds(i)' /\ Id(s)' = i
            BY <3>1, <3>2, <3>3 DEF NoneFinds, IdOf
        <3>. QED BY <3>4 DEF NoneFinds
    <2>. QED BY <2>1, <2>2
<1>. QED BY <1>2 DEF Gone

LEMMA StoppedKept ==
    ASSUME IInv, NEW r \in Requests, NEW n, Moves(r, n),
           \/ registry' \subseteq registry
           \/ registry' \subseteq registry \cup {IdOf(r, n)} /\ "register" \in n.marks,
           late \subseteq late',
           n.to = "deleteInstance" /\ n.marks \cap Stops # {} =>
               req[r].marks \cap Stops # {} \/ IdOf(r, n) \notin registry'
    PROVE  Stopped'
<1>1. Telling(n.to, n.marks)
    BY DEF Moves, UnderWay
<1>2. ASSUME NEW s \in Requests, req'[s].to = "deleteInstance", req'[s].marks \cap Stops # {},
             Id(s)' \in registry'
      PROVE  Reconnected(s)' \/ Id(s)' \in late'
    <2>1. CASE s = r
        <3>1. req[r].marks \cap Stops # {} /\ req[r] # NoRequest
            BY <1>2, <2>1, Moved, NoRequestIs
        <3>2. Id(s)' = Id(s) /\ req[s].to = "deleteInstance" /\ Id(s) \in registry
            <4>1. n.to = "deleteInstance" /\ n.to = req[r].to
                BY <1>2, <2>1, <3>1, Moved DEF Moves
            <4>2. registry' \subseteq registry
                BY <1>1, <4>1 DEF Telling
            <4>3. Id(s)' = Id(s)
                BY <2>1, <3>1, Moved
            <4>. QED BY <1>2, <2>1, <4>1, <4>2, <4>3
        <3>3. Reconnected(s) \/ Id(s) \in late
            BY <2>1, <3>1, <3>2 DEF IInv, Stopped
        <3>. QED BY <2>1, <3>2, <3>3, Moved DEF Reconnected
    <2>2. CASE s # r
        <3>1. req'[s] = req[s] /\ Id(s)' = Id(s)
            BY <2>2, Moved
        <3>2. CASE Id(s) \in registry
            <4>1. SUFFICES ASSUME Reconnected(s) PROVE Reconnected(s)'
                BY <1>2, <3>1, <3>2 DEF IInv, Stopped
            <4>2. PICK t \in Requests \ {s} : Id(t) = Id(s) /\ "connect" \in req[t].marks
                BY <4>1 DEF Reconnected
            <4>3. Id(t)' = Id(t) /\ "connect" \in req'[t].marks
                BY <4>2, Moved, NoRequestIs
            <4>. QED BY <3>1, <4>2, <4>3 DEF Reconnected
        <3>3. CASE Id(s) \notin registry
            <4>1. Id(s) = IdOf(r, n) /\ "register" \in n.marks
                BY <1>2, <3>1, <3>3
            <4>2. "connect" \in n.marks
                BY <1>1, <4>1 DEF Telling
            <4>. QED BY <2>2, <3>1, <4>1, <4>2, Moved DEF Reconnected
        <3>. QED BY <3>2, <3>3
    <2>. QED BY <2>1, <2>2
<1>. QED BY <1>2 DEF Stopped

(* Only two actions change whether the process lives. *)
LEMMA Lives ==
    ASSUME IInv, alive, alive' = alive
    PROVE  alive' = TRUE /\ alive' \in BOOLEAN /\ DeathsExplained'
BY DEF IInv, Typed, DeathsExplained

(* A request that moves without removing anything else's support. *)
Harmless(r, n) ==
    /\ Moves(r, n)
    /\ loose' \subseteq loose \cup {<<r, m>> : m \in n.marks \cap {"send", "syncChats"}}
    /\ \/ registry' \subseteq registry
       \/ registry' \subseteq registry \cup {IdOf(r, n)} /\ "register" \in n.marks
    /\ n.to = "deleteInstance" /\ n.marks \cap Stops # {} =>
           req[r].marks \cap Stops # {} \/ IdOf(r, n) \notin registry'
    /\ groups' \subseteq Ids /\ flow' \in FlowStatus /\ alive /\ alive' = alive
    /\ loops' = loops /\ left' = left /\ late \subseteq late' /\ late' \subseteq Ids
    /\ stray' \subseteq Ids /\ updates' \subseteq Ids \X Kind

LEMMA MovesIds ==
    ASSUME IInv, NEW r \in Requests, NEW n, Moves(r, n)
    PROVE  IdOf(r, n) \in Ids
BY FormedKept, Moved, IdsAreIds DEF Moves, Seen, IdOf, Ids

LEMMA HarmlessKeeps ==
    ASSUME IInv, NEW r \in Requests, NEW n, Harmless(r, n),
           doc' \in [Ids -> {"absent", "disconnected", "connected"}],
           \A i \in Ids : doc[i] = "absent" => doc'[i] = "absent",
           "deleteInstance" \in n.marks => "deleteInstance" \in req[r].marks \/ NoneFinds(IdOf(r, n))'
    PROVE  IInv'
<1>1. Moves(r, n)
    BY DEF Harmless
<1>2. IdOf(r, n) \in Ids /\ alive' \in BOOLEAN
    BY <1>1, MovesIds, Lives DEF Harmless
<1>3. Typed'
    BY <1>2 DEF Harmless, IInv, Typed
<1>4. LooseMarked'
    BY <1>1, LooseKept DEF Harmless
<1>5. StoredReceived' /\ OneNameOnce'
    BY <1>1, NamesKept
<1>6. Gone'
    BY <1>1, GoneKept DEF Harmless
<1>7. Stopped'
    BY <1>1, StoppedKept DEF Harmless
<1>8. DeathsExplained'
    BY Lives DEF Harmless
<1>. QED BY <1>1, <1>3, <1>4, <1>5, <1>6, <1>7, <1>8, FormedKept DEF IInv

LEMMA QuietKeeps ==
    ASSUME IInv, NEW r \in Requests, NEW n, Harmless(r, n), UNCHANGED doc,
           "deleteInstance" \in n.marks => "deleteInstance" \in req[r].marks
    PROVE  IInv'
<1>1. /\ doc' \in [Ids -> {"absent", "disconnected", "connected"}]
      /\ \A i \in Ids : doc[i] = "absent" => doc'[i] = "absent"
    BY DEF IInv, Typed
<1>. QED BY <1>1, HarmlessKeeps

-----------------------------------------------------------------------------
(* The same request, further on. *)
Later(q, n) == /\ IsRequest(n) /\ n.name = q.name /\ n.to = q.to /\ n.about = q.about
               /\ q.marks \subseteq n.marks

Answerable(q, status, marks) ==
    /\ IsRequest(q) /\ q.to \in DOMAIN Endpoint /\ Telling(q.to, marks)
    /\ \/ status \in Successes /\ Kept(q.to, marks)
       \/ status \in Status /\ status >= 400 /\ Clean(q.to, marks)

LEMMA AnswerIs ==
    ASSUME NEW r, NEW q, NEW status, NEW marks, Answer(r, q, status, marks),
           Answerable(q, status, q.marks \cup marks)
    PROVE  \E n : req' = [req EXCEPT ![r] = n] /\ Later(q, n) /\ UnderWay(n) /\ n.marks = q.marks \cup marks
<1>. DEFINE n == [q EXCEPT !.phase = "answered", !.status = status, !.marks = @ \cup marks,
                           !.wrong = Nothing, !.pc = 1, !.copy = "absent", !.fault = "none"]
<1>1. /\ IsRequest(n) /\ n.to = q.to /\ n.about = q.about /\ n.name = q.name
      /\ n.phase = "answered" /\ n.status = status /\ n.marks = q.marks \cup marks
      /\ n.copy = "absent" /\ n.fault = "none"
    BY DEF Answerable, IsRequest, Fields
<1>. HIDE DEF n
<1>2. req' = [req EXCEPT ![r] = n]
    BY DEF Answer, n
<1>3. UnderWay(n)
    BY <1>1 DEF Answerable, UnderWay, IsAnswered, FlowStatus
<1>. QED BY <1>1, <1>2, <1>3 DEF Later

(* What Turn leaves when it throws. *)
LEMMA ThrownIsClean ==
    ASSUME NEW q, q.to \in DOMAIN Endpoint, NEW i, NEW copy, NEW k \in DOMAIN Endpoint[q.to].steps,
           NEW marks, marks \in Arrive[q.to][k], Throws(Endpoint[q.to].steps[k], q, i, copy) # "none"
    PROVE  Throws(Endpoint[q.to].steps[k], q, i, copy) \in ErrorClass /\ Clean(q.to, marks)
<1>1. PICK s : s = Endpoint[q.to].steps[k]
    OBVIOUS
<1>2. WellMade(q.to, k) /\ Arriving(q.to, k, marks)
    BY StepFacts
<1>3. s.do \notin {"skip", "now", "reply"} /\ Throws(s, q, i, copy) = s.error
    BY <1>1 DEF Throws
<1>4. s.error \in ErrorClass
    BY <1>1, <1>2, <1>3 DEF WellMade
<1>5. Clean(q.to, marks)
    BY <1>1, <1>2, <1>3 DEF Arriving
<1>. QED BY <1>1, <1>3, <1>4, <1>5

LEMMA ErrorStatus ==
    ASSUME NEW e \in ErrorClass
    PROVE  errorMiddleware(e) \in Status /\ errorMiddleware(e) >= 400
BY EndpointsAssumption

(* The handler of a request that arrives at step k. *)
Ready(q, k, copy) ==
    /\ IsRequest(q) /\ q.to \in DOMAIN Endpoint /\ k \in DOMAIN Endpoint[q.to].steps
    /\ q.marks \in Arrive[q.to][k] /\ q.status = 0 /\ q.fault = "none"
    /\ WritesBack(q.to) => copy \in FlowStatus

(* What a turn does to the registry. *)
Registering(marks, i) ==
    \/ "register" \in marks /\ Registers(i)
    \/ "unregister" \in marks /\ Unregisters(i)
    \/ marks \cap {"register", "unregister"} = {} /\ UNCHANGED <<registry, stray, updates>>

LEMMA RegisteringIs ==
    ASSUME IInv, NEW marks, NEW i \in Ids, Registering(marks, i)
    PROVE  /\ \/ registry' \subseteq registry
              \/ registry' \subseteq registry \cup {i} /\ "register" \in marks
           /\ "register" \notin marks /\ (i \notin registry \/ "unregister" \in marks) => i \notin registry'
           /\ stray' \subseteq Ids /\ updates' \subseteq Ids \X Kind
<1>1. CASE "register" \in marks /\ Registers(i)
    BY <1>1 DEF Registers, IInv, Typed
<1>2. CASE "unregister" \in marks /\ Unregisters(i)
    <2>1. <<i, "lost">> \in Ids \X Kind
        BY DEF Kind
    <2>. QED BY <1>2, <2>1 DEF Unregisters, IInv, Typed
<1>3. CASE marks \cap {"register", "unregister"} = {} /\ UNCHANGED <<registry, stray, updates>>
    BY <1>3 DEF IInv, Typed
<1>. QED BY <1>1, <1>2, <1>3 DEF Registering

LEMMA GoIs ==
    ASSUME NEW r, NEW q, NEW k, NEW copy, Ready(q, k, copy), Go(r, q, k, copy)
    PROVE  \E t : LET new == t.marks IN
           /\ Ends(q, IdOf(r, q), copy, k, t)
           /\ \E n : /\ req' = [req EXCEPT ![r] = n] /\ Later(q, n) /\ UnderWay(n)
                     /\ n.marks = q.marks \cup new
           /\ Registering(new, IdOf(r, q))
           /\ loose' = loose \cup {<<r, m>> : m \in new \cap {"send", "syncChats"}}
           /\ UNCHANGED <<doc, groups, flow, alive, loops, late, left>>
<1>1. PICK t : t = Turn(q, IdOf(r, q), k, copy)
    OBVIOUS
<1>2. Ends(q, IdOf(r, q), copy, k, t)
    BY <1>1, TurnEnds DEF Ready
<1>3. PICK s : s = Endpoint[q.to].steps[t.pc]
    OBVIOUS
<1>4. /\ t.pc \in DOMAIN Endpoint[q.to].steps
      /\ t.fault = Throws(s, q, IdOf(r, q), copy)
      /\ t.fault # "none" \/ s.do \in {"await", "reply"}
      /\ q.marks \cup t.marks \in Arrive[q.to][t.pc]
    <2>1. PICK n \in Nat : n = Len(Endpoint[q.to].steps) /\ DOMAIN Endpoint[q.to].steps = 1..n
        BY StepFacts DEF Ready
    <2>2. k \in 1..n /\ t.pc \in k..n
        BY <1>2, <2>1 DEF Ready, Ends, Steps
    <2>3. t.pc \in DOMAIN Endpoint[q.to].steps
        BY <2>1, <2>2
    <2>4. t.fault = Throws(s, q, IdOf(r, q), copy) /\ (t.fault # "none" \/ s.do \in {"await", "reply"})
        BY <1>2, <1>3 DEF Ends, Steps
    <2>5. q.marks \cup t.marks \in Arrive[q.to][t.pc]
        BY <1>2 DEF Ready, Ends
    <2>. QED BY <2>3, <2>4, <2>5
<1>5. Arriving(q.to, t.pc, q.marks \cup t.marks) /\ WellMade(q.to, t.pc)
    BY <1>4, StepFacts DEF Ready
<1>6. Telling(q.to, q.marks \cup t.marks)
    BY <1>5 DEF Arriving
<1>7. \E n : /\ req' = [req EXCEPT ![r] = n] /\ Later(q, n) /\ UnderWay(n)
             /\ n.marks = q.marks \cup t.marks
    <2>1. CASE /\ t.fault = "none" /\ s.do = "await"
               /\ req' = [req EXCEPT ![r] = [q EXCEPT !.pc = t.pc, !.copy = copy, !.phase = "waiting",
                                                     !.marks = @ \cup t.marks]]
        <3>. DEFINE n == [q EXCEPT !.pc = t.pc, !.copy = copy, !.phase = "waiting",
                                   !.marks = @ \cup t.marks]
        <3>1. /\ IsRequest(n) /\ n.to = q.to /\ n.about = q.about /\ n.name = q.name
              /\ n.phase = "waiting" /\ n.status = 0 /\ n.marks = q.marks \cup t.marks
              /\ n.copy = copy /\ n.fault = "none" /\ n.pc = t.pc
            BY DEF IsRequest, Fields, Ready
        <3>. HIDE DEF n
        <3>2. req' = [req EXCEPT ![r] = n]
            BY <2>1 DEF n
        <3>3. "send" \notin n.marks
            BY <1>3, <1>5, <2>1, <3>1 DEF Arriving
        <3>4. UnderWay(n)
            BY <1>3, <1>4, <1>6, <2>1, <3>1, <3>3 DEF UnderWay, Waits, AtAwait, Ready
        <3>. QED BY <3>1, <3>2, <3>4 DEF Later
    <2>2. CASE t.fault = "none" /\ s.do = "reply" /\ Answer(r, q, s.arg, t.marks)
        <3>1. s.arg \in Successes
            BY <1>3, <1>5, <2>2 DEF WellMade
        <3>2. Kept(q.to, q.marks \cup t.marks)
            BY <1>3, <1>5, <2>2 DEF Arriving
        <3>3. Answerable(q, s.arg, q.marks \cup t.marks)
            BY <1>6, <3>1, <3>2 DEF Ready, Answerable
        <3>. QED BY <2>2, <3>3, AnswerIs
    <2>3. CASE t.fault # "none" /\ Answer(r, q, errorMiddleware(t.fault), t.marks)
        <3>1. t.fault \in ErrorClass /\ Clean(q.to, q.marks \cup t.marks)
            BY <1>3, <1>4, <2>3, ThrownIsClean DEF Ready
        <3>2. PICK status : status = errorMiddleware(t.fault)
            OBVIOUS
        <3>3. status \in Status /\ status >= 400
            BY <3>1, <3>2, ErrorStatus
        <3>4. Answerable(q, status, q.marks \cup t.marks)
            BY <1>6, <3>1, <3>3 DEF Ready, Answerable
        <3>. QED BY <2>3, <3>2, <3>4, AnswerIs
    <2>. QED BY <1>1, <1>3, <2>1, <2>2, <2>3 DEF Go, Steps
<1>8. /\ Registering(t.marks, IdOf(r, q))
      /\ loose' = loose \cup {<<r, m>> : m \in t.marks \cap {"send", "syncChats"}}
      /\ UNCHANGED <<doc, groups, flow, alive, loops, late, left>>
    BY <1>1 DEF Go, Registering
<1>. QED BY <1>2, <1>7, <1>8

(* A turn keeps the invariant: whoever registers a runtime has connected it, *)
(* and whoever finds nothing to stop has found the runtime gone.             *)
LEMMA GoKeeps ==
    ASSUME IInv, NEW r \in Requests, NEW q, NEW k, NEW copy, Ready(q, k, copy), Go(r, q, k, copy),
           \/ req[r] = NoRequest /\ Seen(r, q.about)
           \/ q.to = req[r].to /\ q.about = req[r].about /\ q.name = req[r].name,
           q.marks = req[r].marks, alive
    PROVE  IInv'
<1>1. PICK t : /\ Ends(q, IdOf(r, q), copy, k, t)
               /\ \E n : /\ req' = [req EXCEPT ![r] = n] /\ Later(q, n) /\ UnderWay(n)
                         /\ n.marks = q.marks \cup t.marks
               /\ Registering(t.marks, IdOf(r, q))
               /\ loose' = loose \cup {<<r, m>> : m \in t.marks \cap {"send", "syncChats"}}
               /\ UNCHANGED <<doc, groups, flow, alive, loops, late, left>>
    BY GoIs
<1>2. PICK n : req' = [req EXCEPT ![r] = n] /\ Later(q, n) /\ UnderWay(n) /\ n.marks = q.marks \cup t.marks
    BY <1>1
<1>3. Moves(r, n)
    BY <1>2 DEF Moves, Later
<1>4. IdOf(r, n) = IdOf(r, q) /\ n.to = q.to /\ IdOf(r, n) \in Ids
    BY <1>2, <1>3, MovesIds DEF IdOf, Later
<1>5. t.marks \subseteq TurnMarks /\ \A c \in Conditions \cap t.marks : Holds(c, IdOf(r, q), copy)
    BY <1>1 DEF Ends
<1>6. "unregistered" \in t.marks => IdOf(r, q) \notin registry
    BY <1>5 DEF Conditions, Holds
<1>7. Telling(n.to, n.marks)
    BY <1>2 DEF UnderWay
<1>8. \/ registry' \subseteq registry
      \/ registry' \subseteq registry \cup {IdOf(r, n)} /\ "register" \in n.marks
    BY <1>1, <1>2, <1>4, RegisteringIs
<1>9. n.to = "deleteInstance" /\ n.marks \cap Stops # {} =>
          req[r].marks \cap Stops # {} \/ IdOf(r, n) \notin registry'
    <2>1. SUFFICES ASSUME n.to = "deleteInstance", t.marks \cap Stops # {}
                   PROVE  IdOf(r, n) \notin registry'
        BY <1>2
    <2>2. "register" \notin t.marks
        BY <1>2, <1>7, <2>1 DEF Telling
    <2>. QED BY <1>1, <1>4, <1>6, <2>1, <2>2, RegisteringIs DEF Stops
<1>10. loose' \subseteq loose \cup {<<r, m>> : m \in n.marks \cap {"send", "syncChats"}}
    BY <1>1, <1>2
<1>11. "deleteInstance" \in n.marks => "deleteInstance" \in req[r].marks
    BY <1>2, <1>5 DEF TurnMarks, Conditions
<1>12. /\ groups' \subseteq Ids /\ flow' \in FlowStatus /\ alive /\ alive' = alive
       /\ loops' = loops /\ left' = left /\ late \subseteq late' /\ late' \subseteq Ids
       /\ stray' \subseteq Ids /\ updates' \subseteq Ids \X Kind
    BY <1>1, <1>4, RegisteringIs DEF IInv, Typed
<1>13. Harmless(r, n)
    BY <1>3, <1>8, <1>9, <1>10, <1>12 DEF Harmless
<1>. QED BY <1>1, <1>11, <1>13, QuietKeeps

(* A handler that does not answer has a step to go to. *)
LEMMA NextStep ==
    ASSUME NEW e \in DOMAIN Endpoint, NEW k \in DOMAIN Endpoint[e].steps,
           Endpoint[e].steps[k].do # "reply"
    PROVE  k + 1 \in DOMAIN Endpoint[e].steps
<1>1. PICK n \in Nat : n = Len(Endpoint[e].steps) /\ DOMAIN Endpoint[e].steps = 1..n
    BY StepFacts
<1>2. k \in 1..n /\ k + 1 <= n
    BY <1>1, StepFacts DEF WellMade
<1>. QED BY <1>1, <1>2

(* An error is answered; it finds nothing but what is excused. *)
LEMMA FailKeeps ==
    ASSUME IInv, NEW r \in Requests, NEW q, IsRequest(q), q.to \in DOMAIN Endpoint,
           NEW e \in ErrorClass, Fail(r, q, e), Telling(q.to, q.marks), Clean(q.to, q.marks),
           \/ req[r] = NoRequest /\ Seen(r, q.about)
           \/ q.to = req[r].to /\ q.about = req[r].about /\ q.name = req[r].name,
           q.marks = req[r].marks, alive
    PROVE  IInv'
<1>1. PICK status : status = errorMiddleware(e)
    OBVIOUS
<1>2. Answerable(q, status, q.marks \cup {}) /\ Answer(r, q, status, {})
    <2>1. status \in Status /\ status >= 400
        BY <1>1, ErrorStatus
    <2>2. q.marks \cup {} = q.marks
        OBVIOUS
    <2>. QED BY <1>1, <2>1, <2>2 DEF Answerable, Fail
<1>3. PICK n : req' = [req EXCEPT ![r] = n] /\ Later(q, n) /\ UnderWay(n) /\ n.marks = q.marks \cup {}
    BY <1>2, AnswerIs
<1>4. Moves(r, n)
    BY <1>3 DEF Moves, Later
<1>5. UNCHANGED <<doc, registry, groups, flow, loose, alive, updates, loops, stray, late, left>>
    BY DEF Fail, connections
<1>6. Harmless(r, n)
    BY <1>3, <1>4, <1>5 DEF Harmless, IInv, Typed
<1>. QED BY <1>3, <1>5, <1>6, QuietKeeps

LEMMA ReceiveKeeps ==
    ASSUME IInv, NEW r \in Requests, NEW e \in DOMAIN Endpoint, NEW i \in About(r, e), NEW n, NEW w,
           Receive(r, e, i, n, w)
    PROVE  IInv'
<1>1. req[r] = NoRequest /\ alive
    BY UnderWayPhase DEF Receive, IInv, Formed
<1>2. PICK q : q = [NoRequest EXCEPT !.to = e, !.about = i, !.name = n, !.wrong = w]
    OBVIOUS
<1>3. /\ IsRequest(q) /\ q.to = e /\ q.about = i /\ q.marks = {} /\ q.status = 0
      /\ q.fault = "none" /\ q.copy = "absent"
    BY <1>2 DEF NoRequest, IsRequest, Fields
<1>4. Seen(r, q.about)
    BY <1>3 DEF About, Seen
<1>5. q.marks = req[r].marks
    BY <1>1, <1>3, NoRequestIs
<1>6. CASE Fail(r, q, "UnauthorizedError")
    <2>1. Telling(q.to, q.marks) /\ Clean(q.to, q.marks)
        BY <1>3 DEF Telling, Clean
    <2>2. "UnauthorizedError" \in ErrorClass
        BY EndpointsAssumption
    <2>. QED BY <1>1, <1>3, <1>4, <1>5, <1>6, <2>1, <2>2, FailKeeps
<1>7. CASE Go(r, q, 1, "absent")
    <2>1. Ready(q, 1, "absent")
        BY <1>3, StepFacts DEF Ready, FlowStatus
    <2>. QED BY <1>1, <1>4, <1>5, <1>7, <2>1, GoKeeps
<1>. QED BY <1>1, <1>2, <1>6, <1>7 DEF Receive

LEMMA ResumeKeeps ==
    ASSUME IInv, NEW r \in Requests, Resume(r)
    PROVE  IInv'
<1>1. req[r].phase = "settled" /\ alive
    BY DEF Resume
<1>2. UnderWay(req[r]) /\ GoesOn(req[r])
    BY <1>1, NoRequestIs DEF IInv, Formed, UnderWay, Waits, IsAnswered
<1>3. PICK q : q = req[r]
    OBVIOUS
<1>4. CASE q.fault # "none"
    <2>1. q.fault \in ErrorClass /\ Clean(q.to, q.marks)
        BY <1>2, <1>3, <1>4 DEF GoesOn
    <2>2. Fail(r, q, q.fault)
        BY <1>3, <1>4 DEF Resume
    <2>3. IsRequest(q) /\ q.to \in DOMAIN Endpoint /\ Telling(q.to, q.marks)
        BY <1>2, <1>3 DEF UnderWay
    <2>. QED BY <1>1, <1>3, <2>1, <2>2, <2>3, FailKeeps
<1>5. CASE q.fault = "none"
    <2>1. Go(r, q, q.pc + 1, q.copy)
        BY <1>3, <1>5 DEF Resume
    <2>2. Ready(q, q.pc + 1, q.copy)
        <3>1. /\ IsRequest(q) /\ q.to \in DOMAIN Endpoint /\ q.status = 0
              /\ q.pc \in DOMAIN Endpoint[q.to].steps /\ Endpoint[q.to].steps[q.pc].do = "await"
              /\ WritesBack(q.to) => q.copy \in FlowStatus
            BY <1>2, <1>3 DEF UnderWay, GoesOn, AtAwait
        <3>2. q.marks \in Arrive[q.to][q.pc + 1]
            BY <1>2, <1>3, <1>5, ErrorNames DEF GoesOn
        <3>3. q.pc + 1 \in DOMAIN Endpoint[q.to].steps
            BY <3>1, NextStep
        <3>. QED BY <1>5, <3>1, <3>2, <3>3 DEF Ready
    <2>. QED BY <1>1, <1>3, <2>1, <2>2, GoKeeps
<1>. QED BY <1>4, <1>5

-----------------------------------------------------------------------------
(* What is awaited takes place. *)
SettledFits(q, copy, marks, e) ==
    /\ WritesBack(q.to) => copy \in FlowStatus
    /\ Telling(q.to, q.marks \cup marks) /\ "send" \notin q.marks \cup marks
    /\ \/ e = "none" /\ q.marks \cup marks \in Arrive[q.to][q.pc + 1]
       \/ e \in ErrorClass /\ Clean(q.to, q.marks \cup marks)

LEMMA SettledIs ==
    ASSUME NEW r, NEW copy, NEW marks, NEW e, Settled(r, copy, marks, e),
           UnderWay(req[r]), Waits(req[r]), SettledFits(req[r], copy, marks, e)
    PROVE  \E n : /\ req' = [req EXCEPT ![r] = n] /\ Later(req[r], n) /\ UnderWay(n)
                  /\ n.marks = req[r].marks \cup marks
<1>1. PICK q : q = req[r]
    OBVIOUS
<1>. DEFINE n == [q EXCEPT !.phase = "settled", !.copy = copy, !.fault = e, !.marks = @ \cup marks]
<1>2. IsRequest(q)
    BY <1>1 DEF UnderWay
<1>3. /\ IsRequest(n) /\ n.to = q.to /\ n.about = q.about /\ n.name = q.name
      /\ n.phase = "settled" /\ n.status = q.status /\ n.marks = q.marks \cup marks
      /\ n.copy = copy /\ n.fault = e /\ n.pc = q.pc
    BY <1>2 DEF IsRequest, Fields
<1>. HIDE DEF n
<1>4. req' = [req EXCEPT ![r] = n]
    BY <1>1 DEF Settled, n
<1>5. UnderWay(n)
    BY <1>1, <1>3 DEF UnderWay, Waits, SettledFits, GoesOn, AtAwait
<1>. QED BY <1>1, <1>3, <1>4, <1>5 DEF Later

(* A waiting request is at an await, and the step after it is expected. *)
LEMMA WaitingIs ==
    ASSUME IInv, NEW r \in Requests, req[r].phase = "waiting"
    PROVE  LET q == req[r]
               s == Step(r)
           IN  /\ UnderWay(q) /\ Waits(q) /\ s.do = "await" /\ s = Endpoint[q.to].steps[q.pc]
               /\ q.to \in DOMAIN Endpoint /\ q.pc \in DOMAIN Endpoint[q.to].steps
               /\ WellMade(q.to, q.pc) /\ Arriving(q.to, q.pc, q.marks)
               /\ "send" \notin q.marks /\ Telling(q.to, q.marks)
               /\ s.error \in ErrorClass /\ Clean(q.to, q.marks)
               /\ q.marks \cup ({s.arg} \cap Effects) \in Arrive[q.to][q.pc + 1]
               /\ Arriving(q.to, q.pc + 1, q.marks \cup ({s.arg} \cap Effects))
<1>1. PICK q : q = req[r]
    OBVIOUS
<1>2. PICK s : s = Endpoint[q.to].steps[q.pc]
    OBVIOUS
<1>3. UnderWay(q) /\ Waits(q)
    BY <1>1, NoRequestIs DEF IInv, Formed, UnderWay, GoesOn, IsAnswered
<1>4. /\ q.to \in DOMAIN Endpoint /\ q.pc \in DOMAIN Endpoint[q.to].steps
      /\ s.do = "await" /\ s = Step(r) /\ q.marks \in Arrive[q.to][q.pc]
    BY <1>1, <1>2, <1>3 DEF UnderWay, Waits, AtAwait, Step, Steps
<1>5. WellMade(q.to, q.pc) /\ Arriving(q.to, q.pc, q.marks)
    BY <1>4, StepFacts
<1>6. s.error \in ErrorClass
    BY <1>2, <1>4, <1>5 DEF WellMade
<1>7. Clean(q.to, q.marks) /\ Telling(q.to, q.marks) /\ "send" \notin q.marks
    BY <1>2, <1>4, <1>5 DEF Arriving
<1>8. q.marks \cup ({s.arg} \cap Effects) \in Arrive[q.to][q.pc + 1]
    <2>1. Ways(q.to, q.pc) = {<<q.pc + 1, {s.arg} \cap Effects>>}
        BY <1>2, <1>4 DEF Ways
    <2>2. \A w \in Ways(q.to, q.pc) : q.marks \cup w[2] \in Arrive[q.to][w[1]]
        BY <1>5 DEF Arriving
    <2>3. q.marks \cup <<q.pc + 1, {s.arg} \cap Effects>>[2]
              \in Arrive[q.to][<<q.pc + 1, {s.arg} \cap Effects>>[1]]
        BY <2>1, <2>2
    <2>. QED BY <2>3
<1>9. Arriving(q.to, q.pc + 1, q.marks \cup ({s.arg} \cap Effects))
    BY <1>2, <1>4, <1>8, NextStep, StepFacts
<1>. QED BY <1>1, <1>2, <1>3, <1>4, <1>5, <1>6, <1>7, <1>8, <1>9

(* It goes well: the mark of the step is the one the path expects. *)
LEMMA DoneFits ==
    ASSUME IInv, NEW r \in Requests, req[r].phase = "waiting", NEW copy, NEW marks,
           marks = {Step(r).arg} \cap Effects, WritesBack(req[r].to) => copy \in FlowStatus
    PROVE  SettledFits(req[r], copy, marks, "none")
<1>1. /\ req[r].marks \cup marks \in Arrive[req[r].to][req[r].pc + 1]
      /\ Arriving(req[r].to, req[r].pc + 1, req[r].marks \cup marks) /\ "send" \notin req[r].marks
    BY WaitingIs
<1>2. "send" \notin marks
    BY DEF Effects
<1>. QED BY <1>1, <1>2 DEF SettledFits, Arriving

(* It rejects. *)
LEMMA RejectionFits ==
    ASSUME IInv, NEW r \in Requests, req[r].phase = "waiting",
           NEW socket \in SUBSET (IF Step(r).arg = "connect" THEN {"socket"} ELSE {})
    PROVE  SettledFits(req[r], req[r].copy, socket, Step(r).error)
<1>1. PICK q : q = req[r]
    OBVIOUS
<1>2. /\ WritesBack(q.to) => q.copy \in FlowStatus
      /\ Step(r).error \in ErrorClass /\ Clean(q.to, q.marks) /\ Telling(q.to, q.marks)
      /\ "send" \notin q.marks
      /\ Step(r).arg = "connect" => Clean(q.to, q.marks \cup {"socket"})
    BY <1>1, WaitingIs DEF UnderWay, Arriving
<1>3. q.marks \cup socket = q.marks \/ (Step(r).arg = "connect" /\ q.marks \cup socket = q.marks \cup {"socket"})
    OBVIOUS
<1>4. Clean(q.to, q.marks \cup socket)
    BY <1>2, <1>3
<1>5. Telling(q.to, q.marks \cup socket) /\ "send" \notin q.marks \cup socket
    BY <1>2 DEF Telling
<1>. QED BY <1>1, <1>2, <1>4, <1>5 DEF SettledFits

(* A step that only concerns the request, whatever it does to the flow. *)
LEMMA SettlingKeeps ==
    ASSUME IInv, NEW r \in Requests, req[r].phase = "waiting", NEW copy, NEW marks, NEW e,
           Settled(r, copy, marks, e), SettledFits(req[r], copy, marks, e),
           "deleteInstance" \notin marks, marks \cap Stops = {}, alive,
           flow' \in FlowStatus, UNCHANGED <<doc, registry, groups, loose, alive, connections>>
    PROVE  IInv'
<1>1. PICK n : /\ req' = [req EXCEPT ![r] = n] /\ Later(req[r], n) /\ UnderWay(n)
               /\ n.marks = req[r].marks \cup marks
    <2>1. UnderWay(req[r]) /\ Waits(req[r])
        BY WaitingIs
    <2>. QED BY <2>1, SettledIs
<1>2. Moves(r, n)
    BY <1>1 DEF Moves, Later
<1>3. Harmless(r, n)
    BY <1>1, <1>2 DEF Harmless, IInv, Typed, connections
<1>. QED BY <1>1, <1>3, QuietKeeps

LEMMA RejectsKeeps ==
    ASSUME IInv, NEW r \in Requests, Rejects(r)
    PROVE  IInv'
<1>1. /\ req[r].phase = "waiting" /\ alive
      /\ UNCHANGED <<doc, registry, groups, flow, loose, alive, connections>>
    BY DEF Rejects
<1>2. PICK socket \in SUBSET (IF Step(r).arg = "connect" THEN {"socket"} ELSE {}) :
          Settled(r, req[r].copy, socket, Step(r).error)
    BY DEF Rejects
<1>3. flow' \in FlowStatus
    BY <1>1 DEF IInv, Typed
<1>4. "deleteInstance" \notin socket /\ socket \cap Stops = {}
    BY DEF Stops
<1>. QED BY <1>1, <1>2, <1>3, <1>4, RejectionFits, SettlingKeeps

LEMMA ReadsKeeps ==
    ASSUME IInv, NEW r \in Requests, Reads(r)
    PROVE  IInv'
<1>1. PICK what : what = Step(r).arg
    OBVIOUS
<1>2. /\ req[r].phase = "waiting"
      /\ what \in {"qr", "findInstance", "findByName", "findFlow", "findGroups", "read", "fetchGroups", "connect"}
      /\ alive /\ UNCHANGED <<doc, registry, groups, flow, loose, alive, connections>>
    BY <1>1 DEF Reads, Waiting
<1>3. PICK copy : /\ Settled(r, copy, {what} \cap {"connect"}, "none")
                  /\ what = "findFlow" => copy = flow
    BY <1>1, <1>2 DEF Reads
<1>4. WritesBack(req[r].to) => copy \in FlowStatus
    <2>1. SUFFICES ASSUME WritesBack(req[r].to) PROVE what = "findFlow"
        BY <1>3 DEF IInv, Typed
    <2>2. /\ req[r].to \in DOMAIN Endpoint /\ req[r].pc \in DOMAIN Endpoint[req[r].to].steps
          /\ Endpoint[req[r].to].steps[req[r].pc].do = "await"
          /\ Endpoint[req[r].to].steps[req[r].pc].arg = what
        BY <1>1, <1>2, WaitingIs
    <2>3. ReadsFlowsOnly(req[r].to)
        BY <2>1, <2>2, StepFacts
    <2>4. what \in {"findFlow", "saveFlow"}
        BY <2>2, <2>3 DEF ReadsFlowsOnly
    <2>. QED BY <1>2, <2>4
<1>5. PICK marks : marks = {what} \cap {"connect"}
    OBVIOUS
<1>6. marks = {what} \cap Effects
    BY <1>2, <1>5 DEF Effects
<1>7. SettledFits(req[r], copy, marks, "none")
    BY <1>1, <1>2, <1>4, <1>6, DoneFits
<1>8. "deleteInstance" \notin marks /\ marks \cap Stops = {}
    BY <1>5 DEF Stops
<1>9. flow' \in FlowStatus
    BY <1>2 DEF IInv, Typed
<1>. QED BY <1>2, <1>3, <1>5, <1>7, <1>8, <1>9, SettlingKeeps

(* A single mark of a change that was made. *)
LEMMA OneEffect ==
    ASSUME NEW what \in Effects
    PROVE  {what} = {what} \cap Effects /\ {what} \cap Stops = {}
BY DEF Effects, Stops

LEMMA WritesFlowKeeps ==
    ASSUME IInv, NEW r \in Requests, WritesFlow(r)
    PROVE  IInv'
<1>1. PICK what : what = Step(r).arg
    OBVIOUS
<1>2. /\ req[r].phase = "waiting" /\ what \in {"createFlow", "saveFlow", "deactivateFlow"}
      /\ flow' = CASE what = "saveFlow"       -> req[r].copy
                   [] what = "deactivateFlow" -> "inactive"
                   [] OTHER                   -> flow
      /\ Settled(r, req[r].copy, {what}, "none")
      /\ alive /\ UNCHANGED <<doc, registry, groups, loose, alive, connections>>
    BY <1>1 DEF WritesFlow, Waiting
<1>3. WritesBack(req[r].to) => req[r].copy \in FlowStatus
    BY <1>2, WaitingIs DEF UnderWay
<1>4. what = "saveFlow" => WritesBack(req[r].to)
    BY <1>1, <1>2, WaitingIs DEF WritesBack
<1>5. flow' \in FlowStatus
    BY <1>2, <1>3, <1>4 DEF IInv, Typed, FlowStatus
<1>6. what \in Effects
    BY <1>2 DEF Effects
<1>7. SettledFits(req[r], req[r].copy, {what}, "none")
    BY <1>1, <1>2, <1>3, <1>6, OneEffect, DoneFits
<1>8. "deleteInstance" \notin {what} /\ {what} \cap Stops = {}
    BY <1>2, <1>6, OneEffect
<1>. QED BY <1>2, <1>5, <1>7, <1>8, SettlingKeeps

LEMMA WritesCampaignKeeps ==
    ASSUME IInv, NEW r \in Requests, WritesCampaign(r)
    PROVE  IInv'
<1>1. PICK what : what = Step(r).arg
    OBVIOUS
<1>2. /\ req[r].phase = "waiting" /\ what \in {"saveCampaign", "deleteCampaign"}
      /\ Settled(r, req[r].copy, {what}, "none")
      /\ alive /\ UNCHANGED <<doc, registry, groups, flow, loose, alive, connections>>
    BY <1>1 DEF WritesCampaign, Waiting
<1>3. WritesBack(req[r].to) => req[r].copy \in FlowStatus
    BY <1>2, WaitingIs DEF UnderWay
<1>4. what \in Effects
    BY <1>2 DEF Effects
<1>5. SettledFits(req[r], req[r].copy, {what}, "none")
    BY <1>1, <1>2, <1>3, <1>4, OneEffect, DoneFits
<1>6. "deleteInstance" \notin {what} /\ {what} \cap Stops = {} /\ flow' \in FlowStatus
    BY <1>2, <1>4, OneEffect DEF IInv, Typed
<1>. QED BY <1>2, <1>5, <1>6, SettlingKeeps

(* A call of the socket may be carried out and answered with an error. *)
LEMMA PerformsKeeps ==
    ASSUME IInv, NEW r \in Requests, Performs(r)
    PROVE  IInv'
<1>1. PICK what : what = Step(r).arg
    OBVIOUS
<1>2. PICK e \in {"none", Step(r).error} : Settled(r, req[r].copy, {what}, e)
    BY <1>1 DEF Performs
<1>3. /\ req[r].phase = "waiting" /\ what \in {"message", "group", "members"}
      /\ alive /\ UNCHANGED <<doc, registry, groups, flow, loose, alive, connections>>
    BY <1>1 DEF Performs, Waiting
<1>4. WritesBack(req[r].to) => req[r].copy \in FlowStatus
    BY <1>3, WaitingIs DEF UnderWay
<1>5. what \in Effects
    BY <1>3 DEF Effects
<1>6. SettledFits(req[r], req[r].copy, {what}, e)
    <2>1. CASE e = "none"
        BY <1>1, <1>3, <1>4, <1>5, <2>1, OneEffect, DoneFits
    <2>2. CASE e = Step(r).error
        <3>1. PICK q : q = req[r]
            OBVIOUS
        <3>2. /\ Arriving(q.to, q.pc, q.marks) /\ Step(r).do = "await" /\ e \in ErrorClass
              /\ Step(r) = Endpoint[q.to].steps[q.pc] /\ Telling(q.to, q.marks) /\ "send" \notin q.marks
            BY <1>3, <2>2, <3>1, WaitingIs
        <3>3. Clean(q.to, q.marks \cup {what})
            BY <1>1, <1>3, <3>2 DEF Arriving
        <3>4. Telling(q.to, q.marks \cup {what}) /\ "send" \notin q.marks \cup {what}
            BY <1>3, <3>2 DEF Telling
        <3>. QED BY <1>4, <3>1, <3>2, <3>3, <3>4 DEF SettledFits
    <2>. QED BY <2>1, <2>2
<1>7. "deleteInstance" \notin {what} /\ {what} \cap Stops = {} /\ flow' \in FlowStatus
    BY <1>3, <1>5, OneEffect DEF IInv, Typed
<1>. QED BY <1>2, <1>3, <1>6, <1>7, SettlingKeeps

LEMMA DeletesKeeps ==
    ASSUME IInv, NEW r \in Requests, DeletesInstance(r)
    PROVE  IInv'
<1>1. /\ req[r].phase = "waiting" /\ Step(r).arg = "deleteInstance"
      /\ doc' = [doc EXCEPT ![Id(r)] = "absent"]
      /\ Settled(r, req[r].copy, {"deleteInstance"}, "none")
      /\ late' = IF <<Id(r), "connecting">> \in loops THEN late \cup {Id(r)} ELSE late
      /\ alive /\ UNCHANGED <<registry, groups, flow, loose, alive, updates, loops, stray, left>>
    BY DEF DeletesInstance, Waiting
<1>2. UnderWay(req[r]) /\ Waits(req[r]) /\ (WritesBack(req[r].to) => req[r].copy \in FlowStatus)
    BY <1>1, WaitingIs DEF UnderWay
<1>3. SettledFits(req[r], req[r].copy, {"deleteInstance"}, "none")
    <2>1. "deleteInstance" \in Effects
        BY DEF Effects
    <2>. QED BY <1>1, <1>2, <2>1, OneEffect, DoneFits
<1>4. PICK n : /\ req' = [req EXCEPT ![r] = n] /\ Later(req[r], n) /\ UnderWay(n)
               /\ n.marks = req[r].marks \cup {"deleteInstance"}
    BY <1>1, <1>2, <1>3, SettledIs
<1>5. Moves(r, n)
    BY <1>4 DEF Moves, Later
<1>6. IdOf(r, n) = Id(r) /\ Id(r) \in Ids
    BY <1>4, IdsAreIds DEF Id, IdOf, Later
<1>7. Harmless(r, n)
    BY <1>1, <1>4, <1>5, <1>6 DEF Harmless, IInv, Typed, Stops
<1>8. /\ doc' \in [Ids -> {"absent", "disconnected", "connected"}]
      /\ \A i \in Ids : doc[i] = "absent" => doc'[i] = "absent"
      /\ doc'[Id(r)] = "absent"
    BY <1>1, <1>6 DEF IInv, Typed
<1>9. NoneFinds(IdOf(r, n))'
    <2>1. PICK i : i = Id(r) /\ i = IdOf(r, n)
        BY <1>6
    <2>2. doc'[i] = "absent" /\ (<<i, "connecting">> \in loops' => i \in late')
        BY <1>1, <1>8, <2>1
    <2>3. IdOf(r, n)' = i
        BY <2>1 DEF IdOf
    <2>. QED BY <2>2, <2>3 DEF NoneFinds
<1>. QED BY <1>7, <1>8, <1>9, HarmlessKeeps

(* The index decides: the name of the new instance is nobody else's.  And no *)
(* deletion can have been about it, since its id was not known.              *)
LEMMA SavesKeeps ==
    ASSUME IInv, NEW r \in Requests, SavesInstance(r)
    PROVE  IInv'
<1>1. /\ req[r].phase = "waiting" /\ Step(r).arg = "saveInstance"
      /\ alive /\ UNCHANGED <<registry, groups, flow, loose, alive, connections>>
    BY DEF SavesInstance, Waiting
<1>2. flow' \in FlowStatus
    BY <1>1 DEF IInv, Typed
<1>3. CASE ~UniqueName(r)
    <2>1. Settled(r, req[r].copy, {}, Step(r).error) /\ UNCHANGED doc
        BY <1>3 DEF SavesInstance
    <2>2. {} \in SUBSET (IF Step(r).arg = "connect" THEN {"socket"} ELSE {}) /\ {} \cap Stops = {}
        OBVIOUS
    <2>. QED BY <1>1, <1>2, <2>1, <2>2, RejectionFits, SettlingKeeps
<1>4. CASE UniqueName(r)
    <2>1. doc' = [doc EXCEPT ![r] = "disconnected"] /\ Settled(r, req[r].copy, {"saveInstance"}, "none")
        BY <1>4 DEF SavesInstance
    <2>2. /\ UnderWay(req[r]) /\ Waits(req[r]) /\ (WritesBack(req[r].to) => req[r].copy \in FlowStatus)
          /\ req[r].to = "createInstance" /\ "saveInstance" \notin req[r].marks
          /\ Telling(req[r].to, req[r].marks)
        BY <1>1, WaitingIs DEF UnderWay, WellMade, Arriving
    <2>3. SettledFits(req[r], req[r].copy, {"saveInstance"}, "none")
        <3>1. "saveInstance" \in Effects
            BY DEF Effects
        <3>. QED BY <1>1, <2>2, <3>1, OneEffect, DoneFits
    <2>4. PICK n : /\ req' = [req EXCEPT ![r] = n] /\ Later(req[r], n) /\ UnderWay(n)
                   /\ n.marks = req[r].marks \cup {"saveInstance"}
        BY <2>1, <2>2, <2>3, SettledIs
    <2>5. Moves(r, n)
        BY <2>4 DEF Moves, Later
    <2>6. r \in Ids /\ r # Known /\ req[r] # NoRequest
        BY <1>1, NoRequestIs, ApiAssumption DEF Ids
    <2>7. doc' \in [Ids -> {"absent", "disconnected", "connected"}] /\ doc'[r] = "disconnected"
          /\ \A i \in Ids \ {r} : doc'[i] = doc[i]
        BY <2>1, <2>6 DEF IInv, Typed
    <2>8. Typed'
        BY <1>1, <2>7 DEF IInv, Typed, connections
    <2>9. LooseMarked'
        BY <1>1, <2>5, LooseKept
    <2>10. StoredReceived'
        <3>1. Requests \subseteq Ids
            BY DEF Ids
        <3>. QED BY <2>5, <2>7, <3>1, Moved DEF IInv, StoredReceived
    <2>11. OneNameOnce'
        <3>1. \A i \in Ids : NameOf(i)' = NameOf(i)
            BY <2>5, <2>6, Moved
        <3>2. \A j \in Ids \ {r} : doc[j] # "absent" => NameOf(j) # NameOf(r)
            BY <1>4, <2>6 DEF UniqueName
        <3>. QED BY <2>7, <3>1, <3>2 DEF IInv, OneNameOnce
    <2>12. Gone'
        <3>1. ASSUME NEW s \in Requests, "deleteInstance" \in req'[s].marks
              PROVE  NoneFinds(Id(s))'
            <4>1. "deleteInstance" \in req[s].marks /\ req[s] # NoRequest
                BY <2>4, <2>5, <3>1, Moved, NoRequestIs
            <4>2. UnderWay(req[s]) /\ req[s].to = "deleteInstance"
                BY <4>1 DEF IInv, Formed, UnderWay, Telling
            <4>3. Id(s)' = Id(s) /\ Id(s) = req[s].about
                BY <2>5, <2>6, <4>2, Moved DEF Id, IdOf
            <4>4. req[s].about # r
                <5>1. Seen(s, req[s].about)
                    BY <4>2, UnderWayPhase DEF IInv, AboutSeen
                <5>. QED BY <2>2, <2>6, <5>1 DEF Seen
            <4>5. NoneFinds(Id(s)) /\ Id(s) \in Ids
                BY <4>1, IdsAreIds DEF IInv, Gone
            <4>. QED BY <1>1, <2>7, <4>3, <4>4, <4>5 DEF NoneFinds, connections
        <3>. QED BY <3>1 DEF Gone
    <2>13. Stopped'
        BY <1>1, <2>2, <2>4, <2>5, StoppedKept DEF Later, connections
    <2>14. DeathsExplained'
        BY <1>1, Lives
    <2>. QED BY <2>5, <2>8, <2>9, <2>10, <2>11, <2>12, <2>13, <2>14, FormedKept DEF IInv
<1>. QED BY <1>3, <1>4

(* A call that nobody waits for ends: a text was carried out after its answer. *)
LEMMA LooseEndsKeeps ==
    ASSUME IInv, NEW l \in loose, LooseEnds(l)
    PROVE  IInv'
<1>1. PICK r \in Requests : r = l[1] /\ l[2] \in {"send", "syncChats"} /\ l[2] \in req[r].marks
    BY DEF IInv, LooseMarked
<1>2. /\ loose' \subseteq loose /\ groups' \subseteq groups \cup {Id(r)}
      /\ alive /\ UNCHANGED <<doc, registry, flow, alive, updates, loops, stray, late, left>>
    BY <1>1 DEF LooseEnds, connections
<1>3. UnderWay(req[r]) /\ Id(r) \in Ids
    BY <1>1, NoRequestIs, IdsAreIds DEF IInv, Formed
<1>4. groups' \subseteq Ids /\ flow' \in FlowStatus
    BY <1>2, <1>3 DEF IInv, Typed
<1>5. PICK n : /\ req' = [req EXCEPT ![r] = n] /\ Later(req[r], n) /\ UnderWay(n)
               /\ n.marks \subseteq req[r].marks \cup {"message"}
    <2>1. CASE l[2] # "send"
        <3>1. req' = req
            BY <2>1 DEF LooseEnds
        <3>2. req' = [req EXCEPT ![r] = req[r]]
            BY <3>1 DEF IInv, Formed
        <3>3. Later(req[r], req[r])
            BY <1>3 DEF Later, UnderWay
        <3>. QED BY <1>3, <3>2, <3>3
    <2>2. CASE l[2] = "send"
        <3>1. req' = [req EXCEPT ![r].marks = @ \cup {"message"}]
            BY <1>1, <2>2 DEF LooseEnds
        <3>2. PICK q : q = req[r]
            OBVIOUS
        <3>. DEFINE n == [q EXCEPT !.marks = @ \cup {"message"}]
        <3>3. IsRequest(q)
            BY <1>3, <3>2 DEF UnderWay
        <3>4. /\ IsRequest(n) /\ n.to = q.to /\ n.about = q.about /\ n.name = q.name
              /\ n.phase = q.phase /\ n.status = q.status /\ n.marks = q.marks \cup {"message"}
              /\ n.copy = q.copy /\ n.fault = q.fault
            BY <3>3 DEF IsRequest, Fields
        <3>5. req' = [req EXCEPT ![r] = n]
            BY <3>1, <3>2
        <3>. HIDE DEF n
        <3>6. IsAnswered(q) /\ Telling(q.to, q.marks) /\ q.to \in DOMAIN Endpoint
            BY <1>1, <1>3, <2>2, <3>2 DEF UnderWay, Waits, GoesOn
        <3>7. ~Clean(q.to, q.marks)
            BY <1>1, <2>2, <3>2, <3>6, StepFacts DEF Clean, Traces
        <3>8. Kept(q.to, q.marks) => Kept(n.to, n.marks)
            BY <3>4 DEF Kept
        <3>9. IsAnswered(n) /\ Telling(n.to, n.marks)
            BY <3>4, <3>6, <3>7, <3>8 DEF IsAnswered, Telling
        <3>10. UnderWay(n)
            BY <1>3, <3>2, <3>4, <3>9 DEF UnderWay, IsAnswered
        <3>. QED BY <3>2, <3>4, <3>5, <3>10 DEF Later
    <2>. QED BY <2>1, <2>2
<1>6. Moves(r, n)
    BY <1>5 DEF Moves, Later
<1>7. Harmless(r, n)
    BY <1>2, <1>4, <1>5, <1>6 DEF Harmless, Stops, IInv, Typed
<1>. QED BY <1>1, <1>2, <1>5, <1>7, QuietKeeps

(* The requests stay where they are.  A loop that connects has found the     *)
(* document, and a runtime that appears is one that a loop connected.        *)
LEMMA RequestsStay ==
    ASSUME IInv, UNCHANGED <<req, groups, flow, loose, late>>,
           doc' \in [Ids -> {"absent", "disconnected", "connected"}],
           \A i \in Ids : doc'[i] = "absent" <=> doc[i] = "absent",
           registry' \subseteq Ids, stray' \subseteq Ids, updates' \subseteq Ids \X Kind,
           loops' \subseteq Ids \X Point, left' \in 0..Events,
           \A i \in Ids : <<i, "connecting">> \in loops' => <<i, "connecting">> \in loops \/ doc[i] # "absent",
           \A i \in registry' : i \in registry \/ <<i, "connecting">> \in loops,
           alive' \in BOOLEAN, DeathsExplained'
    PROVE  IInv'
<1>1. Formed' /\ AboutSeen' /\ LooseMarked' /\ Typed'
    BY DEF IInv, Formed, AboutSeen, Seen, LooseMarked, Typed
<1>2. \A r \in Requests : Id(r)' = Id(r) /\ Id(r) \in Ids
    BY IdsAreIds DEF Id, IdOf
<1>3. StoredReceived'
    BY <1>2 DEF IInv, StoredReceived, Ids
<1>4. Gone'
    <2>1. ASSUME NEW r \in Requests, "deleteInstance" \in req[r].marks
          PROVE  NoneFinds(Id(r))'
        <3>1. NoneFinds(Id(r))
            BY <2>1 DEF IInv, Gone
        <3>. QED BY <1>2, <3>1 DEF NoneFinds
    <2>. QED BY <2>1 DEF Gone
<1>5. Stopped'
    <2>1. ASSUME NEW r \in Requests, req[r].to = "deleteInstance", req[r].marks \cap Stops # {},
                 Id(r) \in registry'
          PROVE  Reconnected(r) \/ Id(r) \in late
        <3>1. CASE Id(r) \in registry
            BY <2>1, <3>1 DEF IInv, Stopped
        <3>2. CASE <<Id(r), "connecting">> \in loops
            <4>1. UnderWay(req[r])
                BY <2>1, NoRequestIs DEF IInv, Formed
            <4>2. "deleteInstance" \in req[r].marks
                BY <2>1, <4>1 DEF UnderWay, Telling, Stops
            <4>. QED BY <3>2, <4>2 DEF IInv, Gone, NoneFinds
        <3>. QED BY <2>1, <3>1, <3>2
    <2>2. \A r \in Requests : Reconnected(r) => Reconnected(r)'
        BY <1>2 DEF Reconnected
    <2>. QED BY <1>2, <2>1, <2>2 DEF Stopped
<1>6. OneNameOnce'
    BY DEF IInv, OneNameOnce, NameOf
<1>. QED BY <1>1, <1>3, <1>4, <1>5, <1>6 DEF IInv

LEMMA NothingMoves ==
    ASSUME IInv, UNCHANGED <<req, doc, registry, groups, flow, loose, connections>>,
           alive' \in BOOLEAN, DeathsExplained'
    PROVE  IInv'
<1>1. UNCHANGED <<updates, loops, stray, late, left>>
    BY DEF connections
<1>2. /\ doc' \in [Ids -> {"absent", "disconnected", "connected"}]
      /\ registry' \subseteq Ids /\ stray' \subseteq Ids /\ updates' \subseteq Ids \X Kind
      /\ loops' \subseteq Ids \X Point /\ left' \in 0..Events
    BY <1>1 DEF IInv, Typed
<1>. QED BY <1>1, <1>2, RequestsStay

LEMMA LooseFailsKeeps ==
    ASSUME IInv, NEW l \in loose, LooseFails(l)
    PROVE  IInv'
<1>1. UNCHANGED <<req, doc, registry, groups, flow, loose, connections>> /\ alive' = FALSE
    BY DEF LooseFails
<1>2. DeathsExplained' /\ alive' \in BOOLEAN
    BY <1>1 DEF DeathsExplained
<1>. QED BY <1>1, <1>2, NothingMoves

LEMMA UpdateFailsKeeps ==
    ASSUME IInv, NEW i \in Ids, NEW k \in Kind, UpdateFails(i, k)
    PROVE  IInv'
<1>1. UNCHANGED <<req, doc, registry, groups, flow, loose, connections>> /\ alive' = FALSE /\ updates # {}
    BY DEF UpdateFails
<1>2. DeathsExplained' /\ alive' \in BOOLEAN
    BY <1>1 DEF DeathsExplained, connections
<1>. QED BY <1>1, <1>2, NothingMoves

LEMMA EventKeeps ==
    ASSUME IInv, NEW i \in Ids, NEW k \in Kind, Event(i, k)
    PROVE  IInv'
<1>1. /\ UNCHANGED <<req, doc, registry, groups, flow, loose, alive, loops, stray, late>>
      /\ alive /\ left > 0 /\ left' = left - 1 /\ updates' = updates \cup {<<i, k>>}
    BY DEF Event
<1>2. DeathsExplained' /\ alive' \in BOOLEAN
    BY <1>1, Lives
<1>3. /\ doc' \in [Ids -> {"absent", "disconnected", "connected"}]
      /\ registry' \subseteq Ids /\ stray' \subseteq Ids /\ updates' \subseteq Ids \X Kind
      /\ loops' \subseteq Ids \X Point /\ left' \in 0..Events
    BY <1>1, ApiAssumption DEF IInv, Typed
<1>. QED BY <1>1, <1>2, <1>3, RequestsStay

LEMMA UpdatesKeeps ==
    ASSUME IInv, NEW i \in Ids, NEW k \in Kind, Updates(i, k)
    PROVE  IInv'
<1>1. /\ UNCHANGED <<req, groups, flow, loose, alive, stray, late, left>> /\ alive
      /\ doc' = IF doc[i] = "absent" THEN doc
                ELSE [doc EXCEPT ![i] = IF k = "open" THEN "connected" ELSE "disconnected"]
      /\ loops' \subseteq loops \cup {<<i, "pausing">>}
      /\ registry' \subseteq registry /\ updates' \subseteq updates
    BY DEF Updates, Without
<1>2. DeathsExplained' /\ alive' \in BOOLEAN
    BY <1>1, Lives
<1>3. /\ doc' \in [Ids -> {"absent", "disconnected", "connected"}]
      /\ \A j \in Ids : doc'[j] = "absent" <=> doc[j] = "absent"
    BY <1>1 DEF IInv, Typed
<1>4. /\ registry' \subseteq Ids /\ stray' \subseteq Ids /\ updates' \subseteq Ids \X Kind
      /\ loops' \subseteq Ids \X Point /\ left' \in 0..Events
    BY <1>1 DEF IInv, Typed, Point
<1>. QED BY <1>1, <1>2, <1>3, <1>4, RequestsStay

(* A step of a reconnection loop. *)
LEMMA LoopStays ==
    ASSUME IInv, UNCHANGED <<req, doc, groups, flow, loose, late, left>>, alive, alive' = alive,
           NEW i \in Ids, NEW p \in Point,
           loops' \subseteq loops \cup {<<i, p>>}, p = "connecting" => doc[i] # "absent",
           registry' \subseteq registry \cup {i},
           i \in registry' => i \in registry \/ <<i, "connecting">> \in loops,
           stray' \subseteq Ids, updates' \subseteq Ids \X Kind
    PROVE  IInv'
<1>1. DeathsExplained' /\ alive' \in BOOLEAN
    BY Lives
<1>2. /\ doc' \in [Ids -> {"absent", "disconnected", "connected"}]
      /\ registry' \subseteq Ids /\ loops' \subseteq Ids \X Point /\ left' \in 0..Events
    BY DEF IInv, Typed
<1>3. \A j \in Ids : <<j, "connecting">> \in loops' => <<j, "connecting">> \in loops \/ doc[j] # "absent"
    OBVIOUS
<1>4. \A j \in registry' : j \in registry \/ <<j, "connecting">> \in loops
    OBVIOUS
<1>. QED BY <1>1, <1>2, <1>3, <1>4, RequestsStay

(* What a loop does to the registry: nothing, a stop, or a registration. *)
LEMMA UnregistersIs ==
    ASSUME IInv, NEW i \in Ids, Unregisters(i) \/ UNCHANGED <<registry, updates, stray>>
    PROVE  registry' \subseteq registry /\ stray' \subseteq Ids /\ updates' \subseteq Ids \X Kind
<1>1. <<i, "lost">> \in Ids \X Kind
    BY DEF Kind
<1>. QED BY <1>1 DEF Unregisters, IInv, Typed

LEMMA RestartsKeeps ==
    ASSUME IInv, NEW i \in Ids, Restarts(i)
    PROVE  IInv'
<1>1. /\ UNCHANGED <<req, doc, groups, flow, loose, late, left>> /\ alive /\ alive' = alive
      /\ loops' \subseteq loops \cup {<<i, "stopped">>}
      /\ Unregisters(i) \/ UNCHANGED <<registry, updates, stray>>
    BY DEF Restarts, Without
<1>2. "stopped" \in Point /\ "stopped" # "connecting"
    BY DEF Point
<1>. QED BY <1>1, <1>2, UnregistersIs, LoopStays

LEMMA StartsAgainKeeps ==
    ASSUME IInv, NEW i \in Ids, StartsAgain(i)
    PROVE  IInv'
<1>1. /\ UNCHANGED <<req, doc, groups, flow, loose, late, left>> /\ alive /\ alive' = alive
      /\ loops' \subseteq loops \cup {<<i, "finding">>}
      /\ UNCHANGED <<registry, updates, stray>>
    BY DEF StartsAgain
<1>2. "finding" \in Point /\ "finding" # "connecting"
    BY DEF Point
<1>. QED BY <1>1, <1>2, UnregistersIs, LoopStays

LEMMA TryFailsIs ==
    ASSUME IInv, NEW i \in Ids, NEW p, TryFails(i, p)
    PROVE  /\ loops' \subseteq loops \cup {<<i, "pausing">>}
           /\ Unregisters(i) \/ UNCHANGED <<registry, updates, stray>>
BY DEF TryFails

LEMMA FindsKeeps ==
    ASSUME IInv, NEW i \in Ids, Finds(i)
    PROVE  IInv'
<1>1. UNCHANGED <<req, doc, groups, flow, loose, late, left>> /\ alive /\ alive' = alive
    BY DEF Finds
<1>2. "connecting" \in Point /\ "pausing" \in Point /\ "pausing" # "connecting"
    BY DEF Point
<1>3. CASE /\ doc[i] # "absent"
           /\ loops' = (loops \ {<<i, "finding">>}) \cup {<<i, "connecting">>}
           /\ UNCHANGED <<registry, updates, stray>>
    <2>1. loops' \subseteq loops \cup {<<i, "connecting">>}
        BY <1>3
    <2>. QED BY <1>1, <1>2, <1>3, <2>1, UnregistersIs, LoopStays
<1>4. CASE TryFails(i, "finding")
    BY <1>1, <1>2, <1>4, TryFailsIs, UnregistersIs, LoopStays
<1>. QED BY <1>3, <1>4 DEF Finds

LEMMA ConnectsKeeps ==
    ASSUME IInv, NEW i \in Ids, Connects(i)
    PROVE  IInv'
<1>1. /\ UNCHANGED <<req, doc, groups, flow, loose, late, left>> /\ alive /\ alive' = alive
      /\ <<i, "connecting">> \in loops
    BY DEF Connects
<1>2. "pausing" \in Point /\ "pausing" # "connecting"
    BY DEF Point
<1>3. CASE Registers(i) /\ loops' = loops \ {<<i, "connecting">>}
    <2>1. /\ loops' \subseteq loops \cup {<<i, "pausing">>} /\ registry' \subseteq registry \cup {i}
          /\ stray' \subseteq Ids /\ updates' \subseteq Ids \X Kind
        BY <1>3 DEF Registers, IInv, Typed
    <2>. QED BY <1>1, <1>2, <2>1, LoopStays
<1>4. CASE TryFails(i, "connecting")
    BY <1>1, <1>2, <1>4, TryFailsIs, UnregistersIs, LoopStays
<1>. QED BY <1>3, <1>4 DEF Connects

LEMMA Initially == Init => IInv
<1>. SUFFICES ASSUME Init PROVE IInv
    OBVIOUS
<1>1. req = [r \in Requests |-> NoRequest] /\ \A r \in Requests : req[r] = NoRequest
    BY DEF Init
<1>2. PICK b \in Before :
          /\ doc = [i \in Ids |-> IF i = Known THEN b.doc ELSE "absent"]
          /\ registry = b.registry /\ groups = b.groups /\ flow = b.flow
    BY DEF Init
<1>3. Known \in Ids /\ \A r \in Requests : r \in Ids /\ r # Known
    BY ApiAssumption DEF Ids
<1>4. b \in Beginning
    BY ApiAssumption
<1>5. /\ b.doc \in {"absent", "disconnected", "connected"} /\ b.flow \in {"absent", "active"}
      /\ b.registry \subseteq {Known} /\ b.groups \subseteq {Known}
    BY <1>4 DEF Beginning
<1>6. /\ loose = {} /\ alive = TRUE
      /\ updates = {} /\ loops = {} /\ stray = {} /\ late = {} /\ left = Events
    BY DEF Init
<1>7. Typed
    BY <1>2, <1>3, <1>4, <1>5, <1>6, ApiAssumption DEF Typed, FlowStatus
<1>8. Formed /\ AboutSeen /\ LooseMarked /\ Gone /\ Stopped /\ DeathsExplained
    BY <1>1, <1>6, NoRequestIs DEF Formed, AboutSeen, LooseMarked, Gone, Stopped, DeathsExplained
<1>9. StoredReceived /\ OneNameOnce
    BY <1>2, <1>3 DEF StoredReceived, OneNameOnce
<1>. QED BY <1>7, <1>8, <1>9 DEF IInv

LEMMA NextKeeps == IInv /\ [Next]_vars => IInv'
<1>. SUFFICES ASSUME IInv, [Next]_vars PROVE IInv'
    OBVIOUS
<1>1. ASSUME NEW r \in Requests, NEW e \in Menu[r], NEW i \in About(r, e), NEW n \in Asked(r, e),
             NEW w \in {Nothing} \cup Mistake(e), Receive(r, e, i, n, w)
      PROVE  IInv'
    BY <1>1, ReceiveKeeps, ApiAssumption
<1>2. ASSUME NEW r \in Requests, Rejects(r) \/ Settles(r) PROVE IInv'
    BY <1>2, RejectsKeeps, ReadsKeeps, SavesKeeps, DeletesKeeps, WritesFlowKeeps,
       WritesCampaignKeeps, PerformsKeeps DEF Settles
<1>3. ASSUME NEW l \in loose, LooseFails(l) \/ LooseEnds(l) PROVE IInv'
    BY <1>3, LooseFailsKeeps, LooseEndsKeeps
<1>4. ASSUME NEW r \in Requests, Resume(r) PROVE IInv'
    BY <1>4, ResumeKeeps
<1>5. EventLoop => IInv'
    BY <1>2, <1>3, <1>4 DEF EventLoop
<1>6. ASSUME NEW i \in Ids, NEW k \in Kind, Event(i, k) \/ Updates(i, k) \/ UpdateFails(i, k) PROVE IInv'
    BY <1>6, EventKeeps, UpdatesKeeps, UpdateFailsKeeps
<1>7. ASSUME NEW i \in Ids, Restarts(i) \/ StartsAgain(i) \/ Finds(i) \/ Connects(i) PROVE IInv'
    BY <1>7, RestartsKeeps, StartsAgainKeeps, FindsKeeps, ConnectsKeeps
<1>8. CASE UNCHANGED vars
    <2>1. UNCHANGED <<req, doc, registry, groups, flow, loose, alive, connections>>
        BY <1>8 DEF vars
    <2>2. alive' \in BOOLEAN /\ DeathsExplained'
        BY <2>1 DEF IInv, Typed, DeathsExplained, connections
    <2>. QED BY <2>1, <2>2, NothingMoves
<1>. QED BY <1>1, <1>5, <1>6, <1>8, <1>7 DEF Next

-----------------------------------------------------------------------------
(* What the requests under way have done is what the paths of their        *)
(* endpoints say, and documents and registry are what the marks say.       *)
THEOREM ApiInvariant == Spec => []IInv
BY Initially, NextKeeps, PTL DEF Spec

(* The answers are true, a deleted instance is gone and only calls nobody  *)
(* waits for end the process, for any number of requests to any endpoints  *)
(* at any of each other's awaits, whatever events their connections have   *)
(* and wherever their reconnection loops are.                              *)
THEOREM ApiIsSound == Spec => []ApiSound
<1>1. ASSUME IInv PROVE ApiSound
    <2>1. ASSUME NEW r \in Requests
          PROVE  /\ req[r].phase \in {"none", "waiting", "settled", "answered"}
                 /\ req[r].fault \in Fault /\ req[r].status \in Status
                 /\ req[r].phase = "answered" <=> req[r].status # 0
        <3>1. CASE req[r] = NoRequest
            BY <3>1, NoRequestIs DEF Fault, Status
        <3>2. CASE UnderWay(req[r])
            BY <3>2 DEF UnderWay, Waits, GoesOn, IsAnswered, AtAwait, Successes, Fault, Status
        <3>. QED BY <1>1, <3>1, <3>2 DEF IInv, Formed
    <2>2. TypeOK
        BY <1>1, <2>1 DEF TypeOK, IInv, Typed, LooseMarked, FlowStatus
    <2>3. ASSUME NEW r \in Requests, Success(r)
          PROVE  Kept(req[r].to, req[r].marks)
        <3>1. req[r].phase = "answered" /\ req[r].status < 300
            BY <2>3 DEF Success, Answered
        <3>2. UnderWay(req[r])
            BY <1>1, <3>1, NoRequestIs DEF IInv, Formed
        <3>. QED BY <3>1, <3>2 DEF UnderWay, Waits, GoesOn, IsAnswered, Status
    <2>4. AnswersKeepPromises
        BY <2>3 DEF AnswersKeepPromises, Kept
    <2>5. DeletedIsGone
        BY <1>1, <2>3 DEF DeletedIsGone, Kept, IInv, Gone, NoneFinds, Stopped, Reconnected, Stops
    <2>. QED BY <1>1, <2>2, <2>4, <2>5 DEF ApiSound, IInv
<1>. QED BY <1>1, ApiInvariant, PTL

(* An error finds nothing done but what its endpoint is excused. *)
THEOREM ErrorsAreClean == Spec => []ErrorsLeaveNoTrace
<1>1. ASSUME IInv, NEW r \in Requests, Answered(r), req[r].status >= 400
      PROVE  req[r].marks \cap Traces \subseteq Excused(req[r].to)
    <2>1. UnderWay(req[r]) /\ req[r].phase = "answered"
        BY <1>1, NoRequestIs DEF IInv, Formed, Answered
    <2>. QED BY <1>1, <2>1 DEF UnderWay, Waits, GoesOn, IsAnswered, Successes, Clean
<1>2. IInv => ErrorsLeaveNoTrace
    BY <1>1 DEF ErrorsLeaveNoTrace
<1>. QED BY <1>2, ApiInvariant, PTL

(* InstancesCreator.execute looks a name up and saves later: it is the index *)
(* that keeps names unique, however many creations overlap.                  *)
THEOREM NamesAreUnique == Spec => []OneNameOnce
<1>1. IInv => OneNameOnce
    BY DEF IInv
<1>. QED BY <1>1, ApiInvariant, PTL
=============================================================================
