------------------------- MODULE ConversationsProofs -------------------------
(***************************************************************************)
(* What is proved of the bot and its flow engine, for any messages, chats, *)
(* flows, graphs and requests.                                             *)
(*                                                                         *)
(* The walk of execute() is a recursive function.  That it exists, and     *)
(* that what holds at its start and survives a turn holds at its end, is   *)
(* proved first, by induction on the number of turns.                      *)
(***************************************************************************)
EXTENDS Conversations, TLAPS, FiniteSetTheorems, WellFoundedInduction

-----------------------------------------------------------------------------
\* Induction over sets of natural numbers, from the well-foundedness of <.
LEMMA NotBefore ==
    ASSUME NEW x \in Nat, NEW y \in Nat, <<x, y>> \notin OpToRel(<, Nat)
    PROVE  ~(x < y)
BY DEF OpToRel

LEMMA LeastNatural ==
    ASSUME NEW T \in SUBSET Nat, T # {}
    PROVE  \E m \in T : \A k \in T : m <= k
<1>1. IsWellFoundedOn(OpToRel(<, Nat), Nat)
  BY NatLessThanWellFounded
<1>2. PICK m \in T : \A y \in T : ~(<<y, m>> \in OpToRel(<, Nat))
  BY <1>1, WFMin
<1>3. \A y \in T : ~(y < m)
  <2>1. TAKE y \in T
  <2>2. <<y, m>> \notin OpToRel(<, Nat) /\ y \in Nat /\ m \in Nat
    BY <1>2
  <2>. HIDE <1>2
  <2>. QED BY <2>2, NotBefore
<1>. QED BY <1>3

LEMMA NaturalInduction ==
    ASSUME NEW T \in SUBSET Nat, 0 \in T, \A n \in T : n + 1 \in T
    PROVE  T = Nat
<1>. DEFINE U == Nat \ T
<1>1. SUFFICES ASSUME U # {} PROVE FALSE
  OBVIOUS
<1>2. PICK m \in U : \A k \in U : m <= k
  BY <1>1, LeastNatural
<1>3. m # 0 /\ m - 1 \in Nat /\ m - 1 \notin U
  BY <1>2
<1>4. m - 1 \in T
  BY <1>3
<1>5. (m - 1) + 1 \in T
  BY <1>4
<1>. QED BY <1>2, <1>5

-----------------------------------------------------------------------------
\* Where a walk can be.
Position == [node : NodeIds \cup {None}, vars : Vars, reply : NodeIds \cup {None},
             end : {"walks", "done", "waits", "missing", "threw"}]

\* What execute() is given: a graph, a conversation and perhaps a text.
Given(nodes, state, input) ==
    IsGraph(nodes) /\ state \in Conversation /\ input \in Texts \cup {None}

LEMMA TurnsFinite ==
    ASSUME NEW nodes, IsGraph(nodes)
    PROVE  Cardinality(DOMAIN nodes) \in Nat /\ Cardinality(Variables) \in Nat /\ Enough(nodes) \in Nat
           /\ IsFiniteSet(DOMAIN nodes) /\ Enough(nodes) > Cardinality(DOMAIN nodes) + 1
<1>1. IsFiniteSet(DOMAIN nodes) /\ IsFiniteSet(Variables)
  BY TextsAssumption, FS_Subset DEF IsGraph
<1>2. PICK d \in Nat : d = Cardinality(DOMAIN nodes)
  BY <1>1, FS_CardinalityType
<1>3. PICK v \in Nat : v = Cardinality(Variables)
  BY <1>1, FS_CardinalityType
<1>4. (d + 1) * (v + 1) = d * v + d + v + 1 /\ d * v \in Nat
  OBVIOUS
<1>. QED BY <1>1, <1>2, <1>3, <1>4 DEF Enough

LEMMA AnswersTyped ==
    ASSUME NEW node \in FlowNode, NEW at \in Position, NEW input \in Texts \cup {None}
    PROVE  /\ InputNodeExecutor(node, at, input).vars \in Vars
           /\ \A v \in Variables : InputNodeExecutor(node, at, input).vars[v]
                                      \in {at.vars[v], None} \cup (IF input = None THEN {} ELSE {Norm[input]})
<1>1. at.vars \in Vars
  BY DEF Position
<1>2. PICK text \in Texts \cup {None} : text = IF input = None THEN None ELSE Norm[input]
  BY TextsAssumption
<1>3. [at.vars EXCEPT ![node.variable] = text] \in Vars
  BY <1>1 DEF Vars
<1>4. \A v \in Variables : [at.vars EXCEPT ![node.variable] = text][v] \in {at.vars[v], text}
  BY <1>1 DEF Vars
<1>. QED BY <1>2, <1>3, <1>4 DEF InputNodeExecutor

\* What one turn does to a walk that goes on.
LEMMA TurnCases ==
    ASSUME NEW nodes, IsGraph(nodes), NEW at \in Position, NEW input \in Texts \cup {None}
    PROVE  LET to == Turn(nodes, at, input)
           IN  /\ to \in Position
               /\ \A v \in Variables : to.vars[v] \in {at.vars[v], None} \cup (IF input = None THEN {} ELSE {Norm[input]})
               /\ at.node \notin DOMAIN nodes => to.end = "missing" /\ to.node = at.node
               /\ at.node \in DOMAIN nodes => to.end # "missing"
               /\ to.end = "waits" => to.node = at.node /\ nodes[at.node].type = "input"
               /\ to.end = "done" => to.node = None
               /\ to.end = "walks" =>
                     /\ to.node # None /\ at.node \in DOMAIN nodes
                     /\ to.node \in {nodes[at.node].next, nodes[at.node].orElse}
                     /\ nodes[at.node].type = "input" => input # None
<1>. DEFINE to == Turn(nodes, at, input)
<1>1. at.node \in NodeIds \cup {None} /\ at.vars \in Vars /\ at.reply \in NodeIds \cup {None}
  BY DEF Position
<1>2. CASE at.node \notin DOMAIN nodes
  <2>1. to = [at EXCEPT !.end = "missing", !.reply = None]
    BY <1>2 DEF Turn
  <2>. QED BY <1>2, <2>1 DEF Position
<1>3. CASE at.node \in DOMAIN nodes /\ nodes[at.node].type \in {"ai", "delay"}
  <2>1. to = [at EXCEPT !.end = "threw"]
    BY <1>3 DEF Turn
  <2>. QED BY <1>3, <2>1 DEF Position
<1>4. CASE at.node \in DOMAIN nodes /\ nodes[at.node].type \notin {"ai", "delay"}
  <2>1. PICK node \in FlowNode : node = nodes[at.node]
    BY <1>4 DEF IsGraph
  <2>2. node.next \in NodeIds \cup {None} /\ node.orElse \in NodeIds \cup {None} /\ at.node \in NodeIds /\ at.node # None
    BY <1>4, TextsAssumption DEF FlowNode, IsGraph
  <2>3. CASE node.type = "message"
    <3>1. to = [node |-> node.next, vars |-> at.vars, reply |-> at.node, end |-> IF node.next = None THEN "done" ELSE "walks"]
      BY <1>4, <2>1, <2>3 DEF Turn, MessageNodeExecutor
    <3>. QED BY <1>1, <1>4, <2>1, <2>2, <2>3, <3>1 DEF Position
  <2>4. CASE node.type = "condition"
    <3>1. PICK next \in {node.next, node.orElse} : next = ConditionNodeExecutor(node, at).next
      BY DEF ConditionNodeExecutor
    <3>2. to = [node |-> next, vars |-> at.vars, reply |-> at.reply, end |-> IF next = None THEN "done" ELSE "walks"]
      BY <1>4, <2>1, <2>4, <3>1 DEF Turn, ConditionNodeExecutor
    <3>. QED BY <1>1, <1>4, <2>1, <2>2, <2>4, <3>1, <3>2 DEF Position
  <2>5. CASE node.type = "input"
    <3>1. PICK v : v = InputNodeExecutor(node, at, input).vars
      OBVIOUS
    <3>2. v \in Vars /\ \A x \in Variables : v[x] \in {at.vars[x], None} \cup (IF input = None THEN {} ELSE {Norm[input]})
      BY <3>1, AnswersTyped
    <3>3. to = [node |-> IF input = None THEN at.node ELSE node.next, vars |-> v, reply |-> at.reply,
                end |-> IF input = None THEN "waits" ELSE IF node.next = None THEN "done" ELSE "walks"]
      BY <1>4, <2>1, <2>5, <3>1 DEF Turn, InputNodeExecutor
    <3>. QED BY <1>1, <1>4, <2>1, <2>2, <2>5, <3>2, <3>3 DEF Position
  <2>. QED BY <1>4, <2>1, <2>3, <2>4, <2>5 DEF FlowNode, NodeType
<1>. QED BY <1>2, <1>3, <1>4

-----------------------------------------------------------------------------
LEMMA StartPosition ==
    ASSUME NEW state \in Conversation
    PROVE  Start(state) \in Position
BY DEF Start, Position, Conversation

LEMMA AdvancePosition ==
    ASSUME NEW nodes, IsGraph(nodes), NEW at \in Position, NEW input \in Texts \cup {None}
    PROVE  Advance(nodes, at, input) \in Position
BY TurnCases DEF Advance

\* A walk of any length: the positions after 0 .. n turns.
IsWalk(w, n, nodes, state, input) ==
    /\ w \in [0 .. n -> Position]
    /\ w[0] = Start(state)
    /\ \A k \in 1 .. n : w[k] = Advance(nodes, w[k - 1], input)

LEMMA WalkExists ==
    ASSUME NEW nodes, NEW state, NEW input, Given(nodes, state, input), NEW n \in Nat
    PROVE  \E w : IsWalk(w, n, nodes, state, input)
<1>. DEFINE T == {m \in Nat : \E w : IsWalk(w, m, nodes, state, input)}
<1>1. 0 \in T
  <2>1. IsWalk([k \in 0 .. 0 |-> Start(state)], 0, nodes, state, input)
    BY StartPosition DEF IsWalk, Given
  <2>. QED BY <2>1
<1>2. \A m \in T : m + 1 \in T
  <2>1. SUFFICES ASSUME NEW m \in Nat, NEW w, IsWalk(w, m, nodes, state, input)
                 PROVE  \E x : IsWalk(x, m + 1, nodes, state, input)
    OBVIOUS
  <2>2. PICK next \in Position : next = Advance(nodes, w[m], input)
    BY <2>1, AdvancePosition DEF IsWalk, Given
  <2>. DEFINE x == [k \in 0 .. (m + 1) |-> IF k = m + 1 THEN next ELSE w[k]]
  <2>3. x \in [0 .. (m + 1) -> Position] /\ x[0] = Start(state)
    BY <2>1 DEF IsWalk
  <2>4. ASSUME NEW k \in 1 .. (m + 1)
        PROVE  x[k] = Advance(nodes, x[k - 1], input)
    <3>1. CASE k = m + 1
      BY <2>2, <3>1
    <3>2. CASE k # m + 1
      <4>1. k \in 1 .. m /\ x[k] = w[k] /\ x[k - 1] = w[k - 1]
        BY <3>2
      <4>. QED BY <2>1, <4>1 DEF IsWalk
    <3>. QED BY <3>1, <3>2
  <2>5. IsWalk(x, m + 1, nodes, state, input)
    <3>. HIDE DEF x
    <3>. QED BY <2>3, <2>4 DEF IsWalk
  <2>. QED BY <2>5
<1>3. T = Nat
  <2>1. T \in SUBSET Nat
    OBVIOUS
  <2>. HIDE DEF T
  <2>. QED BY <1>1, <1>2, <2>1, NaturalInduction
<1>. QED BY <1>3

\* The recursive function of execute() is such a walk.
LEMMA WalksIsWalk ==
    ASSUME NEW nodes, NEW state, NEW input, Given(nodes, state, input)
    PROVE  IsWalk(Walks(nodes, state, input), Enough(nodes), nodes, state, input)
<1>1. PICK n \in Nat : n = Enough(nodes)
  BY TurnsFinite DEF Given
<1>2. PICK w : IsWalk(w, n, nodes, state, input)
  BY WalkExists
<1>. DEFINE Recursive(f) == f = [k \in 0 .. n |-> IF k = 0 THEN Start(state) ELSE Advance(nodes, f[k - 1], input)]
            walk == CHOOSE f : Recursive(f)
<1>3. Recursive(w)
  <2>1. w = [k \in 0 .. n |-> w[k]]
    BY <1>2 DEF IsWalk
  <2>2. \A k \in 0 .. n : w[k] = IF k = 0 THEN Start(state) ELSE Advance(nodes, w[k - 1], input)
    BY <1>2 DEF IsWalk
  <2>. QED BY <2>1, <2>2
<1>4. Recursive(walk)
  BY <1>3
<1>5. Walks(nodes, state, input) = walk
  BY <1>1 DEF Walks
<1>. HIDE DEF walk
<1>6. walk = w
  <2>. DEFINE T == {k \in Nat : k <= n => walk[k] = w[k]}
  <2>1. 0 \in T
    BY <1>2, <1>4 DEF IsWalk
  <2>2. \A k \in T : k + 1 \in T
    <3>1. SUFFICES ASSUME NEW k \in Nat, walk[k] = w[k], k + 1 <= n
                   PROVE  walk[k + 1] = w[k + 1]
      OBVIOUS
    <3>2. PICK j \in 1 .. n : j = k + 1
      BY <3>1
    <3>3. walk[j] = Advance(nodes, walk[j - 1], input)
      BY <1>4
    <3>4. w[j] = Advance(nodes, w[j - 1], input)
      BY <1>2 DEF IsWalk
    <3>. QED BY <3>1, <3>2, <3>3, <3>4
  <2>3. T = Nat
    <3>1. T \in SUBSET Nat
      OBVIOUS
    <3>. HIDE DEF T
    <3>. QED BY <2>1, <2>2, <3>1, NaturalInduction
  <2>4. \A k \in 0 .. n : walk[k] = w[k]
    BY <2>3
  <2>5. walk = [k \in 0 .. n |-> walk[k]]
    BY <1>4
  <2>6. w = [k \in 0 .. n |-> w[k]]
    BY <1>2 DEF IsWalk
  <2>. QED BY <2>4, <2>5, <2>6
<1>. QED BY <1>1, <1>2, <1>5, <1>6

\* What holds where a walk starts and survives a turn holds where it ends.
LEMMA WalkKeeps ==
    ASSUME NEW nodes, NEW state, NEW input, Given(nodes, state, input),
           NEW I \in SUBSET Position, Start(state) \in I,
           \A at \in I : Advance(nodes, at, input) \in I
    PROVE  Execute(nodes, state, input) \in I
<1>1. PICK n \in Nat : n = Enough(nodes)
  BY TurnsFinite DEF Given
<1>2. PICK w : w = Walks(nodes, state, input)
  OBVIOUS
<1>3. IsWalk(w, n, nodes, state, input)
  BY <1>1, <1>2, WalksIsWalk
<1>. DEFINE T == {k \in Nat : k <= n => w[k] \in I}
<1>4. 0 \in T
  BY <1>3 DEF IsWalk
<1>5. \A k \in T : k + 1 \in T
  <2>1. SUFFICES ASSUME NEW k \in Nat, w[k] \in I, k + 1 <= n
                 PROVE  w[k + 1] \in I
    OBVIOUS
  <2>2. PICK j \in 1 .. n : j = k + 1
    BY <2>1
  <2>3. w[j] = Advance(nodes, w[j - 1], input)
    BY <1>3 DEF IsWalk
  <2>. QED BY <2>1, <2>2, <2>3
<1>6. T = Nat
  <2>1. T \in SUBSET Nat
    OBVIOUS
  <2>. HIDE DEF T
  <2>. QED BY <1>4, <1>5, <2>1, NaturalInduction
<1>7. w[n] \in I
  BY <1>6
<1>. QED BY <1>1, <1>2, <1>7 DEF Execute

\* What execute() may have written into the variables of a conversation.
Written(state, input, v) == {state.vars[v], None} \cup (IF input = None THEN {} ELSE {Norm[input]})

\* execute() keeps to its types, writes nothing but the text it was given,
\* and ends at no node, at a question, or at a node that is missing; in a
\* graph whose links all lead somewhere none is.
THEOREM WalkEnds ==
    ASSUME NEW nodes, NEW state, NEW input, Given(nodes, state, input)
    PROVE  LET walk == Execute(nodes, state, input)
           IN  /\ walk \in Position
               /\ \A v \in Variables : walk.vars[v] \in Written(state, input, v)
               /\ walk.end = "done" => walk.node = None
               /\ walk.end = "waits" => walk.node \in DOMAIN nodes /\ nodes[walk.node].type = "input"
               /\ walk.end = "missing" => walk.node # None
               /\ Closed(nodes) /\ state.node \in DOMAIN nodes \cup {None} => walk.end # "missing"
<1>. DEFINE Whole == Closed(nodes) /\ state.node \in DOMAIN nodes \cup {None}
            I == {at \in Position :
                     /\ \A v \in Variables : at.vars[v] \in Written(state, input, v)
                     /\ at.end = "walks" => at.node # None
                     /\ at.end = "done" => at.node = None
                     /\ at.end = "waits" => at.node \in DOMAIN nodes /\ nodes[at.node].type = "input"
                     /\ at.end = "missing" => at.node # None
                     /\ Whole => at.end # "missing" /\ (at.end = "walks" => at.node \in DOMAIN nodes)}
<1>1. IsGraph(nodes) /\ state \in Conversation /\ input \in Texts \cup {None}
  BY DEF Given
<1>2. Start(state) \in I
  <2>1. Start(state) \in Position
    BY <1>1, StartPosition
  <2>2. \A v \in Variables : Start(state).vars[v] \in Written(state, input, v)
    BY DEF Start, Written
  <2>. QED BY <2>1, <2>2 DEF Start
<1>3. ASSUME NEW at \in I
      PROVE  Advance(nodes, at, input) \in I
  <2>1. CASE at.end # "walks"
    BY <2>1 DEF Advance
  <2>2. CASE at.end = "walks"
    <3>1. PICK to : to = Turn(nodes, at, input)
      OBVIOUS
    <3>2. /\ to \in Position
          /\ \A v \in Variables : to.vars[v] \in {at.vars[v], None} \cup (IF input = None THEN {} ELSE {Norm[input]})
          /\ at.node \notin DOMAIN nodes => to.end = "missing" /\ to.node = at.node
          /\ at.node \in DOMAIN nodes => to.end # "missing"
          /\ to.end = "waits" => to.node = at.node /\ nodes[at.node].type = "input"
          /\ to.end = "done" => to.node = None
          /\ to.end = "walks" =>
                /\ to.node # None /\ at.node \in DOMAIN nodes
                /\ to.node \in {nodes[at.node].next, nodes[at.node].orElse}
      BY <1>1, <3>1, TurnCases
    <3>3. \A v \in Variables : to.vars[v] \in Written(state, input, v)
      BY <3>2 DEF Written
    <3>4. to.end = "waits" => to.node \in DOMAIN nodes /\ nodes[to.node].type = "input"
      BY <3>2
    <3>5. to.end = "missing" => to.node # None
      BY <2>2, <3>2
    <3>6. Whole => to.end # "missing" /\ (to.end = "walks" => to.node \in DOMAIN nodes)
      BY <2>2, <3>2 DEF Closed
    <3>7. to \in I
      BY <3>2, <3>3, <3>4, <3>5, <3>6
    <3>. QED BY <2>2, <3>1, <3>7 DEF Advance
  <2>. QED BY <2>1, <2>2
<1>4. I \in SUBSET Position
  OBVIOUS
<1>5. Execute(nodes, state, input) \in I
  <2>. HIDE DEF I
  <2>. QED BY <1>2, <1>3, <1>4, WalkKeeps
<1>. QED BY <1>5

-----------------------------------------------------------------------------
\* The inductive invariant.

Underway(m) == job[m].pc \in {"finding", "found"}

\* Until a request rewrites it a flow is as the seed wrote it, or empty.
Untouched == \A f \in FlowIds : flows[f] # None /\ ~Rewritten(f) => WellFormed(flows[f])

\* A call knows its chat and text; what its conversation holds was written
\* in that chat, the text of the call among it.
OwnWords(m) ==
    /\ job[m].chat \in Chats /\ job[m].text \in Texts /\ job[m].state \in Conversation
    /\ Norm[job[m].text] \in said[job[m].chat]
    /\ \A v \in Variables : job[m].state.vars[v] \in said[job[m].chat] \cup {None}

\* A conversation that was read rests; what was found for it is its flow.
Places(m) ==
    /\ job[m].pc = "finding" => AtRest(job[m].state)
    /\ job[m].pc = "found" =>
          /\ job[m].state.flow \in FlowIds /\ flows[job[m].state.flow] # None /\ job[m].nodes \in Nodes
          /\ ~Rewritten(job[m].state.flow) =>
                job[m].nodes = flows[job[m].state.flow].nodes /\ job[m].state.node \in DOMAIN job[m].nodes

\* What a request has read and will write.
Change(e) ==
    /\ edit[e].pc = "idle" => edit[e] = Idle
    /\ edit[e].pc = "read" =>
          /\ edit[e].flow \in FlowIds /\ edit[e].doc \in FlowModel
          /\ edit[e].kind # "create" =>
                /\ flows[edit[e].flow] # None /\ edit[e].was \in FlowModel
                /\ \A field \in DOMAIN edit[e].was :
                      edit[e].doc[field] # edit[e].was[field] => field \in FieldsOf(edit[e].kind)
          /\ ~Rewritten(edit[e].flow) =>
                /\ WellFormed(edit[e].doc)
                /\ flows[edit[e].flow] # None => edit[e].doc.nodes = flows[edit[e].flow].nodes

\* A flow made by a request is, and will be, inactive, and no conversation
\* is in it; until it is saved no other request has it.
Created(e) ==
    edit[e].kind = "create" =>
        /\ edit[e].flow \in FlowIds
        /\ flows[edit[e].flow] # None => ~flows[edit[e].flow].active
        /\ edit[e].pc = "read" => flows[edit[e].flow] = None
        /\ flows[edit[e].flow] = None => \A d \in Edits : edit[d].flow = edit[e].flow => d = e
        /\ \A d \in Edits : edit[d].pc = "read" /\ edit[d].flow = edit[e].flow => ~edit[d].doc.active
        /\ \A m \in Messages : Underway(m) => job[m].state.flow # edit[e].flow
        /\ \A c \in Chats : store[c] # None => store[c].flow # edit[e].flow

IInv ==
    /\ Sound
    /\ NoCrossTalk
    /\ Untouched
    /\ \A m \in Messages : Underway(m) => OwnWords(m) /\ Places(m)
    /\ \A e \in Edits : Change(e) /\ Created(e)

LEMMA Initially ==
    ASSUME Init
    PROVE  IInv
<1>1. flows \in [FlowIds -> FlowModel \cup {None}] /\ \A f \in FlowIds : flows[f] # None => WellFormed(flows[f])
  BY ConversationsAssumption DEF Init
<1>2. Waiting \in Call /\ Waiting.pc = "expected" /\ Idle \in Edit /\ Idle.pc = "idle" /\ Idle.kind = None
  BY DEF Waiting, Call, Idle, Edit
<1>3. \A m \in Messages : job[m] = Waiting
  BY DEF Init
<1>4. \A e \in Edits : edit[e] = Idle
  BY DEF Init
<1>5. \A c \in Chats : store[c] = None
  BY DEF Init
<1>6. TypeOK
  BY <1>1, <1>2 DEF Init, TypeOK
<1>7. \A e \in Edits : Change(e) /\ Created(e)
  <2>1. None # "create"
    BY ConversationsAssumption DEF Kind
  <2>. QED BY <1>2, <1>4, <2>1 DEF Change, Created
<1>. QED BY <1>1, <1>2, <1>3, <1>5, <1>6, <1>7 DEF IInv, Sound, NoCrossTalk, Untouched, Underway

-----------------------------------------------------------------------------
\* The calls of handleMessage.

LEMMA NoNone ==
    /\ None \notin FlowIds /\ None \notin FlowModel /\ None \notin Conversation /\ None \notin NodeIds /\ None \notin Texts
    /\ None \notin Nodes
BY ConversationsAssumption, TextsAssumption

\* A step that leaves the flows and the requests alone.
LEMMA FlowsAlone ==
    ASSUME IInv, UNCHANGED <<flows, edit>>
    PROVE  /\ Untouched' /\ \A e \in Edits : Change(e)'
           /\ \A s \in Conversation : AtRest(s) => AtRest(s)'
BY DEF IInv, Untouched, Change, AtRest, Rewritten

LEMMA FreshTyped ==
    /\ Fresh \in Conversation /\ Fresh.flow = None /\ Fresh.node = None
    /\ \A v \in Variables : Fresh.vars[v] = None
BY DEF Fresh, Conversation, Vars

\* A call takes the conversation of its chat; its text has now been said.
LEMMA BeginKeeps ==
    ASSUME IInv, NEW m \in Messages, NEW c \in Chats, NEW t \in Texts, Begin(m, c, t)
    PROVE  IInv'
<1>. DEFINE state == IF store[c] = None THEN Fresh ELSE store[c]
            call == [job[m] EXCEPT !.pc = "finding", !.chat = c, !.text = t, !.state = state]
<1>1. TypeOK /\ Norm[t] \in Texts
  BY TextsAssumption DEF IInv, Sound
<1>2. /\ job' = [job EXCEPT ![m] = call] /\ said' = [said EXCEPT ![c] = @ \cup {Norm[t]}]
      /\ UNCHANGED <<flows, store, edit, process>>
  BY DEF Begin, StoreKey
<1>3. /\ state \in Conversation /\ AtRest(state)
      /\ \A v \in Variables : state.vars[v] \in said[c] \cup {None}
      /\ \A e \in Edits : edit[e].kind = "create" => state.flow # edit[e].flow
  <2>1. CASE store[c] = None
    <3>1. state = Fresh
      BY <2>1
    <3>2. \A e \in Edits : edit[e].kind = "create" => edit[e].flow # None
      BY NoNone DEF IInv, Created
    <3>. QED BY <3>1, <3>2, FreshTyped DEF AtRest
  <2>2. CASE store[c] # None
    <3>1. state = store[c]
      BY <2>2
    <3>. QED BY <1>1, <2>2, <3>1 DEF TypeOK, IInv, Sound, NoCrossTalk, Created
  <2>. QED BY <2>1, <2>2
<1>. HIDE DEF state
<1>4. call \in Call /\ call.pc = "finding" /\ call.chat = c /\ call.text = t /\ call.state = state
  BY <1>1, <1>3 DEF TypeOK, Call
<1>. HIDE DEF call
<1>5. job' \in [Messages -> Call] /\ job'[m] = call /\ \A n \in Messages \ {m} : job'[n] = job[n]
  BY <1>1, <1>2, <1>4 DEF TypeOK
<1>6. said' \in [Chats -> SUBSET Texts] /\ Norm[t] \in said'[c] /\ \A d \in Chats : said[d] \subseteq said'[d]
  BY <1>1, <1>2 DEF TypeOK
<1>7. TypeOK'
  BY <1>1, <1>2, <1>5, <1>6 DEF TypeOK
<1>8. Untouched' /\ (\A e \in Edits : Change(e)') /\ \A s \in Conversation : AtRest(s) => AtRest(s)'
  BY <1>2, FlowsAlone
<1>9. Sound'
  BY <1>1, <1>2, <1>7, <1>8 DEF IInv, Sound, TypeOK
<1>10. NoCrossTalk'
  BY <1>2, <1>6 DEF IInv, NoCrossTalk
<1>11. ASSUME NEW n \in Messages, Underway(n)'
       PROVE  OwnWords(n)' /\ Places(n)'
  <2>1. CASE n = m
    <3>1. OwnWords(m)'
      BY <1>3, <1>4, <1>5, <1>6 DEF OwnWords
    <3>2. Places(m)'
      BY <1>3, <1>4, <1>5, <1>8 DEF Places
    <3>. QED BY <2>1, <3>1, <3>2
  <2>2. CASE n # m
    <3>1. job'[n] = job[n] /\ OwnWords(n) /\ Places(n)
      BY <1>5, <1>11, <2>2 DEF IInv, Underway
    <3>2. OwnWords(n)'
      BY <1>6, <3>1 DEF OwnWords
    <3>3. Places(n)'
      BY <1>2, <1>8, <3>1 DEF Places, OwnWords, Rewritten
    <3>. QED BY <3>2, <3>3
  <2>. QED BY <2>1, <2>2
<1>12. ASSUME NEW e \in Edits
       PROVE  Created(e)'
  <2>1. Created(e)
    BY DEF IInv
  <2>2. \A n \in Messages : Underway(n)' /\ edit[e].kind = "create" => job'[n].state.flow # edit[e].flow
    BY <1>3, <1>4, <1>5, <2>1 DEF Underway, Created
  <2>. QED BY <1>2, <2>1, <2>2 DEF Created
<1>. QED BY <1>8, <1>9, <1>10, <1>11, <1>12 DEF IInv

\* May a conversation be one of this chat?
Fitting(c, s) ==
    /\ s \in Conversation
    /\ \A v \in Variables : s.vars[v] \in said[c] \cup {None}
    /\ \A e \in Edits : edit[e].kind = "create" => s.flow # edit[e].flow

\* Has a call found what belongs to its conversation?
FoundPlace(call) ==
    /\ call.state.flow \in FlowIds /\ flows[call.state.flow] # None /\ call.nodes \in Nodes
    /\ ~Rewritten(call.state.flow) =>
          call.nodes = flows[call.state.flow].nodes /\ call.state.node \in DOMAIN call.nodes

\* A call that is under way goes on, or ends, and may write a conversation.
LEMMA CallMoves ==
    ASSUME IInv, NEW m \in Messages, NEW call \in Call,
           job' = [job EXCEPT ![m] = call], UNCHANGED <<flows, edit, process, said>>,
           call.pc \in {"found", "sending", "done"},
           call.pc = "found" => /\ Underway(m) /\ call.chat = job[m].chat /\ call.text = job[m].text
                                /\ Fitting(call.chat, call.state) /\ FoundPlace(call),
           store' \in [Chats -> Conversation \cup {None}],
           \A c \in Chats : store'[c] # None => store'[c] = store[c] \/ (Fitting(c, store'[c]) /\ AtRest(store'[c]))
    PROVE  IInv'
<1>1. TypeOK
  BY DEF IInv, Sound
<1>2. job' \in [Messages -> Call] /\ job'[m] = call /\ \A n \in Messages \ {m} : job'[n] = job[n]
  BY <1>1 DEF TypeOK
<1>3. TypeOK'
  BY <1>1, <1>2 DEF TypeOK
<1>4. Untouched' /\ (\A e \in Edits : Change(e)') /\ \A s \in Conversation : AtRest(s) => AtRest(s)'
  BY FlowsAlone
<1>5. \A c \in Chats : store'[c] # None => store'[c] \in Conversation /\ AtRest(store'[c])
  BY <1>1 DEF IInv, Sound, TypeOK, Fitting
<1>6. Sound'
  BY <1>3, <1>4, <1>5 DEF Sound
<1>7. NoCrossTalk'
  BY DEF IInv, NoCrossTalk, Fitting
<1>8. ASSUME NEW n \in Messages, Underway(n)'
      PROVE  OwnWords(n)' /\ Places(n)'
  <2>1. CASE n = m
    <3>1. call.pc = "found"
      BY <1>2, <1>8, <2>1 DEF Underway
    <3>2. OwnWords(m)'
      BY <1>2, <3>1 DEF OwnWords, Fitting, IInv
    <3>3. Places(m)'
      BY <1>2, <3>1 DEF Places, FoundPlace, Rewritten
    <3>. QED BY <2>1, <3>2, <3>3
  <2>2. CASE n # m
    <3>1. job'[n] = job[n] /\ OwnWords(n) /\ Places(n)
      BY <1>2, <1>8, <2>2 DEF IInv, Underway
    <3>2. OwnWords(n)'
      BY <3>1 DEF OwnWords
    <3>3. Places(n)'
      BY <1>4, <3>1 DEF Places, OwnWords, Rewritten
    <3>. QED BY <3>2, <3>3
  <2>. QED BY <2>1, <2>2
<1>9. ASSUME NEW e \in Edits
      PROVE  Created(e)'
  <2>1. Created(e)
    BY DEF IInv
  <2>2. \A n \in Messages : Underway(n)' /\ edit[e].kind = "create" => job'[n].state.flow # edit[e].flow
    BY <1>2, <2>1 DEF Underway, Created, Fitting
  <2>3. \A c \in Chats : store'[c] # None /\ edit[e].kind = "create" => store'[c].flow # edit[e].flow
    BY <2>1 DEF Created, Fitting
  <2>. QED BY <2>1, <2>2, <2>3 DEF Created
<1>. QED BY <1>4, <1>6, <1>7, <1>8, <1>9 DEF IInv

LEMMA OverTyped ==
    /\ Over \in Call /\ Over.pc = "done"
    /\ [Over EXCEPT !.pc = "sending"] \in Call /\ [Over EXCEPT !.pc = "sending"].pc = "sending"
BY DEF Over, Waiting, Call

\* A new conversation goes to the start of an active flow, and no flow that
\* a request made is active; one in a flow stays where it rests.
LEMMA FindKeeps ==
    ASSUME IInv, NEW m \in Messages, Find(m)
    PROVE  IInv'
<1>. DEFINE state == job[m].state
<1>1. TypeOK /\ Underway(m) /\ OwnWords(m) /\ Places(m) /\ job[m] \in Call /\ AtRest(state)
  BY DEF Find, IInv, Sound, TypeOK, Underway, Places
<1>2. UNCHANGED <<flows, store, edit, process, said>>
  BY DEF Find
<1>3. store' \in [Chats -> Conversation \cup {None}]
  BY <1>1, <1>2 DEF TypeOK
<1>4. CASE job' = [job EXCEPT ![m] = Over]
  BY <1>2, <1>3, <1>4, CallMoves, OverTyped
<1>5. ASSUME state.flow = None, NEW f \in FindActive(m),
             job' = [job EXCEPT ![m] =
                [@ EXCEPT !.pc = "found", !.new = TRUE, !.nodes = flows[f].nodes,
                          !.state = [flow |-> f, node |-> flows[f].start, vars |-> job[m].state.vars]]]
      PROVE  IInv'
  <2>. DEFINE to == [flow |-> f, node |-> flows[f].start, vars |-> state.vars]
              call == [job[m] EXCEPT !.pc = "found", !.new = TRUE, !.nodes = flows[f].nodes, !.state = to]
  <2>1. f \in FlowIds /\ flows[f] \in FlowModel /\ flows[f].active
    BY <1>1 DEF FindActive, TypeOK
  <2>2. flows[f] # None /\ flows[f].start \in NodeIds /\ flows[f].nodes \in Nodes
    BY <2>1, NoNone DEF FlowModel
  <2>3. state \in Conversation /\ to \in Conversation
    BY <1>1, <2>1, <2>2 DEF OwnWords, Conversation
  <2>5. job' = [job EXCEPT ![m] = call]
    BY <1>5
  <2>6. \A e \in Edits : edit[e].kind = "create" => f # edit[e].flow
    BY <2>1, <2>2 DEF IInv, Created
  <2>7. ~Rewritten(f) => flows[f].start \in DOMAIN flows[f].nodes
    BY <2>1, <2>2 DEF IInv, Untouched, WellFormed
  <2>8. Fitting(job[m].chat, to)
    BY <1>1, <2>3, <2>6 DEF Fitting, OwnWords
  <2>. HIDE DEF to
  <2>9. /\ call \in Call /\ call.pc = "found" /\ call.chat = job[m].chat /\ call.text = job[m].text
        /\ call.state = to /\ call.nodes = flows[f].nodes
    BY <1>1, <2>2, <2>3 DEF Call
  <2>10. to.flow = f /\ to.node = flows[f].start
    BY DEF to
  <2>. HIDE DEF call
  <2>11. FoundPlace(call)
    BY <2>1, <2>2, <2>7, <2>9, <2>10 DEF FoundPlace
  <2>. QED BY <1>1, <1>2, <1>3, <2>5, <2>8, <2>9, <2>11, CallMoves
<1>6. ASSUME state.flow # None,
             job' = [job EXCEPT ![m] = [@ EXCEPT !.pc = "found",
                        !.nodes = IF flows[state.flow] = None THEN None ELSE flows[state.flow].nodes]]
      PROVE  IInv'
  <2>1. state \in Conversation /\ state.flow \in FlowIds /\ flows[state.flow] # None
    BY <1>1, <1>6 DEF OwnWords, AtRest, Conversation
  <2>2. PICK nodes \in Nodes : nodes = flows[state.flow].nodes
    BY <1>1, <2>1 DEF TypeOK, FlowModel
  <2>. DEFINE call == [job[m] EXCEPT !.pc = "found", !.nodes = nodes]
  <2>3. job' = [job EXCEPT ![m] = call]
    BY <1>6, <2>1, <2>2
  <2>4. /\ call \in Call /\ call.pc = "found" /\ call.chat = job[m].chat /\ call.text = job[m].text
        /\ call.state = state /\ call.nodes = nodes
    BY <1>1 DEF Call
  <2>. HIDE DEF call
  <2>5. \A e \in Edits : edit[e].kind = "create" => state.flow # edit[e].flow
    BY <1>1 DEF IInv, Created
  <2>6. Fitting(job[m].chat, state)
    BY <1>1, <2>5 DEF Fitting, OwnWords
  <2>7. FoundPlace(call)
    BY <1>1, <1>6, <2>1, <2>2, <2>4 DEF FoundPlace, AtRest
  <2>. QED BY <1>1, <1>2, <1>3, <2>3, <2>4, <2>6, <2>7, CallMoves
<1>7. CASE state.flow = None
  BY <1>4, <1>5, <1>7 DEF Find
<1>8. CASE state.flow # None
  BY <1>6, <1>8 DEF Find
<1>. QED BY <1>7, <1>8

\* What execute() is given by a call that found its flow.
LEMMA CallGives ==
    ASSUME IInv, NEW m \in Messages, job[m].pc = "found"
    PROVE  /\ Given(job[m].nodes, job[m].state, IF job[m].new THEN None ELSE job[m].text)
           /\ Walk(m) = Execute(job[m].nodes, job[m].state, IF job[m].new THEN None ELSE job[m].text)
<1>1. OwnWords(m) /\ Places(m)
  BY DEF IInv, Underway
<1>2. IsGraph(job[m].nodes) /\ job[m].nodes # None
  BY <1>1, ConversationsAssumption DEF Places
<1>. QED BY <1>1, <1>2 DEF Given, Walk, OwnWords

\* What is written back was said in this chat, and rests.
LEMMA AfterFits ==
    ASSUME IInv, NEW m \in Messages, job[m].pc = "found",
           Walk(m).end \in {"done", "waits", "missing"}
    PROVE  Fitting(job[m].chat, After(m, Walk(m))) /\ AtRest(After(m, Walk(m)))
<1>. DEFINE chat == job[m].chat
            state == job[m].state
            nodes == job[m].nodes
            input == IF job[m].new THEN None ELSE job[m].text
<1>1. OwnWords(m) /\ Places(m) /\ Given(nodes, state, input)
  BY CallGives DEF IInv, Underway
<1>2. PICK walk : walk = Walk(m)
  OBVIOUS
<1>3. /\ walk \in Position
      /\ \A v \in Variables : walk.vars[v] \in Written(state, input, v)
      /\ walk.end = "done" => walk.node = None
      /\ walk.end = "waits" => walk.node \in DOMAIN nodes /\ nodes[walk.node].type = "input"
      /\ walk.end = "missing" => walk.node # None
      /\ Closed(nodes) /\ state.node \in DOMAIN nodes \cup {None} => walk.end # "missing"
  BY <1>1, <1>2, CallGives, WalkEnds
<1>4. PICK after : after = [flow |-> IF walk.node = None THEN None ELSE state.flow, node |-> walk.node, vars |-> walk.vars]
  OBVIOUS
<1>5. after = After(m, Walk(m))
  BY <1>2, <1>4 DEF After
<1>6. after \in Conversation
  BY <1>1, <1>3, <1>4 DEF Position, Conversation, OwnWords
<1>7. \A v \in Variables : after.vars[v] \in said[chat] \cup {None}
  BY <1>1, <1>3, <1>4 DEF OwnWords, Written
<1>8. \A e \in Edits : edit[e].kind = "create" => after.flow # edit[e].flow
  BY <1>4, NoNone DEF IInv, Created, Underway
<1>9. AtRest(after)
  <2>1. state.flow \in FlowIds /\ flows[state.flow] # None /\ state.flow # None
    BY <1>1, NoNone DEF Places
  <2>2. CASE walk.node = None
    BY <1>4, <2>2 DEF AtRest
  <2>3. CASE walk.node # None /\ Rewritten(state.flow)
    BY <1>4, <2>1, <2>3 DEF AtRest
  <2>4. CASE walk.node # None /\ ~Rewritten(state.flow)
    <3>1. nodes = flows[state.flow].nodes /\ state.node \in DOMAIN nodes /\ Closed(nodes)
      BY <1>1, <2>1, <2>4 DEF Places, IInv, Untouched, WellFormed
    <3>2. walk.end = "waits"
      BY <1>2, <1>3, <2>4, <3>1
    <3>. QED BY <1>3, <1>4, <2>1, <2>4, <3>1, <3>2 DEF AtRest
  <2>. QED BY <2>2, <2>3, <2>4
<1>. QED BY <1>5, <1>6, <1>7, <1>8, <1>9 DEF Fitting

LEMMA HandleKeeps ==
    ASSUME IInv, NEW m \in Messages, Handle(m)
    PROVE  IInv'
<1>. DEFINE chat == job[m].chat
<1>1. TypeOK /\ OwnWords(m) /\ job[m].pc = "found"
  BY DEF Handle, IInv, Sound, Underway
<1>2. PICK after : after = After(m, Walk(m))
  OBVIOUS
<1>3. Fitting(chat, after) /\ AtRest(after)
  BY <1>1, <1>2, AfterFits DEF Handle
<1>4. store' = [store EXCEPT ![chat] = after]
  BY <1>2 DEF Handle, StoreKey
<1>5. PICK call \in {Over, [Over EXCEPT !.pc = "sending"]} : job' = [job EXCEPT ![m] = call]
  BY DEF Handle
<1>6. store' \in [Chats -> Conversation \cup {None}]
  BY <1>1, <1>3, <1>4 DEF TypeOK, Fitting
<1>7. \A c \in Chats : store'[c] # None => store'[c] = store[c] \/ (Fitting(c, store'[c]) /\ AtRest(store'[c]))
  BY <1>1, <1>3, <1>4 DEF TypeOK
<1>8. call \in Call /\ call.pc \in {"sending", "done"}
  BY <1>5, OverTyped
<1>9. UNCHANGED <<flows, edit, process, said>>
  BY DEF Handle
<1>. QED BY <1>5, <1>6, <1>7, <1>8, <1>9, CallMoves

LEMMA SentKeeps ==
    ASSUME IInv, NEW m \in Messages, Sent(m)
    PROVE  IInv'
<1>1. store' = store /\ store' \in [Chats -> Conversation \cup {None}] /\ UNCHANGED <<flows, edit, process, said>>
  BY DEF Sent, IInv, Sound, TypeOK
<1>2. job' = [job EXCEPT ![m] = Over]
  BY DEF Sent
<1>. QED BY <1>1, <1>2, OverTyped, CallMoves

\* A process that hangs, or an entry that expires, leaves the rest alone.
LEMMA StoreShrinks ==
    ASSUME IInv, UNCHANGED <<flows, job, edit, said>>, process' \in {"runs", "hung"},
           store' \in [Chats -> Conversation \cup {None}], \A c \in Chats : store'[c] \in {store[c], None}
    PROVE  IInv'
<1>1. TypeOK'
  BY DEF IInv, Sound, TypeOK
<1>2. Untouched' /\ (\A e \in Edits : Change(e)') /\ \A s \in Conversation : AtRest(s) => AtRest(s)'
  BY FlowsAlone
<1>3. Sound' /\ NoCrossTalk'
  BY <1>1, <1>2 DEF IInv, Sound, TypeOK, NoCrossTalk
<1>4. \A m \in Messages : Underway(m)' => OwnWords(m)' /\ Places(m)'
  <2>1. SUFFICES ASSUME NEW m \in Messages, Underway(m)
                 PROVE  OwnWords(m)' /\ Places(m)'
    BY DEF Underway
  <2>2. OwnWords(m) /\ Places(m)
    BY <2>1 DEF IInv
  <2>3. OwnWords(m)'
    BY <2>2 DEF OwnWords
  <2>4. Places(m)'
    BY <1>2, <2>2 DEF Places, OwnWords, Rewritten
  <2>. QED BY <2>3, <2>4
<1>5. \A e \in Edits : Created(e)'
  BY DEF IInv, Created, Underway
<1>. QED BY <1>2, <1>3, <1>4, <1>5 DEF IInv

LEMMA HangKeeps ==
    ASSUME IInv, NEW m \in Messages, Hang(m)
    PROVE  IInv'
<1>1. store \in [Chats -> Conversation \cup {None}]
  BY DEF IInv, Sound, TypeOK
<1>. QED BY <1>1, StoreShrinks DEF Hang

LEMMA ExpireKeeps ==
    ASSUME IInv, NEW c \in Chats, Expire(c)
    PROVE  IInv'
<1>1. store' \in [Chats -> Conversation \cup {None}] /\ \A d \in Chats : store'[d] \in {store[d], None}
  BY DEF IInv, Sound, TypeOK, Expire
<1>2. process' \in {"runs", "hung"}
  BY DEF IInv, Sound, TypeOK, Expire
<1>. QED BY <1>1, <1>2, StoreShrinks DEF Expire

-----------------------------------------------------------------------------
\* The requests about flows, and the end of the process.

LEMMA AnsweredTyped ==
    ASSUME TypeOK, NEW e \in Edits
    PROVE  Answered(e) \in Edit /\ Answered(e).pc = "done" /\ Answered(e).kind = edit[e].kind /\ Answered(e).flow = edit[e].flow
<1>1. edit[e] \in Edit
  BY DEF TypeOK
<1>2. edit[e].kind \in Kind \cup {None} /\ edit[e].flow \in FlowIds \cup {None}
  BY <1>1 DEF Edit
<1>. QED BY <1>2 DEF Answered, Idle, Edit

LEMMA DieKeeps ==
    ASSUME IInv, NEW m \in Messages, Die(m)
    PROVE  IInv'
<1>1. TypeOK
  BY DEF IInv, Sound
<1>2. \A e \in Edits : edit'[e] \in {Answered(e), edit[e]} /\ edit'[e].pc # "read"
  <2>1. edit' = [e \in Edits |-> IF edit[e].pc = "read" THEN Answered(e) ELSE edit[e]]
    BY DEF Die
  <2>. QED BY <1>1, <2>1, AnsweredTyped
<1>3. \A e \in Edits : /\ edit'[e] \in Edit /\ edit'[e].kind = edit[e].kind /\ edit'[e].flow = edit[e].flow
                       /\ edit'[e].pc = "idle" => edit'[e] = edit[e]
  BY <1>1, <1>2, AnsweredTyped DEF TypeOK
<1>4. \A n \in Messages : job'[n] \in Call /\ ~Underway(n)'
  <2>1. job' = [n \in Messages |-> IF Pending(n) THEN Over ELSE job[n]]
    BY DEF Die
  <2>. QED BY <1>1, <2>1, OverTyped DEF TypeOK, Underway, Pending
<1>5. \A c \in Chats : store'[c] = None
  BY DEF Die
<1>6. TypeOK'
  <2>1. edit' \in [Edits -> Edit]
    BY <1>3 DEF Die
  <2>2. job' \in [Messages -> Call]
    BY <1>4 DEF Die
  <2>. QED BY <1>1, <2>1, <2>2 DEF TypeOK, Die
<1>7. flows' = flows /\ \A f \in FlowIds : Rewritten(f)' <=> Rewritten(f)
  BY <1>3 DEF Die, Rewritten
<1>8. Untouched'
  BY <1>7 DEF IInv, Untouched
<1>9. \A e \in Edits : Change(e)'
  BY <1>2, <1>3 DEF IInv, Change
<1>10. \A e \in Edits : Created(e)'
  BY <1>2, <1>3, <1>4, <1>5, <1>7 DEF IInv, Created
<1>. QED BY <1>4, <1>5, <1>6, <1>8, <1>9, <1>10 DEF IInv, Sound, NoCrossTalk

\* A request reads a document that is there and changes what it is about.
LEMMA ReadKeeps ==
    ASSUME IInv, NEW e \in Edits, NEW kind \in {"nodes", "reset", "update", "erase"}, NEW f \in FlowIds,
           NEW doc \in FlowModel, Read(e, kind, f, doc), doc.active => flows[f].active,
           \A field \in DOMAIN flows[f] : doc[field] # flows[f][field] => field \in FieldsOf(kind),
           kind \in {"update", "erase"} => doc.nodes = flows[f].nodes /\ doc.start = flows[f].start
    PROVE  IInv'
<1>. DEFINE x == [pc |-> "read", kind |-> kind, flow |-> f, was |-> flows[f], doc |-> doc]
<1>1. TypeOK /\ flows[f] \in FlowModel /\ edit[e] = Idle /\ edit[e].kind = None
  BY DEF IInv, Sound, TypeOK, Read, Change, Idle
<1>2. x \in Edit /\ edit' = [edit EXCEPT ![e] = x] /\ UNCHANGED <<flows, store, job, process, said>>
  BY <1>1 DEF Read, Edit, Kind
<1>3. x.pc = "read" /\ x.kind = kind /\ x.flow = f /\ x.was = flows[f] /\ x.doc = doc
  OBVIOUS
<1>. HIDE DEF x
<1>4. edit' \in [Edits -> Edit] /\ edit'[e] = x /\ \A d \in Edits \ {e} : edit'[d] = edit[d]
  BY <1>1, <1>2 DEF TypeOK
<1>5. TypeOK'
  BY <1>1, <1>2, <1>4 DEF TypeOK
<1>6. \A g \in FlowIds : Rewritten(g) => Rewritten(g)'
  <2>1. None \notin {"nodes", "reset"}
    BY ConversationsAssumption DEF Kind
  <2>. QED BY <1>1, <1>4, <2>1 DEF Rewritten
<1>7. Untouched'
  BY <1>2, <1>6 DEF IInv, Untouched
<1>8. \A s \in Conversation : AtRest(s) => AtRest(s)'
  BY <1>2, <1>6 DEF AtRest, Conversation
<1>9. Sound' /\ NoCrossTalk'
  BY <1>1, <1>2, <1>5, <1>8 DEF IInv, Sound, TypeOK, NoCrossTalk
<1>10. ASSUME NEW m \in Messages, Underway(m)'
       PROVE  OwnWords(m)' /\ Places(m)'
  <2>1. OwnWords(m) /\ Places(m)
    BY <1>2, <1>10 DEF IInv, Underway
  <2>2. OwnWords(m)'
    BY <1>2, <2>1 DEF OwnWords
  <2>3. Places(m)'
    BY <1>2, <1>6, <1>8, <2>1 DEF Places, OwnWords
  <2>. QED BY <2>2, <2>3
<1>11. ASSUME NEW d \in Edits
       PROVE  Change(d)'
  <2>1. CASE d = e
    <3>1. ASSUME ~Rewritten(f)'
          PROVE  WellFormed(doc) /\ doc.nodes = flows[f].nodes
      <4>1. kind \in {"update", "erase"} /\ ~Rewritten(f)
        BY <1>3, <1>4, <1>6, <3>1 DEF Rewritten
      <4>2. WellFormed(flows[f])
        BY <4>1 DEF IInv, Untouched, Read
      <4>. QED BY <4>1, <4>2 DEF WellFormed
    <3>2. flows[f] # None /\ flows'[f] = flows[f]
      BY <1>2 DEF Read
    <3>. QED BY <1>1, <1>3, <1>4, <2>1, <3>1, <3>2 DEF Change
  <2>2. CASE d # e
    <3>1. Change(d) /\ edit'[d] = edit[d] /\ flows' = flows
      BY <1>2, <1>4, <2>2 DEF IInv
    <3>2. edit[d].pc = "read" => edit[d].flow \in FlowIds
      BY <3>1 DEF Change
    <3>. QED BY <1>6, <3>1, <3>2 DEF Change
  <2>. QED BY <2>1, <2>2
<1>12. ASSUME NEW d \in Edits
       PROVE  Created(d)'
  <2>1. CASE d = e
    BY <1>3, <1>4, <2>1 DEF Created
  <2>2. CASE d # e
    <3>1. Created(d) /\ edit'[d] = edit[d] /\ flows' = flows /\ store' = store /\ job' = job
      BY <1>2, <1>4, <2>2 DEF IInv
    <3>2. SUFFICES ASSUME edit[d].kind = "create"
                   PROVE  Created(d)'
      BY <3>1 DEF Created
    <3>3. flows[f] # None
      BY DEF Read
    <3>4. flows[edit[d].flow] = None => \A y \in Edits : edit'[y].flow = edit[d].flow => y = d
      BY <1>3, <1>4, <3>1, <3>2, <3>3 DEF Created
    <3>5. \A y \in Edits : edit'[y].pc = "read" /\ edit'[y].flow = edit[d].flow => ~edit'[y].doc.active
      BY <1>3, <1>4, <3>1, <3>2, <3>3 DEF Created
    <3>. QED BY <3>1, <3>2, <3>4, <3>5 DEF Created, Underway
  <2>. QED BY <2>1, <2>2
<1>. QED BY <1>7, <1>9, <1>10, <1>11, <1>12 DEF IInv

LEMMA GraphTyped ==
    /\ \A g \in Graphs : g.start \in NodeIds /\ g.nodes \in Nodes /\ g.triggers \in SUBSET Trigger
    /\ <<>> \in Nodes
<1>1. \A g \in Graphs : g.nodes \in Nodes
  BY DEF Nodes
<1>2. <<>> \in Nodes
  BY DEF Nodes
<1>. QED BY <1>1, <1>2, ConversationsAssumption

LEMMA DocumentFields ==
    ASSUME NEW doc \in FlowModel
    PROVE  /\ doc.instance \in Instances /\ doc.start \in NodeIds /\ doc.nodes \in Nodes
           /\ doc.triggers \in SUBSET Trigger /\ doc.active \in BOOLEAN
           /\ doc = [instance |-> doc.instance, start |-> doc.start, nodes |-> doc.nodes,
                     triggers |-> doc.triggers, active |-> doc.active]
           /\ DOMAIN doc = {"instance", "start", "nodes", "triggers", "active"}
BY DEF FlowModel

LEMMA NodesReplaced ==
    ASSUME NEW doc \in FlowModel, NEW n \in Nodes
    PROVE  LET to == [doc EXCEPT !.nodes = n]
           IN  /\ to \in FlowModel /\ to.nodes = n /\ to.start = doc.start /\ to.triggers = doc.triggers
               /\ to.active = doc.active /\ to.instance = doc.instance
BY DEF FlowModel

LEMMA StartReplaced ==
    ASSUME NEW doc \in FlowModel, NEW n \in NodeIds
    PROVE  LET to == [doc EXCEPT !.start = n]
           IN  /\ to \in FlowModel /\ to.nodes = doc.nodes /\ to.start = n /\ to.triggers = doc.triggers
               /\ to.active = doc.active /\ to.instance = doc.instance
BY DEF FlowModel

LEMMA TriggersReplaced ==
    ASSUME NEW doc \in FlowModel, NEW t \in SUBSET Trigger
    PROVE  LET to == [doc EXCEPT !.triggers = t]
           IN  /\ to \in FlowModel /\ to.nodes = doc.nodes /\ to.start = doc.start /\ to.triggers = t
               /\ to.active = doc.active /\ to.instance = doc.instance
BY DEF FlowModel

\* What the operations of FlowAggregate make of a document.
LEMMA Changed ==
    ASSUME NEW doc \in FlowModel
    PROVE  /\ \A g \in Graphs :
                 /\ UpdateNodes(doc, g) \in FlowModel /\ UpdateNodes(doc, g).active = doc.active
                 /\ UpdateNodes(doc, g).instance = doc.instance
           /\ /\ ResetNodes(doc) \in FlowModel /\ ResetNodes(doc).active = doc.active
              /\ ResetNodes(doc).instance = doc.instance /\ ResetNodes(doc).start = doc.start
           /\ \A i \in Instances :
                 /\ ChangeInstance(doc, i) \in FlowModel /\ ChangeInstance(doc, i).active = doc.active
                 /\ ChangeInstance(doc, i).start = doc.start /\ ChangeInstance(doc, i).nodes = doc.nodes
                 /\ ChangeInstance(doc, i).triggers = doc.triggers
           /\ /\ Deactivate(doc) \in FlowModel /\ Deactivate(doc).active = FALSE
              /\ Deactivate(doc).start = doc.start /\ Deactivate(doc).nodes = doc.nodes
              /\ Deactivate(doc).triggers = doc.triggers /\ Deactivate(doc).instance = doc.instance
<1>1. ASSUME NEW g \in Graphs
      PROVE  /\ UpdateNodes(doc, g) \in FlowModel /\ UpdateNodes(doc, g).active = doc.active
             /\ UpdateNodes(doc, g).instance = doc.instance
  <2>1. PICK t \in SUBSET Trigger : t = IF g.triggers = {} THEN doc.triggers ELSE g.triggers
    BY GraphTyped, DocumentFields
  <2>2. PICK d : d = [doc EXCEPT !.nodes = g.nodes]
    OBVIOUS
  <2>3. d \in FlowModel /\ d.active = doc.active /\ d.instance = doc.instance
    BY <2>2, NodesReplaced, GraphTyped
  <2>4. PICK x : x = [d EXCEPT !.start = g.start]
    OBVIOUS
  <2>5. x \in FlowModel /\ x.active = doc.active /\ x.instance = doc.instance
    BY <2>3, <2>4, StartReplaced, GraphTyped
  <2>6. UpdateNodes(doc, g) = [x EXCEPT !.triggers = t]
    BY <2>1, <2>2, <2>4 DEF UpdateNodes
  <2>. QED BY <2>1, <2>5, <2>6, TriggersReplaced
<1>2. /\ ResetNodes(doc) \in FlowModel /\ ResetNodes(doc).active = doc.active
      /\ ResetNodes(doc).instance = doc.instance /\ ResetNodes(doc).start = doc.start
  <2>1. PICK n \in Nodes : n = <<>>
    BY GraphTyped
  <2>2. PICK t \in SUBSET Trigger : t = {}
    OBVIOUS
  <2>3. PICK d : d = [doc EXCEPT !.nodes = n]
    OBVIOUS
  <2>4. d \in FlowModel /\ d.active = doc.active /\ d.instance = doc.instance /\ d.start = doc.start
    BY <2>1, <2>3, NodesReplaced
  <2>5. ResetNodes(doc) = [d EXCEPT !.triggers = t]
    BY <2>1, <2>2, <2>3 DEF ResetNodes
  <2>. QED BY <2>2, <2>4, <2>5, TriggersReplaced
<1>3. ASSUME NEW i \in Instances
      PROVE  /\ ChangeInstance(doc, i) \in FlowModel /\ ChangeInstance(doc, i).active = doc.active
             /\ ChangeInstance(doc, i).start = doc.start /\ ChangeInstance(doc, i).nodes = doc.nodes
             /\ ChangeInstance(doc, i).triggers = doc.triggers
  BY DEF ChangeInstance, FlowModel
<1>4. /\ Deactivate(doc) \in FlowModel /\ Deactivate(doc).active = FALSE
      /\ Deactivate(doc).start = doc.start /\ Deactivate(doc).nodes = doc.nodes
      /\ Deactivate(doc).triggers = doc.triggers /\ Deactivate(doc).instance = doc.instance
  BY DEF Deactivate, FlowModel
<1>. QED BY <1>1, <1>2, <1>3, <1>4

\* Each of the four requests that read a document is such a reading.
LEMMA ReadersKeep ==
    ASSUME IInv, NEW e \in Edits, NEW f \in FlowIds,
           NodesCreator(e, f) \/ NodesEraser(e, f) \/ FlowUpdater(e, f) \/ FlowEraser(e, f)
    PROVE  IInv'
<1>1. flows[f] \in FlowModel
  BY DEF IInv, Sound, TypeOK, NodesCreator, NodesEraser, FlowUpdater, FlowEraser, Read
<1>. DEFINE was == flows[f]
<1>2. DOMAIN was = {"instance", "start", "nodes", "triggers", "active"}
  BY <1>1, DocumentFields
<1>3. ASSUME NEW g \in Graphs, Read(e, "nodes", f, UpdateNodes(flows[f], g))
      PROVE  IInv'
  <2>1. PICK doc \in FlowModel : doc = UpdateNodes(was, g) /\ doc.active = was.active /\ doc.instance = was.instance
    BY <1>1, Changed
  <2>2. \A field \in DOMAIN was : doc[field] # was[field] => field \in FieldsOf("nodes")
    BY <1>2, <2>1 DEF FieldsOf
  <2>3. Read(e, "nodes", f, doc)
    BY <1>3, <2>1
  <2>. QED BY <2>1, <2>2, <2>3, ReadKeeps
<1>4. CASE NodesEraser(e, f)
  <2>1. PICK doc \in FlowModel : /\ doc = ResetNodes(was) /\ doc.active = was.active
                                 /\ doc.instance = was.instance /\ doc.start = was.start
    BY <1>1, Changed
  <2>2. \A field \in DOMAIN was : doc[field] # was[field] => field \in FieldsOf("reset")
    BY <1>2, <2>1 DEF FieldsOf
  <2>3. Read(e, "reset", f, doc)
    BY <1>4, <2>1 DEF NodesEraser
  <2>. QED BY <2>1, <2>2, <2>3, ReadKeeps
<1>5. ASSUME NEW i \in Instances, Read(e, "update", f, ChangeInstance(flows[f], i))
      PROVE  IInv'
  <2>1. PICK doc \in FlowModel : /\ doc = ChangeInstance(was, i) /\ doc.active = was.active /\ doc.start = was.start
                                 /\ doc.nodes = was.nodes /\ doc.triggers = was.triggers
    BY <1>1, Changed
  <2>2. \A field \in DOMAIN was : doc[field] # was[field] => field \in FieldsOf("update")
    BY <1>2, <2>1 DEF FieldsOf
  <2>3. Read(e, "update", f, doc)
    BY <1>5, <2>1
  <2>. QED BY <2>1, <2>2, <2>3, ReadKeeps
<1>6. CASE FlowEraser(e, f)
  <2>1. PICK doc \in FlowModel : /\ doc = Deactivate(was) /\ doc.active = FALSE /\ doc.start = was.start
                                 /\ doc.nodes = was.nodes /\ doc.triggers = was.triggers /\ doc.instance = was.instance
    BY <1>1, Changed
  <2>2. \A field \in DOMAIN was : doc[field] # was[field] => field \in FieldsOf("erase")
    BY <1>2, <2>1 DEF FieldsOf
  <2>3. Read(e, "erase", f, doc)
    BY <1>6, <2>1 DEF FlowEraser
  <2>. QED BY <2>1, <2>2, <2>3, ReadKeeps
<1>. QED BY <1>3, <1>4, <1>5, <1>6 DEF NodesCreator, FlowUpdater

LEMMA NewFlowFits ==
    ASSUME NEW i \in Instances
    PROVE  NewFlow(i) \in FlowModel /\ NewFlow(i).active = FALSE /\ WellFormed(NewFlow(i))
<1>1. PICK n \in Nodes : n = <<>>
  BY GraphTyped
<1>2. DOMAIN n = {}
  BY <1>1
<1>3. NewFlow(i) = [instance |-> i, start |-> StartName, nodes |-> n, triggers |-> {}, active |-> FALSE]
  BY <1>1 DEF NewFlow
<1>4. NewFlow(i) \in FlowModel /\ NewFlow(i).active = FALSE /\ NewFlow(i).nodes = n
  BY <1>3, ConversationsAssumption DEF FlowModel
<1>. QED BY <1>2, <1>4 DEF WellFormed, Closed

\* No conversation is in a flow that is not there.
LEMMA NotInNewFlow ==
    ASSUME IInv, NEW f \in FlowIds, flows[f] = None
    PROVE  /\ \A m \in Messages : Underway(m) => job[m].state.flow # f
           /\ \A c \in Chats : store[c] # None => store[c].flow # f
BY NoNone DEF IInv, Sound, AtRest, Places, Underway

LEMMA FlowCreatorKeeps ==
    ASSUME IInv, NEW e \in Edits, NEW f \in FlowIds, FlowCreator(e, f)
    PROVE  IInv'
<1>1. TypeOK /\ flows[f] = None /\ edit[e] = Idle /\ edit[e].kind = None /\ \A d \in Edits : edit[d].flow # f
  BY DEF IInv, Sound, FlowCreator, Change, Idle
<1>2. PICK i \in Instances :
         edit' = [edit EXCEPT ![e] = [pc |-> "read", kind |-> "create", flow |-> f, was |-> None, doc |-> NewFlow(i)]]
  BY DEF FlowCreator
<1>3. PICK doc \in FlowModel : doc = NewFlow(i) /\ ~doc.active /\ WellFormed(doc)
  BY NewFlowFits
<1>. DEFINE x == [pc |-> "read", kind |-> "create", flow |-> f, was |-> None, doc |-> doc]
<1>4. x \in Edit /\ x.pc = "read" /\ x.kind = "create" /\ x.flow = f /\ x.doc = doc /\ edit' = [edit EXCEPT ![e] = x]
  BY <1>2, <1>3 DEF Edit, Kind
<1>5. UNCHANGED <<flows, store, job, process, said>>
  BY DEF FlowCreator
<1>. HIDE DEF x
<1>6. edit' \in [Edits -> Edit] /\ edit'[e] = x /\ \A d \in Edits \ {e} : edit'[d] = edit[d]
  BY <1>1, <1>4 DEF TypeOK
<1>7. TypeOK'
  BY <1>1, <1>5, <1>6 DEF TypeOK
<1>8. \A g \in FlowIds : Rewritten(g) <=> Rewritten(g)'
  <2>1. None \notin {"nodes", "reset"}
    BY ConversationsAssumption DEF Kind
  <2>. QED BY <1>1, <1>4, <1>6, <2>1 DEF Rewritten
<1>9. Untouched'
  BY <1>5, <1>8 DEF IInv, Untouched
<1>10. \A s \in Conversation : AtRest(s) => AtRest(s)'
  BY <1>5, <1>8 DEF AtRest, Conversation
<1>11. Sound' /\ NoCrossTalk'
  BY <1>1, <1>5, <1>7, <1>10 DEF IInv, Sound, TypeOK, NoCrossTalk
<1>12. ASSUME NEW m \in Messages, Underway(m)'
       PROVE  OwnWords(m)' /\ Places(m)'
  <2>1. OwnWords(m) /\ Places(m)
    BY <1>5, <1>12 DEF IInv, Underway
  <2>2. OwnWords(m)'
    BY <1>5, <2>1 DEF OwnWords
  <2>3. Places(m)'
    BY <1>5, <1>8, <1>10, <2>1 DEF Places, OwnWords
  <2>. QED BY <2>2, <2>3
<1>13. ASSUME NEW d \in Edits
       PROVE  Change(d)'
  <2>1. CASE d = e
    BY <1>1, <1>3, <1>4, <1>5, <1>6, <2>1 DEF Change
  <2>2. CASE d # e
    <3>1. Change(d) /\ edit'[d] = edit[d] /\ flows' = flows
      BY <1>5, <1>6, <2>2 DEF IInv
    <3>2. edit[d].pc = "read" => edit[d].flow \in FlowIds
      BY <3>1 DEF Change
    <3>. QED BY <1>8, <3>1, <3>2 DEF Change
  <2>. QED BY <2>1, <2>2
<1>14. ASSUME NEW d \in Edits
       PROVE  Created(d)'
  <2>1. CASE d = e
    <3>1. \A y \in Edits : edit'[y].flow = f => y = e
      BY <1>1, <1>6
    <3>2. \A y \in Edits : edit'[y].flow = f => ~edit'[y].doc.active
      BY <1>3, <1>4, <1>6, <3>1
    <3>. QED BY <1>1, <1>4, <1>5, <1>6, <2>1, <3>1, <3>2, NotInNewFlow DEF Created, Underway
  <2>2. CASE d # e
    <3>1. Created(d) /\ edit'[d] = edit[d] /\ flows' = flows /\ store' = store /\ job' = job
      BY <1>5, <1>6, <2>2 DEF IInv
    <3>2. edit[d].flow # f /\ edit'[e].flow = f
      BY <1>1, <1>4, <1>6
    <3>3. \A y \in Edits : edit'[y].flow = edit[d].flow => edit'[y] = edit[y]
      BY <1>6, <3>2
    <3>. QED BY <3>1, <3>3 DEF Created, Underway
  <2>. QED BY <2>1, <2>2
<1>. QED BY <1>9, <1>11, <1>12, <1>13, <1>14 DEF IInv

\* A save writes the nodes that are there, unless it was a request about
\* nodes, or the flow is new.
LEMMA SaveKeeps ==
    ASSUME IInv, NEW e \in Edits, Save(e)
    PROVE  IInv'
<1>1. TypeOK /\ Change(e) /\ Created(e) /\ edit[e].pc = "read"
  BY DEF IInv, Sound, Save
<1>. PICK f, doc : f = edit[e].flow /\ doc = edit[e].doc
  OBVIOUS
<1>2. f \in FlowIds /\ doc \in FlowModel /\ doc # None
  BY <1>1, NoNone DEF Change
<1>3. /\ flows' = [flows EXCEPT ![f] = doc] /\ edit' = [edit EXCEPT ![e] = Answered(e)]
      /\ UNCHANGED <<store, job, process, said>>
  BY DEF Save
<1>4. /\ edit' \in [Edits -> Edit] /\ edit'[e].pc = "done" /\ \A d \in Edits \ {e} : edit'[d] = edit[d]
      /\ \A d \in Edits : edit'[d].kind = edit[d].kind /\ edit'[d].flow = edit[d].flow
  BY <1>1, <1>3, AnsweredTyped DEF TypeOK
<1>5. /\ flows' \in [FlowIds -> FlowModel \cup {None}] /\ flows'[f] = doc
      /\ \A g \in FlowIds \ {f} : flows'[g] = flows[g]
  BY <1>1, <1>2, <1>3 DEF TypeOK
<1>6. TypeOK'
  BY <1>1, <1>3, <1>4, <1>5 DEF TypeOK
<1>7. \A g \in FlowIds : Rewritten(g) <=> Rewritten(g)'
  BY <1>4 DEF Rewritten
<1>8. ~Rewritten(f) => WellFormed(doc) /\ (flows[f] # None => doc.nodes = flows[f].nodes)
  BY <1>1 DEF Change
<1>9. flows[f] = None => edit[e].kind = "create" /\ \A d \in Edits : edit[d].flow = f => d = e
  BY <1>1 DEF Change, Created
<1>10. Untouched'
  BY <1>5, <1>7, <1>8 DEF IInv, Untouched
<1>11. \A g \in FlowIds : flows[g] # None =>
          flows'[g] # None /\ (~Rewritten(g)' => ~Rewritten(g) /\ flows'[g].nodes = flows[g].nodes)
  BY <1>2, <1>5, <1>7, <1>8
<1>12. \A s \in Conversation : AtRest(s) => AtRest(s)'
  BY <1>11 DEF AtRest, Conversation
<1>13. Sound' /\ NoCrossTalk'
  BY <1>1, <1>3, <1>6, <1>12 DEF IInv, Sound, TypeOK, NoCrossTalk
<1>14. ASSUME NEW m \in Messages, Underway(m)'
       PROVE  OwnWords(m)' /\ Places(m)'
  <2>1. OwnWords(m) /\ Places(m)
    BY <1>3, <1>14 DEF IInv, Underway
  <2>2. OwnWords(m)'
    BY <1>3, <2>1 DEF OwnWords
  <2>3. Places(m)'
    BY <1>3, <1>11, <1>12, <2>1 DEF Places, OwnWords
  <2>. QED BY <2>2, <2>3
<1>15. ASSUME NEW d \in Edits
       PROVE  Change(d)'
  <2>1. CASE d = e
    BY <1>4, <2>1 DEF Change
  <2>2. CASE d # e
    <3>1. Change(d) /\ edit'[d] = edit[d]
      BY <1>4, <2>2 DEF IInv
    <3>2. CASE edit[d].pc # "read"
      BY <3>1, <3>2 DEF Change
    <3>3. CASE edit[d].pc = "read" /\ edit[d].flow # f
      <4>1. edit[d].flow \in FlowIds /\ flows'[edit[d].flow] = flows[edit[d].flow]
        BY <1>5, <3>1, <3>3 DEF Change
      <4>. QED BY <1>7, <3>1, <4>1 DEF Change
    <3>4. CASE edit[d].pc = "read" /\ edit[d].flow = f
      <4>1. flows[f] # None /\ flows'[f] # None
        BY <1>2, <1>5, <1>9, <2>2, <3>4
      <4>2. ~Rewritten(f)' => WellFormed(edit[d].doc) /\ edit[d].doc.nodes = flows'[f].nodes
        BY <1>2, <1>5, <1>7, <1>8, <3>1, <3>4, <4>1 DEF Change
      <4>. QED BY <3>1, <3>4, <4>1, <4>2 DEF Change
    <3>. QED BY <3>2, <3>3, <3>4
  <2>. QED BY <2>1, <2>2
<1>16. ASSUME NEW d \in Edits
       PROVE  Created(d)'
  <2>1. SUFFICES ASSUME edit[d].kind = "create"
                 PROVE  Created(d)'
    BY <1>4 DEF Created
  <2>2. Created(d)
    BY DEF IInv
  <2>3. \A y \in Edits : edit'[y].pc = "read" => edit'[y] = edit[y]
    BY <1>4
  <2>4. CASE edit[d].flow = f
    <3>1. ~flows'[f].active
      BY <1>1, <1>5, <2>1, <2>2, <2>4 DEF Created
    <3>2. edit'[d].pc # "read"
      <4>1. CASE d = e
        BY <1>4, <4>1
      <4>2. CASE d # e
        <5>1. flows[f] # None
          BY <1>9, <2>4, <4>2
        <5>2. edit[d].pc # "read"
          BY <2>1, <2>2, <2>4, <5>1 DEF Created
        <5>. QED BY <1>4, <4>2, <5>2
      <4>. QED BY <4>1, <4>2
    <3>. QED BY <1>2, <1>3, <1>4, <1>5, <2>1, <2>2, <2>3, <2>4, <3>1, <3>2 DEF Created, Underway
  <2>5. CASE edit[d].flow # f
    <3>1. flows'[edit[d].flow] = flows[edit[d].flow]
      BY <1>5, <2>1, <2>2, <2>5 DEF Created
    <3>2. edit'[d].pc = "read" => edit[d].pc = "read"
      BY <2>3
    <3>. QED BY <1>3, <1>4, <2>1, <2>2, <2>3, <3>1, <3>2 DEF Created, Underway
  <2>. QED BY <2>4, <2>5
<1>. QED BY <1>10, <1>13, <1>14, <1>15, <1>16 DEF IInv

LEMMA Steps ==
    ASSUME IInv, [Next]_vars
    PROVE  IInv'
<1>1. CASE UNCHANGED vars
  <2>1. process' \in {"runs", "hung"} /\ store' \in [Chats -> Conversation \cup {None}]
    BY <1>1 DEF vars, IInv, Sound, TypeOK
  <2>. QED BY <1>1, <2>1, StoreShrinks DEF vars
<1>2. ASSUME NEW m \in Messages,
             \/ \E c \in Chats, t \in Texts : <<m, c, t>> \in Mail /\ Begin(m, c, t)
             \/ Find(m) \/ Handle(m) \/ Hang(m) \/ Sent(m) \/ Die(m)
      PROVE  IInv'
  BY <1>2, BeginKeeps, FindKeeps, HandleKeeps, HangKeeps, SentKeeps, DieKeeps
<1>3. ASSUME NEW e \in Edits,
             \/ \E f \in FlowIds :
                   \/ NodesCreator(e, f) \/ NodesEraser(e, f) \/ FlowUpdater(e, f)
                   \/ FlowEraser(e, f) \/ FlowCreator(e, f)
             \/ Save(e)
      PROVE  IInv'
  BY <1>3, ReadersKeep, FlowCreatorKeeps, SaveKeeps
<1>4. ASSUME NEW c \in Chats, Expire(c)
      PROVE  IInv'
  BY <1>4, ExpireKeeps
<1>. QED BY <1>1, <1>2, <1>3, <1>4 DEF Next

-----------------------------------------------------------------------------
\* The inductive invariant: what calls and requests hold while they await.
THEOREM ConversationsInvariant == Spec => []IInv
BY Initially, Steps, PTL DEF Spec

\* A conversation that is kept rests outside of every flow or at a question
\* of its flow, unless a request changed the nodes under it, whatever the
\* graphs are and however calls, requests and restarts interleave.
THEOREM ConversationsAreSound == Spec => []Sound
<1>1. IInv => Sound
  BY DEF IInv
<1>. QED BY <1>1, ConversationsInvariant, PTL

\* No variable of a conversation holds what was written in another chat.
THEOREM ChatsAreKeptApart == Spec => []NoCrossTalk
<1>1. IInv => NoCrossTalk
  BY DEF IInv
<1>. QED BY <1>1, ConversationsInvariant, PTL

\* A flow that was made through the API never gets hold of a conversation.
THEOREM ApiFlowsStaySilent == Spec => []ApiFlowsNeverAnswer
<1>1. IInv => ApiFlowsNeverAnswer
  BY DEF IInv, Created, ApiFlowsNeverAnswer
<1>. QED BY <1>1, ConversationsInvariant, PTL

\* A save changes a field that its operation is not about only when another
\* request saved the flow since it was read.
THEOREM EditsAreKept == Spec => EditsKept
<1>. DEFINE Kept == \A f \in FlowIds : flows[f] # None /\ flows'[f] # flows[f] =>
                       \E e \in Edits :
                          /\ edit[e].flow = f /\ edit[e].pc = "read"
                          /\ \A field \in DOMAIN flows[f] : flows'[f][field] # flows[f][field] =>
                                field \in FieldsOf(edit[e].kind) \/ flows[f] # edit[e].was
<1>1. ASSUME IInv, Next
      PROVE  Kept
  <2>1. SUFFICES ASSUME NEW f \in FlowIds, flows[f] # None, flows'[f] # flows[f]
                 PROVE  \E e \in Edits :
                          /\ edit[e].flow = f /\ edit[e].pc = "read"
                          /\ \A field \in DOMAIN flows[f] : flows'[f][field] # flows[f][field] =>
                                field \in FieldsOf(edit[e].kind) \/ flows[f] # edit[e].was
    OBVIOUS
  <2>2. PICK e \in Edits : Save(e)
    BY <1>1, <2>1 DEF Next, Begin, Find, Handle, Hang, Sent, Die, Expire, NodesCreator, NodesEraser, FlowUpdater,
                      FlowEraser, FlowCreator, Read
  <2>3. TypeOK /\ Change(e) /\ Created(e) /\ edit[e].pc = "read"
    BY <1>1, <2>2 DEF IInv, Sound, Save
  <2>4. edit[e].flow = f /\ flows'[f] = edit[e].doc
    BY <2>1, <2>2, <2>3 DEF Save, TypeOK
  <2>5. edit[e].kind # "create"
    BY <2>1, <2>3, <2>4 DEF Created
  <2>6. flows[f] = edit[e].was =>
           \A field \in DOMAIN flows[f] : flows'[f][field] # flows[f][field] => field \in FieldsOf(edit[e].kind)
    BY <2>3, <2>4, <2>5 DEF Change
  <2>. QED BY <2>3, <2>4, <2>6
<1>2. IInv /\ [Next]_vars => [Kept]_vars
  BY <1>1
<1>. QED BY <1>2, ConversationsInvariant, PTL DEF Spec, EditsKept

-----------------------------------------------------------------------------
\* A turn changes a variable only at a question for it, and there it ends
\* when there is no input.
LEMMA TurnAnswers ==
    ASSUME NEW nodes, IsGraph(nodes), NEW at \in Position, NEW input \in Texts \cup {None}, NEW v \in Variables,
           Turn(nodes, at, input).vars[v] # at.vars[v]
    PROVE  LET to == Turn(nodes, at, input)
           IN  /\ to.vars[v] = IF input = None THEN None ELSE Norm[input]
               /\ at.node \in DOMAIN nodes /\ nodes[at.node].type = "input" /\ nodes[at.node].variable = v
               /\ input = None => to.end = "waits" /\ to.node = at.node
<1>. DEFINE to == Turn(nodes, at, input)
            node == nodes[at.node]
<1>1. at.vars \in Vars
  BY DEF Position
<1>2. at.node \in DOMAIN nodes /\ node.type = "input"
  <2>1. CASE at.node \notin DOMAIN nodes
    <3>1. to = [at EXCEPT !.end = "missing", !.reply = None]
      BY <2>1 DEF Turn
    <3>. QED BY <3>1 DEF Position
  <2>2. CASE at.node \in DOMAIN nodes /\ node.type \in {"ai", "delay"}
    <3>1. to = [at EXCEPT !.end = "threw"]
      BY <2>2 DEF Turn
    <3>. QED BY <3>1 DEF Position
  <2>3. CASE at.node \in DOMAIN nodes /\ node.type \in {"message", "condition"}
    BY <2>3 DEF Turn, MessageNodeExecutor, ConditionNodeExecutor
  <2>4. at.node \in DOMAIN nodes => node.type \in NodeType
    BY DEF IsGraph, FlowNode
  <2>. QED BY <2>1, <2>2, <2>3, <2>4 DEF NodeType
<1>3. to = [node |-> IF input = None THEN at.node ELSE node.next, vars |-> InputNodeExecutor(node, at, input).vars,
            reply |-> at.reply,
            end |-> IF input = None THEN "waits" ELSE IF node.next = None THEN "done" ELSE "walks"]
  BY <1>2 DEF Turn, InputNodeExecutor
<1>4. to.vars = [at.vars EXCEPT ![node.variable] = IF input = None THEN None ELSE Norm[input]]
  BY <1>3 DEF InputNodeExecutor
<1>5. node.variable = v /\ to.vars[v] = IF input = None THEN None ELSE Norm[input]
  BY <1>1, <1>4 DEF Vars
<1>. QED BY <1>2, <1>3, <1>5

\* What a walk may have changed: with an input, to what the input says;
\* without one, only what it waits for.
AnswerTaken(nodes, input, at, v) ==
    IF input = None
    THEN /\ at.vars[v] = None /\ at.end = "waits"
         /\ at.node \in DOMAIN nodes /\ nodes[at.node].type = "input" /\ nodes[at.node].variable = v
    ELSE at.vars[v] = Norm[input]

LEMMA WalkChanges ==
    ASSUME NEW nodes, NEW state, NEW input, Given(nodes, state, input), NEW v \in Variables,
           Execute(nodes, state, input).vars[v] # state.vars[v]
    PROVE  AnswerTaken(nodes, input, Execute(nodes, state, input), v)
<1>. DEFINE I == {at \in Position : at.vars[v] # state.vars[v] => AnswerTaken(nodes, input, at, v)}
<1>1. IsGraph(nodes) /\ state \in Conversation /\ input \in Texts \cup {None}
  BY DEF Given
<1>2. Start(state) \in I
  BY <1>1, StartPosition DEF Start
<1>3. ASSUME NEW at \in I
      PROVE  Advance(nodes, at, input) \in I
  <2>1. CASE at.end # "walks"
    BY <2>1 DEF Advance
  <2>2. CASE at.end = "walks"
    <3>1. PICK to : to = Turn(nodes, at, input)
      OBVIOUS
    <3>2. to \in Position
      BY <1>1, <3>1, TurnCases
    <3>3. CASE to.vars[v] # at.vars[v]
      <4>1. /\ to.vars[v] = IF input = None THEN None ELSE Norm[input]
            /\ at.node \in DOMAIN nodes /\ nodes[at.node].type = "input" /\ nodes[at.node].variable = v
            /\ input = None => to.end = "waits" /\ to.node = at.node
        BY <1>1, <3>1, <3>3, TurnAnswers
      <4>. QED BY <2>2, <3>1, <3>2, <4>1 DEF Advance, AnswerTaken
    <3>4. CASE to.vars[v] = at.vars[v]
      <4>1. input = None => at.vars[v] = state.vars[v]
        BY <2>2 DEF AnswerTaken
      <4>. QED BY <2>2, <3>1, <3>2, <3>4, <4>1 DEF Advance, AnswerTaken
    <3>. QED BY <3>3, <3>4
  <2>. QED BY <2>1, <2>2
<1>4. Execute(nodes, state, input) \in I
  <2>1. I \in SUBSET Position
    OBVIOUS
  <2>. HIDE DEF I
  <2>. QED BY <1>2, <1>3, <2>1, WalkKeeps
<1>. QED BY <1>4

\* A conversation that nobody else wrote loses no answer: its message
\* changes what it answers or is asked, and leaves it in its flow or in
\* none, whatever the graphs are and however calls and requests interleave.
THEOREM AnswersAreKept == Spec => AnswersKept
<1>. DEFINE Gives(m, c) ==
                \/ Overtaken(m)
                \/ /\ store[c].flow # None => store'[c].flow \in {store[c].flow, None}
                   /\ \A v \in Variables : store'[c].vars[v] # store[c].vars[v] =>
                         IF job[m].new THEN store'[c].vars[v] = None /\ Asks(m, v)
                                       ELSE store'[c].vars[v] = Norm[job[m].text]
            Kept == \A c \in Chats : store[c] # None /\ store'[c] \notin {store[c], None} =>
                       \E m \in Messages : /\ job[m].chat = c /\ job[m].pc = "found" /\ job'[m].pc # "found"
                                           /\ Gives(m, c)
<1>1. ASSUME IInv, NEW m \in Messages, Handle(m), store[job[m].chat] # None
      PROVE  Gives(m, job[m].chat)
  <2>. DEFINE c == job[m].chat
              input == IF job[m].new THEN None ELSE job[m].text
              walk == Execute(job[m].nodes, job[m].state, input)
  <2>1. TypeOK /\ job[m].pc = "found" /\ c \in Chats /\ job[m].text \in Texts /\ job[m].text # None
    BY <1>1, NoNone DEF IInv, Sound, Underway, OwnWords, Handle
  <2>2. Given(job[m].nodes, job[m].state, input) /\ Walk(m) = walk
    BY <1>1, <2>1, CallGives
  <2>3. store'[c] = After(m, walk)
    BY <1>1, <2>1, <2>2 DEF Handle, StoreKey, TypeOK
  <2>. HIDE DEF walk
  <2>4. /\ store'[c].flow \in {job[m].state.flow, None} /\ store'[c].node = walk.node /\ store'[c].vars = walk.vars
    BY <2>3 DEF After
  <2>5. ASSUME ~Overtaken(m)
        PROVE  /\ store[c].vars = job[m].state.vars
               /\ store[c].flow # None => store[c].flow = job[m].state.flow
    BY <2>5 DEF Overtaken
  <2>6. ASSUME NEW v \in Variables, walk.vars[v] # job[m].state.vars[v]
        PROVE  IF job[m].new THEN walk.vars[v] = None /\ Asks(m, v) ELSE walk.vars[v] = Norm[job[m].text]
    <3>1. AnswerTaken(job[m].nodes, input, walk, v)
      BY <2>2, <2>6, WalkChanges DEF walk
    <3>. QED BY <2>1, <2>4, <3>1 DEF AnswerTaken, Asks
  <2>. QED BY <2>4, <2>5, <2>6
<1>2. ASSUME IInv, Next
      PROVE  Kept
  <2>1. SUFFICES ASSUME NEW c \in Chats, store[c] # None, store'[c] \notin {store[c], None}
                 PROVE  \E m \in Messages : /\ job[m].chat = c /\ job[m].pc = "found" /\ job'[m].pc # "found"
                                            /\ Gives(m, c)
    OBVIOUS
  <2>2. TypeOK
    BY <1>2 DEF IInv, Sound
  <2>3. PICK m \in Messages : Handle(m)
    <3>1. ASSUME NEW d \in Chats, Expire(d)
          PROVE  FALSE
      BY <2>1, <2>2, <3>1 DEF Expire, TypeOK
    <3>. QED BY <1>2, <2>1, <3>1 DEF Next, Begin, Find, Hang, Sent, Die, NodesCreator, NodesEraser, FlowUpdater,
                FlowEraser, FlowCreator, Read, Save
  <2>4. job[m].chat = c
    BY <2>1, <2>2, <2>3 DEF Handle, StoreKey, TypeOK
  <2>5. job[m].pc = "found" /\ job'[m].pc # "found"
    BY <2>2, <2>3 DEF Handle, TypeOK, Over, Waiting
  <2>6. Gives(m, c)
    <3>. HIDE DEF Gives
    <3>. QED BY <1>1, <1>2, <2>1, <2>3, <2>4
  <2>. HIDE DEF Gives
  <2>. QED BY <2>4, <2>5, <2>6
<1>3. IInv /\ [Next]_vars => [Kept]_vars
  BY <1>2
<1>. QED BY <1>3, ConversationsInvariant, PTL DEF Spec, AnswersKept

-----------------------------------------------------------------------------
\* What a walk that never ends goes through: between two visits to the same
\* node, nodes that lead from one to the next.
LEMMA EndlessWalk ==
    ASSUME NEW nodes, NEW state, NEW input, Given(nodes, state, input),
           Execute(nodes, state, input).end = "walks"
    PROVE  \E S \in SUBSET DOMAIN nodes :
              /\ S # {}
              /\ \A a \in S : input = None => nodes[a].type # "input"
              /\ \A a \in S : \E b \in S : b \in {nodes[a].next, nodes[a].orElse}
<1>1. PICK n \in Nat : n = Enough(nodes)
  BY TurnsFinite DEF Given
<1>2. PICK w : w = Walks(nodes, state, input)
  OBVIOUS
<1>3. IsWalk(w, n, nodes, state, input) /\ w[n].end = "walks"
  BY <1>1, <1>2, WalksIsWalk DEF Execute
\* It walked all the time.
<1>4. \A k \in 0 .. n : w[k].end = "walks"
  <2>. DEFINE T == {k \in Nat : k <= n => w[n - k].end = "walks"}
  <2>1. 0 \in T
    BY <1>3
  <2>2. \A k \in T : k + 1 \in T
    <3>1. SUFFICES ASSUME NEW k \in Nat, w[n - k].end = "walks", k + 1 <= n
                   PROVE  w[n - (k + 1)].end = "walks"
      OBVIOUS
    <3>2. PICK j \in 1 .. n : j = n - k /\ j - 1 = n - (k + 1)
      BY <3>1
    <3>3. w[j] = Advance(nodes, w[j - 1], input)
      BY <1>3 DEF IsWalk
    <3>. QED BY <3>1, <3>2, <3>3 DEF Advance
  <2>3. T = Nat
    <3>1. T \in SUBSET Nat
      OBVIOUS
    <3>. HIDE DEF T
    <3>. QED BY <2>1, <2>2, <3>1, NaturalInduction
  <2>4. ASSUME NEW k \in 0 .. n
        PROVE  w[k].end = "walks"
    <3>1. PICK j \in Nat : j = n - k /\ j <= n /\ n - j = k
      OBVIOUS
    <3>2. j \in T
      BY <2>3
    <3>. QED BY <3>1, <3>2
  <2>. QED BY <2>4
\* So every turn went from a node to one it leads to.
<1>5. ASSUME NEW k \in 0 .. (n - 1)
      PROVE  /\ w[k].node \in DOMAIN nodes
             /\ input = None => nodes[w[k].node].type # "input"
             /\ w[k + 1].node \in {nodes[w[k].node].next, nodes[w[k].node].orElse}
  <2>1. PICK j \in 1 .. n : j = k + 1 /\ j - 1 = k
    BY <1>1
  <2>2. w[j] = Advance(nodes, w[k], input) /\ w[k] \in Position
    BY <1>3, <2>1 DEF IsWalk
  <2>3. w[k].end = "walks" /\ w[j].end = "walks"
    BY <1>4, <2>1
  <2>4. w[j] = Turn(nodes, w[k], input)
    BY <2>2, <2>3 DEF Advance
  <2>. QED BY <2>1, <2>2, <2>3, <2>4, TurnCases DEF Given
\* There are more turns than nodes.
<1>6. PICK i \in 0 .. (n - 1), j \in 0 .. (n - 1) : i # j /\ w[i].node = w[j].node
  <2>. DEFINE visit == [k \in 0 .. (n - 1) |-> w[k].node]
  <2>1. visit \in [0 .. (n - 1) -> DOMAIN nodes]
    BY <1>5
  <2>2. PICK d \in Nat : d = Cardinality(DOMAIN nodes) /\ IsFiniteSet(DOMAIN nodes) /\ n > d + 1
    BY <1>1, TurnsFinite DEF Given
  <2>3. IsFiniteSet(0 .. (n - 1)) /\ Cardinality(0 .. (n - 1)) = n
    <3>1. PICK last \in Int : last = n - 1 /\ 0 <= last
      BY <2>2
    <3>2. IsFiniteSet(0 .. last) /\ Cardinality(0 .. last) = IF 0 > last THEN 0 ELSE last - 0 + 1
      BY FS_Interval
    <3>. QED BY <3>1, <3>2
  <2>4. Cardinality(DOMAIN nodes) < Cardinality(0 .. (n - 1))
    BY <1>1, <2>2, <2>3
  <2>5. \E i, j \in 0 .. (n - 1) : i # j /\ visit[i] = visit[j]
    <3>. HIDE DEF visit
    <3>. QED BY <2>1, <2>2, <2>3, <2>4, FS_PigeonHole
  <2>. QED BY <2>5
<1>7. PICK first \in 0 .. (n - 1), last \in 0 .. (n - 1) : first < last /\ w[first].node = w[last].node
  <2>1. CASE i < j
    BY <1>6, <2>1
  <2>2. CASE j < i
    BY <1>6, <2>2
  <2>. QED BY <1>6, <2>1, <2>2
<1>. DEFINE S == {w[k].node : k \in first .. (last - 1)}
<1>8. \A k \in first .. (last - 1) : k \in 0 .. (n - 1)
  BY <1>7
<1>9. S \in SUBSET DOMAIN nodes /\ S # {} /\ \A a \in S : input = None => nodes[a].type # "input"
  <2>1. first \in first .. (last - 1)
    BY <1>7
  <2>. QED BY <1>5, <1>8, <2>1
<1>10. ASSUME NEW a \in S
       PROVE  \E b \in S : b \in {nodes[a].next, nodes[a].orElse}
  <2>1. PICK k \in first .. (last - 1) : a = w[k].node
    OBVIOUS
  <2>2. w[k + 1].node \in {nodes[a].next, nodes[a].orElse}
    BY <1>5, <1>8, <2>1
  <2>3. w[k + 1].node \in S
    <3>1. CASE k + 1 = last
      <4>1. first \in first .. (last - 1) /\ w[k + 1].node = w[first].node
        BY <1>7, <3>1
      <4>. QED BY <4>1
    <3>2. CASE k + 1 # last
      <4>1. k + 1 \in first .. (last - 1)
        BY <1>7, <3>2
      <4>. QED BY <4>1
    <3>. QED BY <3>1, <3>2
  <2>. QED BY <2>2, <2>3
<1>. HIDE DEF S
<1>. QED BY <1>9, <1>10

\* The process hangs only in a flow whose links make a cycle, and only in a
\* cycle without a question when the message started the flow.
THEOREM HangsAreCycles == Spec => []HangsOnlyOnCycles
<1>1. ASSUME IInv
      PROVE  HangsOnlyOnCycles
  <2>1. SUFFICES ASSUME NEW m \in Messages, process = "hung", job[m].pc = "found", Walk(m).end = "walks"
                 PROVE  LET walked == IF job[m].new THEN {n \in DOMAIN job[m].nodes : job[m].nodes[n].type # "input"}
                                                    ELSE DOMAIN job[m].nodes
                        IN  Cyclic([n \in walked |-> job[m].nodes[n]])
    BY DEF HangsOnlyOnCycles
  <2>. DEFINE nodes == job[m].nodes
              input == IF job[m].new THEN None ELSE job[m].text
              walked == IF job[m].new THEN {n \in DOMAIN nodes : nodes[n].type # "input"} ELSE DOMAIN nodes
              graph == [n \in walked |-> nodes[n]]
  <2>2. PICK S \in SUBSET DOMAIN nodes :
           /\ S # {}
           /\ \A a \in S : input = None => nodes[a].type # "input"
           /\ \A a \in S : \E b \in S : b \in {nodes[a].next, nodes[a].orElse}
    BY <1>1, <2>1, CallGives, EndlessWalk
  <2>3. S \subseteq walked
    BY <2>2
  <2>4. \A a \in S : graph[a] = nodes[a]
    BY <2>3
  <2>5. DOMAIN graph = walked /\ S \in SUBSET walked /\ S # {}
    BY <2>2, <2>3
  <2>6. \A a \in S : \E b \in S : b \in {graph[a].next, graph[a].orElse}
    BY <2>2, <2>4
  <2>7. Cyclic(graph)
    <3>. HIDE DEF graph, walked
    <3>. QED BY <2>5, <2>6 DEF Cyclic
  <2>. QED BY <2>7
<1>. QED BY <1>1, ConversationsInvariant, PTL
=============================================================================
