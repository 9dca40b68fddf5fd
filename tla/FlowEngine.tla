----------------------------- MODULE FlowEngine -----------------------------
(***************************************************************************)
(* application/bot: how one message moves a conversation through a flow.   *)
(*                                                                         *)
(* A flow is a graph.  A node is [type, variable, equals, next, orElse]: a *)
(* message or input node goes to `next`, a condition node to `next` when   *)
(* it holds and to `orElse` when it does not, and `next` = None ends the   *)
(* flow.  A conversation is at [node, vars]; a text is a value of Texts,   *)
(* Lower[t] is what toLowerCase() makes of it, Norm[t] what                *)
(* trim().toLowerCase() does, and Includes the pairs <<text, part>> for    *)
(* which text.includes(part).  Replies are named by the message node whose *)
(* text they carry: the interpolation is left out.                         *)
(***************************************************************************)
EXTENDS Naturals, FiniteSets

CONSTANTS
    NodeIds,    \* the names nodes have
    Variables,  \* the variables that flows ask for and compare
    Texts,      \* what people write, and what flows compare with
    Norm,       \* [Texts -> Texts]
    Lower,      \* [Texts -> Texts]
    Includes,   \* a set of pairs of normalised texts
    None        \* undefined and null

ASSUME TextsAssumption ==
    /\ IsFiniteSet(NodeIds) /\ IsFiniteSet(Variables)
    /\ Norm \in [Texts -> Texts] /\ Lower \in [Texts -> Texts]
    /\ Includes \subseteq Texts \X Texts
    /\ None \notin NodeIds \cup Texts

NodeType == {"message", "input", "condition", "ai", "delay"}

FlowNode == [type : NodeType, variable : Variables \cup {None}, equals : Texts \cup {None},
             next : NodeIds \cup {None}, orElse : NodeIds \cup {None}]

\* The nodes of a flow, by their names.
IsGraph(nodes) == DOMAIN nodes \subseteq NodeIds /\ nodes \in [DOMAIN nodes -> FlowNode]

Trigger == [type : {"keyword", "contains"}, value : Texts]

Vars == [Variables -> Texts \cup {None}]

\* Does a trigger fire on a text?  What a trigger says is not trimmed.
Fires(trigger, text) ==
    LET value == Lower[trigger.value]
    IN  \/ trigger.type = "keyword" /\ Norm[text] = value
        \/ trigger.type = "contains" /\ <<Norm[text], value>> \in Includes

\* The flows that a text may start.  The first of the list wins, and the
\* query that makes the list asks for no order.
Resolve(flows, text) == {f \in flows : \E t \in f.triggers : Fires(t, text)}

-----------------------------------------------------------------------------
\* The three executors.
MessageNodeExecutor(node, at) == [vars |-> at.vars, next |-> node.next]

InputNodeExecutor(node, at, input) ==
    [vars |-> [at.vars EXCEPT ![node.variable] = IF input = None THEN None ELSE Norm[input]],
     next |-> node.next]

ConditionNodeExecutor(node, at) ==
    [vars |-> at.vars,
     next |-> IF at.vars[node.variable] = node.equals THEN node.next ELSE node.orElse]

\* Mutant: an input node without input does not end the loop.
TurnWaiting(nodes, at, input) ==
    IF at.node \notin DOMAIN nodes THEN [at EXCEPT !.end = "missing", !.reply = None]
    ELSE LET node == nodes[at.node]
         IN  CASE node.type = "message" ->
                    [at EXCEPT !.node = node.next, !.reply = at.node, !.end = IF node.next = None THEN "done" ELSE "walks"]
               [] node.type = "condition" ->
                    LET next == ConditionNodeExecutor(node, at).next
                    IN  [at EXCEPT !.node = next, !.end = IF next = None THEN "done" ELSE "walks"]
               [] OTHER -> IF input = None THEN at
                           ELSE [at EXCEPT !.node = node.next, !.vars = InputNodeExecutor(node, at, input).vars,
                                           !.end = IF node.next = None THEN "done" ELSE "walks"]

\* One turn of the loop of execute().  An input node waits when there is no
\* input; with one it takes it and the walk goes on, through the next input
\* node too.  Only the last reply is kept, and none when a node is missing.
Turn(nodes, at, input) ==
    IF at.node \notin DOMAIN nodes
    THEN [at EXCEPT !.end = "missing", !.reply = None]
    ELSE LET node == nodes[at.node]
             result == CASE node.type = "message"   -> MessageNodeExecutor(node, at)
                         [] node.type = "input"     -> InputNodeExecutor(node, at, input)
                         [] node.type = "condition" -> ConditionNodeExecutor(node, at)
                         [] OTHER                   -> [vars |-> at.vars, next |-> None]
             waits  == node.type = "input" /\ input = None
         IN  IF node.type \in {"ai", "delay"} THEN [at EXCEPT !.end = "threw"]
             ELSE [node  |-> IF waits THEN at.node ELSE result.next,
                   vars  |-> result.vars,
                   reply |-> IF node.type = "message" THEN at.node ELSE at.reply,
                   end   |-> IF waits THEN "waits" ELSE IF result.next = None THEN "done" ELSE "walks"]

\* A walk that has not ended after this many turns has been somewhere twice
\* with the same variables: an input node can set each variable only once to
\* what the one input is.
Enough(nodes) == (Cardinality(DOMAIN nodes) + 1) * (Cardinality(Variables) + 1) + 1

\* Where execute() begins: with no node there is nothing to do.
Start(state) == [node |-> state.node, vars |-> state.vars, reply |-> None,
                 end |-> IF state.node = None THEN "done" ELSE "walks"]

\* The loop goes on until it is left.
Advance(nodes, at, input) == IF at.end = "walks" THEN Turn(nodes, at, input) ELSE at

\* Where execute() is after each of its turns.
Walks(nodes, state, input) ==
    LET Walk[n \in 0 .. Enough(nodes)] == IF n = 0 THEN Start(state) ELSE Advance(nodes, Walk[n - 1], input)
    IN  Walk

\* FlowEngine.execute.  end is "walks" when the loop never ends.
Execute(nodes, state, input) == Walks(nodes, state, input)[Enough(nodes)]
=============================================================================
