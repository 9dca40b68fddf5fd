--------------------------- MODULE MCConversations ---------------------------
\* Conversations on two chats of one account: a flow with a question and a
\* branch, or with two questions, is active at the start, and a request may
\* create another one.
EXTENDS Conversations, TLC

CONSTANTS hi, pad, yes, Yes, no, none, m1, m2, m3, c1, c2, i1, i2, f1, f2, e1, e2, a, b, c, q

MCVariables == {q}
\* pad is hi with a blank before it.
MCTexts == {hi, pad, yes, Yes, no}
MCLower == [t \in MCTexts |-> IF t = Yes THEN yes ELSE t]
MCNorm == [t \in MCTexts |-> IF t = pad THEN hi ELSE MCLower[t]]
MCIncludes == {<<t, t>> : t \in {hi, yes, no, pad}} \cup {<<pad, hi>>} \cup {<<no, hi>>}

MessageNode(next) == [type |-> "message", variable |-> none, equals |-> none, next |-> next, orElse |-> none]
InputNode(next) == [type |-> "input", variable |-> q, equals |-> none, next |-> next, orElse |-> none]
ConditionNode(text, yesNode, noNode) == [type |-> "condition", variable |-> q, equals |-> text, next |-> yesNode, orElse |-> noNode]

On(t) == {[type |-> "keyword", value |-> t]}
Containing(t) == {[type |-> "contains", value |-> t]}

\* A question with a branch to a message or to the end; two questions in a
\* row; a message that leads back to itself; a question whose answer leads
\* to a node that does not exist; and a body that changes nothing else.
Branch == a :> InputNode(b) @@ b :> ConditionNode(yes, c, none) @@ c :> MessageNode(none)
Twice == a :> MessageNode(b) @@ b :> InputNode(c) @@ c :> InputNode(none)
Loop == a :> InputNode(b) @@ b :> MessageNode(b)
Dangling == a :> InputNode(c)

MCGraphs ==
    {[start |-> a, nodes |-> Loop, triggers |-> On(hi) \cup On(pad)], [start |-> a, nodes |-> Dangling, triggers |-> {}],
     [start |-> b, nodes |-> Loop, triggers |-> Containing(hi)]}

Seeded(graph, triggers) ==
    [f \in {f1, f2} |-> IF f = f1 THEN [instance |-> i1, start |-> a, nodes |-> graph, triggers |-> triggers,
                                        active |-> TRUE] ELSE none]

MCSeeds == {Seeded(Branch, On(hi)), Seeded(Twice, On(hi) \cup On(Yes))}
MCMail == {<<m1, c1, hi>>, <<m2, c1, Yes>>, <<m2, c1, no>>, <<m3, c1, yes>>, <<m3, c2, pad>>, <<m3, c2, no>>}
MCInstanceOf == [x \in {c1, c2} |-> i1]
=============================================================================
