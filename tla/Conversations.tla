---------------------------- MODULE Conversations ----------------------------
(***************************************************************************)
(* The bot (application/bot/BotService) and the flows it follows           *)
(* (application/flows, FlowAggregate, MongoFlowRepository).                *)
(*                                                                         *)
(* Every text message that comes in is handled by a call of handleMessage  *)
(* that nobody awaits, so the calls overlap: between the reading of the    *)
(* conversation and its writing there is a query.  The operations on flows *)
(* read a whole document, change it and write it whole.  Conversations are *)
(* kept in memory for 600 seconds after the last message; a rejection that *)
(* nobody handles ends the process, and the conversations with it.         *)
(***************************************************************************)
EXTENDS FlowEngine

CONSTANTS
    Messages,   \* the text messages that come in, each once
    Chats,      \* where they come from
    Mail,       \* <<message, chat, text>>: what may come in as which message
    InstanceOf, \* [Chats -> Instances]
    Instances,  \* the accounts
    FlowIds,    \* the flows there may be
    Edits,      \* the requests that change flows, each once
    Graphs,     \* [start, nodes, triggers]: the bodies that such requests bring
    StartName,  \* the start node of a flow that has no nodes yet
    Seeds       \* the collections of flows the database may hold at the start

VARIABLES
    flows,      \* FlowModel: the document of each flow, or None
    store,      \* NodeCacheConversationStore: the conversation of each chat, or None
    job,        \* what each call of handleMessage is at
    edit,       \* what each request about a flow is at
    process,    \* "runs", or "hung" in a loop that never ends
    said        \* history: what was written in each chat

vars == <<flows, store, job, edit, process, said>>

\* The graphs that a document may have: none yet, what the database held at
\* the start, and what requests bring.
Nodes == {<<>>} \cup {g.nodes : g \in Graphs}
                \cup UNION {{s[f].nodes : f \in {g \in FlowIds : s[g] # None}} : s \in Seeds}

FlowModel == [instance : Instances, start : NodeIds, nodes : Nodes, triggers : SUBSET Trigger, active : BOOLEAN]

Fresh == [flow |-> None, node |-> None, vars |-> [v \in Variables |-> None]]

Conversation == [flow : FlowIds \cup {None}, node : NodeIds \cup {None}, vars : Vars]

\* Every link of a graph leads to one of its nodes or ends the flow.
Closed(nodes) == \A n \in DOMAIN nodes : {nodes[n].next, nodes[n].orElse} \subseteq DOMAIN nodes \cup {None}

\* A document as the seed writes it: all links lead somewhere, and a flow
\* that is active has its start node.
WellFormed(d) == Closed(d.nodes) /\ (d.active => d.start \in DOMAIN d.nodes)

\* The operations on flows.
Kind == {"nodes", "reset", "update", "erase", "create"}

ASSUME ConversationsAssumption ==
    /\ Mail \subseteq Messages \X Chats \X Texts
    /\ InstanceOf \in [Chats -> Instances]
    /\ StartName \in NodeIds
    /\ \A g \in Graphs : g.start \in NodeIds /\ g.triggers \subseteq Trigger
    /\ \A nodes \in Nodes : IsGraph(nodes) /\ nodes # None
    /\ None \notin FlowIds \cup FlowModel \cup Conversation \cup Kind
    /\ \A s \in Seeds : /\ s \in [FlowIds -> FlowModel \cup {None}]
                        /\ \A f \in FlowIds : s[f] # None => WellFormed(s[f])

\* A call of handleMessage: nothing is known of it until its message comes.
Call == [pc : {"expected", "finding", "found", "sending", "done"}, chat : Chats \cup {None}, text : Texts \cup {None},
         state : Conversation \cup {None}, new : BOOLEAN, nodes : Nodes \cup {None}]

Waiting == [pc |-> "expected", chat |-> None, text |-> None, state |-> None, new |-> FALSE, nodes |-> None]

\* A request about a flow: the document as it was read, and as it will be.
Edit == [pc : {"idle", "read", "done"}, kind : Kind \cup {None},
         flow : FlowIds \cup {None}, was : FlowModel \cup {None}, doc : FlowModel \cup {None}]

Idle == [pc |-> "idle", kind |-> None, flow |-> None, was |-> None, doc |-> None]

\* Documents that the database may hold before the program starts come from
\* elsewhere (scripts/seed_flows.ts): none of the operations activates one.
Init ==
    /\ flows \in Seeds
    /\ store = [c \in Chats |-> None]
    /\ job = [m \in Messages |-> Waiting]
    /\ edit = [e \in Edits |-> Idle]
    /\ process = "runs"
    /\ said = [c \in Chats |-> {}]

-----------------------------------------------------------------------------
\* Mutant: the key leaves out the chat.
StoreKeyOfInstance(chat) == CHOOSE c \in Chats : InstanceOf[c] = InstanceOf[chat]

\* The key of a conversation in the store.
StoreKey(chat) == chat

\* A request about a flow that has been answered, or was lost.
Answered(e) == [Idle EXCEPT !.pc = "done", !.kind = edit[e].kind, !.flow = edit[e].flow]

\* A call that has returned, or was lost.
Over == [Waiting EXCEPT !.pc = "done"]

Pending(m) == job[m].pc \in {"finding", "found", "sending"}

\* IncomingMessageBotSubscriber.on, and handleMessage up to its query: the
\* store answers at once.
Begin(m, chat, text) ==
    LET kept  == store[StoreKey(chat)]
        state == IF kept = None THEN Fresh ELSE kept
    IN  /\ process = "runs" /\ job[m].pc = "expected"
        /\ job' = [job EXCEPT ![m] = [@ EXCEPT !.pc = "finding", !.chat = chat, !.text = text, !.state = state]]
        /\ said' = [said EXCEPT ![chat] = @ \cup {Norm[text]}]
        /\ UNCHANGED <<flows, store, edit, process>>

\* The two queries: the active flows of the instance for a conversation that
\* is in none, whatever flow it is in, active or not, for one that is.
FindActive(m) ==
    LET here == {f \in FlowIds : flows[f] # None /\ flows[f].active
                                 /\ flows[f].instance = InstanceOf[job[m].chat]}
    IN  {f \in here : flows[f] \in Resolve({flows[g] : g \in here}, job[m].text)}

Find(m) ==
    /\ process = "runs" /\ job[m].pc = "finding"
    /\ IF job[m].state.flow = None
       THEN \/ /\ FindActive(m) = {}
               /\ job' = [job EXCEPT ![m] = Over]
            \/ \E f \in FindActive(m) :
                  job' = [job EXCEPT ![m] =
                     [@ EXCEPT !.pc = "found", !.new = TRUE, !.nodes = flows[f].nodes,
                               !.state = [flow |-> f, node |-> flows[f].start, vars |-> job[m].state.vars]]]
       ELSE LET f == job[m].state.flow
            IN  job' = [job EXCEPT ![m] = [@ EXCEPT !.pc = "found",
                                           !.nodes = IF flows[f] = None THEN None ELSE flows[f].nodes]]
    /\ UNCHANGED <<flows, store, edit, process, said>>

\* Mutant: what starts a flow is taken for the answer to its first question.
WalkAnswers(m) ==
    IF job[m].nodes = None
    THEN [node |-> None, vars |-> job[m].state.vars, reply |-> None, end |-> "done"]
    ELSE Execute(job[m].nodes, job[m].state, job[m].text)

\* execute() of what was found; a flow that was just started gets no input.
\* A flow that is gone, or has lost its nodes, is left.
Walk(m) ==
    IF job[m].nodes = None
    THEN [node |-> None, vars |-> job[m].state.vars, reply |-> None, end |-> "done"]
    ELSE Execute(job[m].nodes, job[m].state, IF job[m].new THEN None ELSE job[m].text)

\* Mutant: the flow is not left at its end.
AfterStays(m, walk) == [flow |-> job[m].state.flow, node |-> walk.node, vars |-> walk.vars]

\* What is written back: outside of every flow when there is no node left.
After(m, walk) == [flow |-> IF walk.node = None THEN None ELSE job[m].state.flow,
                   node |-> walk.node, vars |-> walk.vars]

\* The rest of handleMessage up to the sending of the reply.
Handle(m) ==
    /\ process = "runs" /\ job[m].pc = "found"
    /\ \E walk \in {Walk(m)} :
          /\ walk.end \in {"done", "waits", "missing"}
          /\ store' = [store EXCEPT ![StoreKey(job[m].chat)] = After(m, walk)]
          /\ job' = [job EXCEPT ![m] = IF walk.reply = None THEN Over ELSE [Over EXCEPT !.pc = "sending"]]
    /\ UNCHANGED <<flows, edit, process, said>>

\* execute() is one synchronous call: nothing else of the process runs again.
Hang(m) ==
    /\ process = "runs" /\ job[m].pc = "found"
    /\ Walk(m).end = "walks"
    /\ process' = "hung"
    /\ UNCHANGED <<flows, store, job, edit, said>>

Sent(m) ==
    /\ process = "runs" /\ job[m].pc = "sending"
    /\ job' = [job EXCEPT ![m] = Over]
    /\ UNCHANGED <<flows, store, edit, process, said>>

\* A query rejects, an executor is missing, or the orchestrator gave up on
\* the reply: the rejection has no handler and index.ts ends the process.
\* Whoever watches it starts it again; what was in memory is lost.
Die(m) ==
    /\ process = "runs"
    /\ \/ job[m].pc \in {"finding", "sending"}
       \/ job[m].pc = "found" /\ Walk(m).end = "threw"
    /\ store' = [c \in Chats |-> None]
    /\ job' = [n \in Messages |-> IF Pending(n) THEN Over ELSE job[n]]
    /\ edit' = [e \in Edits |-> IF edit[e].pc = "read" THEN Answered(e) ELSE edit[e]]
    /\ said' = [c \in Chats |-> {}]
    /\ UNCHANGED <<flows, process>>

\* The entry of a chat is 600 seconds old.
Expire(c) ==
    /\ process = "runs" /\ store[c] # None
    /\ store' = [store EXCEPT ![c] = None]
    /\ UNCHANGED <<flows, job, edit, process, said>>

-----------------------------------------------------------------------------
\* Mutant: a new flow is active.
NewFlowActive(instance) ==
    [instance |-> instance, start |-> StartName, nodes |-> <<>>, triggers |-> {}, active |-> TRUE]

\* FlowAggregate.
NewFlow(instance) ==
    [instance |-> instance, start |-> StartName, nodes |-> <<>>, triggers |-> {}, active |-> FALSE]

ValidStart(doc) == DOMAIN doc.nodes # {} => doc.start \in DOMAIN doc.nodes

\* Mutant: isActive falls back to its default.
UpdateNodesActive(doc, graph) == [doc EXCEPT !.nodes = graph.nodes, !.start = graph.start, !.active = TRUE]

UpdateNodes(doc, graph) ==
    [doc EXCEPT !.nodes = graph.nodes, !.start = graph.start,
                !.triggers = IF graph.triggers = {} THEN @ ELSE graph.triggers]

ResetNodes(doc) == [doc EXCEPT !.nodes = <<>>, !.triggers = {}]

ChangeInstance(doc, instance) == [doc EXCEPT !.instance = instance]

Deactivate(doc) == [doc EXCEPT !.active = FALSE]

\* findById and the change: the document is read whole.  When validate()
\* refuses the change nothing is written.
Read(e, kind, f, doc) ==
    /\ process = "runs" /\ edit[e].pc = "idle" /\ flows[f] # None
    /\ ValidStart(doc)
    /\ edit' = [edit EXCEPT ![e] = [pc |-> "read", kind |-> kind, flow |-> f, was |-> flows[f], doc |-> doc]]
    /\ UNCHANGED <<flows, store, job, process, said>>

NodesCreator(e, f) == \E g \in Graphs : Read(e, "nodes", f, UpdateNodes(flows[f], g))

NodesEraser(e, f) == Read(e, "reset", f, ResetNodes(flows[f]))

FlowUpdater(e, f) == \E i \in Instances : Read(e, "update", f, ChangeInstance(flows[f], i))

FlowEraser(e, f) == Read(e, "erase", f, Deactivate(flows[f]))

\* FlowCreator reads nothing; its flow gets a new id.
FlowCreator(e, f) ==
    /\ process = "runs" /\ edit[e].pc = "idle" /\ flows[f] = None
    /\ \A d \in Edits : edit[d].flow # f
    /\ \E i \in Instances :
          edit' = [edit EXCEPT ![e] = [pc |-> "read", kind |-> "create", flow |-> f, was |-> None,
                                       doc |-> NewFlow(i)]]
    /\ UNCHANGED <<flows, store, job, process, said>>

\* MongoFlowRepository.save: every field is written.
Save(e) ==
    /\ process = "runs" /\ edit[e].pc = "read"
    /\ flows' = [flows EXCEPT ![edit[e].flow] = edit[e].doc]
    /\ edit' = [edit EXCEPT ![e] = Answered(e)]
    /\ UNCHANGED <<store, job, process, said>>

-----------------------------------------------------------------------------
Next ==
    \/ \E m \in Messages :
          \/ \E c \in Chats, t \in Texts : <<m, c, t>> \in Mail /\ Begin(m, c, t)
          \/ Find(m) \/ Handle(m) \/ Hang(m) \/ Sent(m) \/ Die(m)
    \/ \E c \in Chats : Expire(c)
    \/ \E e \in Edits :
          \/ \E f \in FlowIds :
                \/ NodesCreator(e, f) \/ NodesEraser(e, f) \/ FlowUpdater(e, f)
                \/ FlowEraser(e, f) \/ FlowCreator(e, f)
          \/ Save(e)

Spec == Init /\ [][Next]_vars
-----------------------------------------------------------------------------
TypeOK ==
    /\ flows \in [FlowIds -> FlowModel \cup {None}]
    /\ store \in [Chats -> Conversation \cup {None}]
    /\ job \in [Messages -> Call]
    /\ edit \in [Edits -> Edit]
    /\ process \in {"runs", "hung"}
    /\ said \in [Chats -> SUBSET Texts]

\* Has a request changed the nodes of a flow?
Rewritten(f) == \E e \in Edits : edit[e].flow = f /\ edit[e].kind \in {"nodes", "reset"}

\* A conversation rests in no flow and at no node, or at a question of its
\* flow, unless a request changed the nodes under it.
AtRest(state) ==
    \/ state.flow = None /\ state.node = None
    \/ /\ state.flow # None /\ flows[state.flow] # None /\ state.node # None
       /\ \/ Rewritten(state.flow)
          \/ /\ state.node \in DOMAIN flows[state.flow].nodes
             /\ flows[state.flow].nodes[state.node].type = "input"

\* Types, and where the conversations that are kept rest (FlowEngine.execute
\* and what handleMessage writes back): only a request that changed the
\* nodes of its flow can leave one anywhere but at a question.
Sound ==
    /\ TypeOK
    /\ \A c \in Chats : store[c] # None => AtRest(store[c])

\* FlowAggregate.create, addTriggers, updateNodes and findActiveByInstance
\* together: a flow made through the API starts inactive and nothing calls
\* activate(), so whatever nodes and triggers it is given it never gets hold
\* of a conversation.
ApiFlowsNeverAnswer ==
    \A c \in Chats, e \in Edits :
        edit[e].kind = "create" /\ store[c] # None => store[c].flow # edit[e].flow

\* NodeCacheConversationStore: conversations are kept apart.  A variable
\* holds only what was written in the chat it belongs to, since the process
\* last started.
NoCrossTalk ==
    \A c \in Chats : store[c] # None =>
        \A v \in Variables : store[c].vars[v] \in said[c] \cup {None}

\* What each operation on flows is about.
FieldsOf(kind) == CASE kind = "nodes"  -> {"nodes", "start", "triggers"}
                    [] kind = "reset"  -> {"nodes", "triggers"}
                    [] kind = "update" -> {"instance"}
                    [] kind = "erase"  -> {"active"}
                    [] OTHER           -> {}

\* MongoFlowRepository.save writes every field of a document that was read
\* earlier, and nothing guards it: a save changes a field that its operation
\* is not about only when another request saved the flow in between.
EditsKept ==
    [][\A f \in FlowIds : flows[f] # None /\ flows'[f] # flows[f] =>
          \E e \in Edits :
             /\ edit[e].flow = f /\ edit[e].pc = "read"
             /\ \A field \in DOMAIN flows[f] : flows'[f][field] # flows[f][field] =>
                   field \in FieldsOf(edit[e].kind) \/ flows[f] # edit[e].was]_vars

\* A set of nodes each of which leads to another of them.
Cyclic(nodes) ==
    \E S \in SUBSET DOMAIN nodes \ {{}} :
        \A a \in S : \E b \in S : b \in {nodes[a].next, nodes[a].orElse}

\* FlowEngine.execute: the process hangs only in a flow with a cycle, and
\* only in a cycle that asks nothing when the message started the flow.
HangsOnlyOnCycles ==
    \A m \in Messages : process = "hung" /\ job[m].pc = "found" /\ Walk(m).end = "walks" =>
        LET walked == IF job[m].new THEN {n \in DOMAIN job[m].nodes : job[m].nodes[n].type # "input"}
                                    ELSE DOMAIN job[m].nodes
        IN  Cyclic([n \in walked |-> job[m].nodes[n]])

\* Has the conversation been written since the call that handles m read it?
Overtaken(m) ==
    LET kept == store[job[m].chat]
        read == job[m].state
    IN  IF job[m].new THEN kept.flow # None \/ kept.vars # read.vars ELSE kept # read

\* Does the call that handles m leave its conversation at a question for v?
Asks(m, v) ==
    LET node == store'[job[m].chat].node
    IN  node \in DOMAIN job[m].nodes /\ job[m].nodes[node].type = "input" /\ job[m].nodes[node].variable = v

\* handleMessage reads a conversation before a query and writes it whole
\* after it, and nothing guards it.  A message changes an answer that it did
\* not give or is not asked again, or takes a conversation from one flow to
\* another, only when another message of the chat was handled in between.
AnswersKept ==
    [][\A c \in Chats : store[c] # None /\ store'[c] \notin {store[c], None} =>
          \E m \in Messages :
             /\ job[m].chat = c /\ job[m].pc = "found" /\ job'[m].pc # "found"
             /\ \/ Overtaken(m)
                \/ /\ store[c].flow # None => store'[c].flow \in {store[c].flow, None}
                   /\ \A v \in Variables : store'[c].vars[v] # store[c].vars[v] =>
                         IF job[m].new THEN store'[c].vars[v] = None /\ Asks(m, v)
                                       ELSE store'[c].vars[v] = Norm[job[m].text]]_vars
=============================================================================
