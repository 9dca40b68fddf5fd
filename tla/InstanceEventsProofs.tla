------------------------ MODULE InstanceEventsProofs ------------------------
(***************************************************************************)
(* Proofs about InstanceEvents for every value of its constants: any       *)
(* number of batches, of sections in a batch, of chats and messages, any   *)
(* thresholds, and any number of accidents.                                *)
(*                                                                         *)
(* Two inductive invariants.  Told says where each handler can be, that an *)
(* attempt of the present breaker finds it there, and which messages are   *)
(* stored.  Followed says of each chat that is not mixed who works on it,  *)
(* and what the work that is left will make of it.                         *)
(***************************************************************************)
EXTENDS InstanceEvents, TLAPS

Partial == {"chats.update", "groups.update", "chats.delete"}

OneUpsert(content) ==
    \A i, j \in DOMAIN content :
        content[i].kind = "messages.upsert" /\ content[j].kind = "messages.upsert" => i = j

(* The handler of a batch. *)
Placed(b) ==
    LET h == handler[b]
    IN  /\ h.pc \notin {"expected", "done"} => h.i \in DOMAIN h.content
        /\ OneUpsert(h.content)
        /\ h.pc = "insert" => Section(b).kind \in FullSync
        /\ h.pc = "calls" => Section(b).kind \in Partial

(* An attempt of the present breaker finds it there. *)
Posting == \A b \in Batches : At(b, "post") /\ handler[b].own => endpoint # None

(* A batch whose messages are published does not publish again. *)
PublishedOnce ==
    \A k \in heard :
        LET h == handler[k[1]]
        IN  /\ h.pc # "expected"
            /\ \A j \in DOMAIN h.content : j >= h.i => h.content[j].kind # "messages.upsert"

(* What is stored was heard and is not being saved any more. *)
StoredOnce == \A d \in messages : \E l \in heard \ saving : l[2] = d

(* A call that writes has read a document. *)
ReadBefore == \A k \in calls : k.step = "write" => k.seen # None

Told == /\ \A b \in Batches : Placed(b)
        /\ Posting /\ ReadBefore
        /\ PublishedOnce /\ StoredOnce

IInv == Sound /\ Told

-----------------------------------------------------------------------------
Works(b, c) == handler[b].pc \in {"insert", "calls"} /\ c \in Touched(Section(b))

(* Who works on a chat that is not mixed: one batch and one call at most,  *)
(* and both only if the call is one of the section.  A call whose section  *)
(* is over may still be there alone.                                       *)
Alone(c) ==
    /\ \A b, d \in Batches : Works(b, c) /\ Works(d, c) => b = d
    /\ \A k, l \in calls : k.chat = c /\ l.chat = c => k = l
    /\ \A b \in Batches, k \in calls :
          Works(b, c) /\ k.chat = c => k.batch = b /\ k.i = handler[b].i /\ handler[b].pc = "calls"

(* What that work will make of the chat is what was meant. *)
Leads(c) ==
    /\ \A k \in calls : k.chat = c =>
          /\ k.step = "find" => ideal[c] = IF chats[c] = None THEN None ELSE Updated(chats[c], k.fields, k.batch)
          /\ k.step = "write" => /\ k.seen # None /\ chats[c] = k.seen
                                 /\ ideal[c] = Updated(k.seen, k.fields, k.batch)
          /\ k.step = "delete" => ideal[c] = None
    /\ \A b \in Batches : At(b, "insert") =>
          chats[c] = None /\ ideal[c] = IF c \in Section(b).chats THEN New(b) ELSE None
    /\ \/ \E k \in calls : k.chat = c
       \/ \E b \in Batches : At(b, "insert")
       \/ chats[c] = ideal[c]

Followed == \A c \in Chats \ mixed : Alone(c) /\ Leads(c)

CInv == IInv /\ Followed

-----------------------------------------------------------------------------
(* What steps of a handler make of it. *)

LEMMA ExpectedIsHandler == Expected \in Handler /\ [Expected EXCEPT !.pc = "done"] \in Handler
<1>. DEFINE e == <<>>
<1>1. e \in Seq(EventSection)
    OBVIOUS
<1>2. Expected = [pc |-> "expected", content |-> e, i |-> 0, tries |-> 0, own |-> TRUE]
    BY DEF Expected
<1>3. 0 \in 0..Attempts
    BY EventsAssumption
<1>. HIDE DEF e
<1>. QED BY <1>1, <1>2, <1>3 DEF Handler

LEMMA SectionIsOne ==
    ASSUME TypeOK, NEW b \in Batches, handler[b].i \in DOMAIN handler[b].content
    PROVE  Section(b) \in EventSection
BY DEF TypeOK, Handler, Section

LEMMA OnwardKinds ==
    ASSUME TypeOK, NEW b \in Batches, handler[b].i \in DOMAIN handler[b].content, Onward(b)
    PROVE  /\ handler' \in [Batches -> Handler]
           /\ \A d \in Batches \ {b} : handler'[d] = handler[d]
           /\ \/ /\ handler'[b].pc = "done" /\ handler'[b].content = <<>>
              \/ /\ handler'[b].pc = "section" /\ handler'[b].content = handler[b].content
                 /\ handler'[b].i = handler[b].i + 1 /\ handler'[b].i \in DOMAIN handler[b].content
<1>. DEFINE h == handler[b]
            g == [pc |-> "section", content |-> h.content, i |-> h.i + 1, tries |-> 0, own |-> TRUE]
<1>1. h \in Handler /\ handler \in [Batches -> Handler]
    BY DEF TypeOK
<1>2. CASE h.i = Len(h.content)
  <2>1. handler' = [handler EXCEPT ![b] = [Expected EXCEPT !.pc = "done"]]
      BY <1>2 DEF Onward
  <2>. QED BY <1>1, <2>1, ExpectedIsHandler DEF Expected
<1>3. CASE h.i # Len(h.content)
  <2>1. handler' = [handler EXCEPT ![b] = g]
      BY <1>3 DEF Onward
  <2>2. h.content \in Seq(EventSection) /\ h.i \in 1..Len(h.content)
      BY <1>1 DEF Handler
  <2>3. h.i + 1 \in DOMAIN h.content
      BY <2>2, <1>3
  <2>4. g \in Handler
      BY <1>1, <2>2, EventsAssumption DEF Handler
  <2>5. g.pc = "section" /\ g.content = h.content /\ g.i = h.i + 1
      BY <1>1 DEF Handler
  <2>. QED BY <1>1, <2>1, <2>3, <2>4, <2>5
<1>. QED BY <1>2, <1>3

(* Steps that leave the section where it is. *)
LEMMA StayKinds ==
    ASSUME TypeOK, NEW b \in Batches, NEW p \in {"insert", "calls"}, Stay(b, p)
    PROVE  /\ handler' \in [Batches -> Handler]
           /\ handler'[b] = [handler[b] EXCEPT !.pc = p]
           /\ \A d \in Batches \ {b} : handler'[d] = handler[d]
BY DEF TypeOK, Stay, Handler

LEMMA InitHolds == Init => CInv
<1>. SUFFICES ASSUME Init PROVE CInv
    OBVIOUS
<1>1. TypeOK
    BY ExpectedIsHandler, EventsAssumption DEF Init, TypeOK
<1>2. BreakerExact /\ NoMessageLost
    BY DEF Init, BreakerExact, NoMessageLost
<1>3. \A b \in Batches : handler[b].pc = "expected" /\ handler[b].content = <<>>
    BY DEF Init, Expected
<1>4. Told
    BY <1>3 DEF Init, Told, Placed, OneUpsert, PublishedOnce, StoredOnce, ReadBefore, Posting, At
<1>5. Followed
    BY <1>3 DEF Init, Followed, Alone, Leads, Works, At
<1>. QED BY <1>1, <1>2, <1>4, <1>5 DEF CInv, IInv, Sound

-----------------------------------------------------------------------------
(* What a section or a call makes of the chats. *)

LEMMA ChatKinds ==
    ASSUME TypeOK
    PROVE  /\ \A b \in Batches : New(b) \in Chat
           /\ \A chat \in Chat, F \in SUBSET Fields, b \in Batches : Updated(chat, F, b) \in Chat
BY DEF New, Updated, Chat

LEMMA WorkingHere ==
    ASSUME IInv, NEW b \in Batches, handler[b].pc \notin {"expected", "done"}
    PROVE  handler[b].i \in DOMAIN handler[b].content /\ Section(b) \in EventSection
BY SectionIsOne DEF IInv, Sound, Told, Placed

LEMMA ChatsTyped ==
    ASSUME IInv, Next
    PROVE  chats' \in [Chats -> Chat \cup {None}]
<1>. USE ChatKinds DEF IInv, Sound
<1>1. chats \in [Chats -> Chat \cup {None}] /\ calls \subseteq PartialCall
    BY DEF TypeOK
<1>2. ASSUME NEW b \in Batches, NEW content \in Contents, Arrive(b, content) PROVE chats' = chats
    BY <1>2 DEF Arrive
<1>3. ASSUME NEW b \in Batches, Step(b) PROVE chats' \in [Chats -> Chat \cup {None}]
    BY <1>3, <1>1 DEF Step, Publish, DeleteAll, InsertMany, UpsertMany, StartCalls, CallsDone, SyncNothing, SendNothing, Send,
                      Delivered, PostAgain, GiveUp, history
<1>4. ASSUME NEW b \in Batches, SyncFails(b) PROVE chats' = chats
    BY <1>4 DEF SyncFails
<1>5. ASSUME NEW k \in saving, Save(k[1], k[2]) \/ Die(k[1], k[2]) PROVE chats' = chats
    BY <1>5 DEF Save, Die
<1>6. ASSUME NEW k \in calls, Call(k) \/ CallFails(k) PROVE chats' \in [Chats -> Chat \cup {None}]
  <2>1. k.chat \in Chats /\ k.batch \in Batches /\ k.fields \in SUBSET Fields
      BY <1>1 DEF PartialCall
  <2>2. CASE Find(k) \/ Delete(k) \/ CallFails(k)
      BY <2>2, <1>1 DEF Find, Delete, CallFails
  <2>3. CASE WriteBack(k)
    <3>1. k.seen \in Chat
        BY <2>3, <1>1 DEF PartialCall, WriteBack, Told, ReadBefore
    <3>2. Updated(k.seen, k.fields, k.batch) \in Chat
        BY <2>1, <3>1 DEF Updated, Chat
    <3>. QED BY <2>3, <1>1, <3>2 DEF WriteBack
  <2>. QED BY <1>6, <2>2, <2>3 DEF Call
<1>7. ASSUME Due \/ ConfigureWebhook \/ RemoveWebhook \/ ResetCircuit PROVE chats' = chats
    BY <1>7 DEF Due, ConfigureWebhook, RemoveWebhook, ResetCircuit, SetEndpoint
<1>. QED BY <1>1, <1>2, <1>3, <1>4, <1>5, <1>6, <1>7 DEF Next

-----------------------------------------------------------------------------
(* What a step makes of the handlers: some go on, those that were expected *)
(* may begin, and the rest of the content of none changes.                 *)

GoesOn(b) ==
    \/ handler[b].pc = "expected"
    \/ /\ handler'[b].pc # "expected"
       /\ \/ handler'[b].content = <<>>
          \/ handler'[b].content = handler[b].content /\ handler'[b].i >= handler[b].i

(* Steps that move at most one handler, to its next section. *)
LEMMA OnwardStep ==
    ASSUME IInv, NEW b \in Batches, handler[b].pc \notin {"expected", "done"}, Onward(b)
    PROVE  /\ handler' \in [Batches -> Handler]
           /\ \A d \in Batches : GoesOn(d)
           /\ \A d \in Batches \ {b} : handler'[d] = handler[d]
           /\ \/ /\ handler'[b].pc = "done" /\ handler'[b].content = <<>>
              \/ /\ handler'[b].pc = "section" /\ handler'[b].content = handler[b].content
                 /\ handler'[b].i = handler[b].i + 1 /\ handler'[b].i \in DOMAIN handler[b].content
<1>1. TypeOK /\ handler[b].i \in DOMAIN handler[b].content
    BY WorkingHere DEF IInv, Sound
<1>2. \A d \in Batches : handler[d].i \in Nat
    BY <1>1 DEF TypeOK, Handler
<1>. QED BY <1>1, <1>2, OnwardKinds DEF GoesOn

LEMMA ArriveStep ==
    ASSUME IInv, NEW b \in Batches, NEW content \in Contents, Arrive(b, content)
    PROVE  /\ handler' \in [Batches -> Handler]
           /\ \A d \in Batches : GoesOn(d)
           /\ \A d \in Batches \ {b} : handler'[d] = handler[d]
           /\ handler'[b].pc = "section" /\ handler'[b].content = content /\ handler'[b].i = 1
           /\ 1 \in DOMAIN content /\ content \in Seq(EventSection)
<1>1. handler \in [Batches -> Handler]
    BY DEF IInv, Sound, TypeOK
<1>2. content \in Seq(EventSection) /\ content # <<>>
    BY EventsAssumption
<1>3. 1 \in DOMAIN content
    BY <1>2
<1>4. handler' = [handler EXCEPT ![b] = [handler[b] EXCEPT !.pc = "section", !.content = content, !.i = 1]]
    BY DEF Arrive
<1>5. [handler[b] EXCEPT !.pc = "section", !.content = content, !.i = 1] \in Handler
    BY <1>1, <1>2 DEF Handler
<1>6. \A d \in Batches \ {b} : handler'[d] = handler[d] /\ handler[d].i \in Nat
    BY <1>1, <1>4 DEF Handler
<1>7. handler'[b] = [handler[b] EXCEPT !.pc = "section", !.content = content, !.i = 1]
    BY <1>1, <1>4
<1>8. /\ handler'[b].pc = "section" /\ handler'[b].content = content /\ handler'[b].i = 1
    BY <1>1, <1>7 DEF Handler
<1>. QED BY <1>1, <1>2, <1>3, <1>4, <1>5, <1>6, <1>8 DEF GoesOn, Arrive, At

(* Steps at which the handlers stay in their sections. *)
LEMMA PlaceStep ==
    ASSUME IInv,
           \/ \E b \in Batches : DeleteAll(b) \/ StartCalls(b) \/ Send(b) \/ PostAgain(b)
           \/ ConfigureWebhook \/ RemoveWebhook \/ ResetCircuit
    PROVE  /\ handler' \in [Batches -> Handler]
           /\ \A d \in Batches : GoesOn(d) /\ handler'[d].content = handler[d].content /\ handler'[d].i = handler[d].i
           /\ \A d \in Batches : handler'[d].pc # handler[d].pc => handler[d].pc = "section"
<1>1. handler \in [Batches -> Handler] /\ TypeOK
    BY DEF IInv, Sound, TypeOK
<1>2. \A d \in Batches : handler[d].i \in Nat
    BY <1>1 DEF Handler
<1>3. SUFFICES /\ handler' \in [Batches -> Handler]
               /\ \A d \in Batches : /\ handler'[d].content = handler[d].content /\ handler'[d].i = handler[d].i
                                     /\ handler'[d].pc # "expected" \/ handler[d].pc = "expected"
                                     /\ handler'[d].pc # handler[d].pc => handler[d].pc = "section"
    BY <1>2 DEF GoesOn
<1>4. ASSUME NEW b \in Batches, DeleteAll(b) \/ StartCalls(b)
      PROVE  <1>3!1
  <2>1. PICK p \in {"insert", "calls"} : Stay(b, p)
      BY <1>4 DEF DeleteAll, StartCalls
  <2>2. /\ handler' \in [Batches -> Handler]
        /\ handler'[b] = [handler[b] EXCEPT !.pc = p]
        /\ \A d \in Batches \ {b} : handler'[d] = handler[d]
      BY <1>1, <2>1, StayKinds
  <2>3. handler[b] \in Handler /\ handler[b].pc = "section"
      BY <1>1, <1>4 DEF DeleteAll, StartCalls, At
  <2>4. handler'[b].content = handler[b].content /\ handler'[b].i = handler[b].i /\ handler'[b].pc = p
      BY <2>2, <2>3 DEF Handler
  <2>. QED BY <2>2, <2>3, <2>4
<1>5. ASSUME NEW b \in Batches, Send(b) \/ PostAgain(b)
      PROVE  <1>3!1
  <2>1. PICK p \in {"post"}, n \in 0..Attempts : handler' = [handler EXCEPT ![b] = [handler[b] EXCEPT !.pc = p, !.tries = n]]
    <3>1. CASE Send(b)
      <4>1. 1 \in 0..Attempts
          BY EventsAssumption
      <4>. QED BY <3>1, <4>1 DEF Send
    <3>2. CASE PostAgain(b)
      <4>1. handler[b].tries \in 0..Attempts /\ handler[b].pc = "post" /\ handler[b].tries < Attempts /\ Attempts \in Nat
          BY <3>2, <1>1, EventsAssumption DEF Handler, PostAgain, At
      <4>2. [handler[b] EXCEPT !.tries = handler[b].tries + 1] = [handler[b] EXCEPT !.pc = "post", !.tries = handler[b].tries + 1]
          BY <4>1, <1>1 DEF Handler
      <4>3. handler' = [handler EXCEPT ![b] = [handler[b] EXCEPT !.tries = handler[b].tries + 1]]
          BY <3>2 DEF PostAgain
      <4>4. handler[b].tries + 1 \in 0..Attempts
          BY <4>1
      <4>. QED BY <4>2, <4>3, <4>4
    <3>. QED BY <1>5, <3>1, <3>2
  <2>2. handler[b] \in Handler /\ handler[b].pc \in {"section", "post"}
      BY <1>1, <1>5 DEF Send, PostAgain, At
  <2>3. [handler[b] EXCEPT !.pc = p, !.tries = n] \in Handler
      BY <2>2 DEF Handler
  <2>4. handler'[b] = [handler[b] EXCEPT !.pc = p, !.tries = n] /\ \A d \in Batches \ {b} : handler'[d] = handler[d]
      BY <1>1, <2>1
  <2>5. handler'[b].content = handler[b].content /\ handler'[b].i = handler[b].i /\ handler'[b].pc = p
      BY <2>2, <2>4 DEF Handler
  <2>. QED BY <1>1, <2>1, <2>2, <2>3, <2>4, <2>5
<1>6. ASSUME ConfigureWebhook \/ RemoveWebhook \/ ResetCircuit
      PROVE  <1>3!1
  <2>1. PICK kept \in BOOLEAN : handler' = [b \in Batches |-> [handler[b] EXCEPT !.own = IF kept \/ handler[b].pc # "post" THEN @ ELSE FALSE]]
      BY <1>6 DEF ConfigureWebhook, RemoveWebhook, ResetCircuit, SetEndpoint
  <2>2. ASSUME NEW d \in Batches
        PROVE  /\ handler'[d] \in Handler
               /\ handler'[d].content = handler[d].content /\ handler'[d].i = handler[d].i
               /\ handler'[d].pc = handler[d].pc
    <3>1. handler'[d] = [handler[d] EXCEPT !.own = IF kept \/ handler[d].pc # "post" THEN handler[d].own ELSE FALSE]
        BY <2>1
    <3>2. handler[d] \in Handler
        BY <1>1
    <3>. QED BY <3>1, <3>2 DEF Handler
  <2>. QED BY <2>1, <2>2
<1>. QED BY <1>4, <1>5, <1>6

LEMMA DieStep ==
    ASSUME IInv, NEW b, NEW payload, Die(b, payload)
    PROVE  /\ handler' \in [Batches -> Handler]
           /\ \A d \in Batches : GoesOn(d)
           /\ \A d \in Batches : IF handler[d].pc = "expected" THEN handler'[d] = handler[d]
                                 ELSE handler'[d].pc = "done" /\ handler'[d].content = <<>>
<1>1. handler \in [Batches -> Handler]
    BY DEF IInv, Sound, TypeOK
<1>. DEFINE dead == [Expected EXCEPT !.pc = "done"]
<1>2. dead.pc = "done" /\ dead.content = <<>> /\ dead \in Handler
    BY ExpectedIsHandler DEF Expected
<1>3. handler' = [d \in Batches |-> IF handler[d].pc = "expected" THEN handler[d] ELSE dead]
    BY DEF Die, At
<1>. HIDE DEF dead
<1>. QED BY <1>1, <1>2, <1>3 DEF GoesOn

LEMMA HandlersStep ==
    ASSUME IInv, Next
    PROVE  handler' \in [Batches -> Handler] /\ \A d \in Batches : GoesOn(d)
<1>1. handler \in [Batches -> Handler] /\ \A d \in Batches : handler[d].i \in Nat
    BY DEF IInv, Sound, TypeOK, Handler
<1>2. handler' = handler => handler' \in [Batches -> Handler] /\ \A d \in Batches : GoesOn(d)
    BY <1>1 DEF GoesOn
<1>3. ASSUME NEW b \in Batches, Step(b) \/ SyncFails(b)
      PROVE  handler' \in [Batches -> Handler] /\ \A d \in Batches : GoesOn(d)
  <2>1. CASE DeleteAll(b) \/ StartCalls(b) \/ Send(b) \/ PostAgain(b)
      BY <2>1, PlaceStep
  <2>2. CASE Publish(b) \/ InsertMany(b) \/ UpsertMany(b) \/ CallsDone(b) \/ SyncNothing(b) \/ SendNothing(b) \/ Delivered(b) \/ GiveUp(b)
             \/ SyncFails(b)
    <3>1. handler[b].pc \notin {"expected", "done"} /\ Onward(b)
        BY <2>2 DEF Publish, InsertMany, UpsertMany, CallsDone, SyncNothing, SendNothing, Delivered, GiveUp, SyncFails, At
    <3>. QED BY <3>1, OnwardStep
  <2>. QED BY <1>3, <2>1, <2>2 DEF Step
<1>4. ASSUME NEW k \in saving, Save(k[1], k[2]) \/ Die(k[1], k[2])
      PROVE  handler' \in [Batches -> Handler] /\ \A d \in Batches : GoesOn(d)
    BY <1>4, <1>2, DieStep DEF Save
<1>5. ASSUME NEW k \in calls, Call(k) \/ CallFails(k)
      PROVE  handler' \in [Batches -> Handler] /\ \A d \in Batches : GoesOn(d)
  <2>1. CASE Call(k)
      BY <2>1, <1>2 DEF Call, Find, WriteBack, Delete
  <2>2. CASE CallFails(k) /\ handler' # handler
    <3>1. k.batch \in Batches /\ handler[k.batch].pc = "calls" /\ Onward(k.batch)
        BY <2>2 DEF CallFails, At, IInv, Sound, TypeOK, PartialCall
    <3>. QED BY <3>1, OnwardStep
  <2>. QED BY <1>5, <2>1, <2>2, <1>2
<1>6. CASE Due
    BY <1>6, <1>2 DEF Due
<1>. QED BY <1>3, <1>4, <1>5, <1>6, ArriveStep, PlaceStep DEF Next

LEMMA BreakerKinds ==
    /\ NewBreaker \in Breaker
    /\ \A b \in Breaker : /\ Enter(b) \in Breaker /\ OnSuccess(b) \in Breaker /\ OnFailure(b) \in Breaker
                          /\ [b EXCEPT !.due = TRUE] \in Breaker
<1>1. NewBreaker \in Breaker
    BY DEF NewBreaker, Breaker
<1>2. ASSUME NEW b \in Breaker
      PROVE  /\ Enter(b) \in Breaker
             /\ [b EXCEPT !.due = TRUE] \in Breaker
    BY DEF Enter, Breaker
<1>3. ASSUME NEW b \in Breaker PROVE OnSuccess(b) \in Breaker
  <2>. DEFINE calm == [b EXCEPT !.failures = 0]
  <2>1. calm \in Breaker /\ b.successes + 1 \in Nat
      BY DEF Breaker
  <2>2. [calm EXCEPT !.state = "CLOSED", !.successes = 0] \in Breaker
      BY <2>1 DEF Breaker
  <2>3. calm.successes = b.successes
      BY DEF Breaker
  <2>4. [calm EXCEPT !.successes = calm.successes + 1] \in Breaker
      BY <2>1, <2>3 DEF Breaker
  <2>5. OnSuccess(b) \in {calm, [calm EXCEPT !.state = "CLOSED", !.successes = 0],
                          [calm EXCEPT !.successes = calm.successes + 1]}
      BY DEF OnSuccess
  <2>. QED BY <2>1, <2>2, <2>4, <2>5
<1>4. ASSUME NEW b \in Breaker PROVE OnFailure(b) \in Breaker
  <2>. DEFINE counted == [b EXCEPT !.failures = b.failures + 1, !.successes = 0]
  <2>0. b.failures + 1 \in Nat
      BY DEF Breaker
  <2>1. counted \in Breaker
      BY <2>0 DEF Breaker
  <2>3. [counted EXCEPT !.state = "OPEN", !.due = FALSE] \in Breaker
      BY <2>1 DEF Breaker
  <2>2. OnFailure(b) \in {counted, [counted EXCEPT !.state = "OPEN", !.due = FALSE]}
      BY DEF OnFailure
  <2>. QED BY <2>1, <2>2, <2>3
<1>. QED BY <1>1, <1>2, <1>3, <1>4

LEMMA TypeStep ==
    ASSUME IInv, Next
    PROVE  TypeOK'
<1>. USE DEF IInv, Sound
<1>1. chats' \in [Chats -> Chat \cup {None}] /\ handler' \in [Batches -> Handler]
    BY ChatsTyped, HandlersStep
<1>2. saving' \subseteq heard' /\ \A k \in heard' : k[1] \in Batches
  <2>1. ASSUME NEW b \in Batches, Publish(b) PROVE <1>2
      BY <2>1 DEF Publish, TypeOK
  <2>2. ASSUME UNCHANGED heard, saving' \subseteq saving PROVE <1>2
      BY <2>2 DEF TypeOK
  <2>. QED BY <2>1, <2>2 DEF Next, Step, Call, Arrive, DeleteAll, InsertMany, UpsertMany, StartCalls, CallsDone, SyncNothing, SendNothing,
                Send, Delivered, PostAgain, GiveUp, SyncFails, Save, Die, Find, WriteBack, Delete, CallFails, Due,
                ConfigureWebhook, RemoveWebhook, ResetCircuit, SetEndpoint, history, Note
<1>3. calls' \subseteq PartialCall
  <2>1. ASSUME NEW b \in Batches, StartCalls(b) PROVE calls' \subseteq PartialCall
    <3>1. Section(b) \in EventSection /\ handler[b].i \in Nat
        BY <2>1, WorkingHere DEF StartCalls, At, TypeOK, Handler
    <3>2. ASSUME NEW c \in Section(b).chats
          PROVE  [batch |-> b, i |-> handler[b].i, chat |-> c, fields |-> Section(b).fields,
                  step |-> IF Section(b).kind = "chats.delete" THEN "delete" ELSE "find", seen |-> None] \in PartialCall
        BY <3>1 DEF EventSection, PartialCall
    <3>. QED BY <2>1, <3>2 DEF StartCalls, TypeOK
  <2>2. ASSUME NEW k \in calls, Find(k) PROVE calls' \subseteq PartialCall
    <3>1. chats[k.chat] \in Chat \cup {None} /\ k \in PartialCall
        BY DEF TypeOK, PartialCall
    <3>2. [k EXCEPT !.step = "write", !.seen = chats[k.chat]] \in PartialCall
        BY <3>1 DEF PartialCall
    <3>. QED BY <2>2, <3>2 DEF Find, TypeOK
  <2>3. ASSUME calls' \subseteq calls PROVE calls' \subseteq PartialCall
      BY <2>3 DEF TypeOK
  <2>. QED BY <2>1, <2>2, <2>3 DEF Next, Step, Call, Arrive, Publish, DeleteAll, InsertMany, UpsertMany, CallsDone, SyncNothing, SendNothing,
                Send, Delivered, PostAgain, GiveUp, SyncFails, Save, Die, WriteBack, Delete, CallFails, Due,
                ConfigureWebhook, RemoveWebhook, ResetCircuit, SetEndpoint
<1>4. endpoint' \in Breaker \cup {None} /\ streak' \in Nat
  <2>1. ASSUME NEW b \in Batches, Send(b) PROVE <1>4
      BY <2>1, BreakerKinds DEF Send, TypeOK
  <2>2. ASSUME NEW b \in Batches, Delivered(b) \/ GiveUp(b) PROVE <1>4
    <3>1. handler[b].own => endpoint \in Breaker
        BY <2>2 DEF TypeOK, Delivered, GiveUp, At, Told, Posting
    <3>2. handler[b].own => OnSuccess(endpoint) \in Breaker /\ OnFailure(endpoint) \in Breaker
        BY <3>1, BreakerKinds
    <3>. QED BY <2>2, <3>2 DEF Delivered, GiveUp, TypeOK
  <2>3. ASSUME Due PROVE <1>4
    <3>1. endpoint \in Breaker
        BY <2>3 DEF Due, TypeOK
    <3>2. [endpoint EXCEPT !.due = TRUE] \in Breaker
        BY <3>1, BreakerKinds
    <3>. QED BY <2>3, <3>2 DEF Due, TypeOK, history
  <2>4. ASSUME ConfigureWebhook \/ RemoveWebhook \/ ResetCircuit PROVE <1>4
    <3>1. endpoint' \in {NewBreaker, None} /\ streak' = 0
        BY <2>4 DEF ConfigureWebhook, RemoveWebhook, ResetCircuit, SetEndpoint, Reset
    <3>. QED BY <3>1, BreakerKinds
  <2>5. ASSUME NEW b, NEW payload, Die(b, payload) PROVE <1>4
      BY <2>5 DEF Die
  <2>6. ASSUME UNCHANGED <<endpoint, streak>> PROVE <1>4
      BY <2>6 DEF TypeOK
  <2>. QED BY <2>1, <2>2, <2>3, <2>4, <2>5, <2>6
           DEF Next, Step, Call, Arrive, Publish, DeleteAll, InsertMany, UpsertMany, StartCalls, CallsDone, SyncNothing, SendNothing,
                PostAgain, SyncFails, Save, WriteBack, Find, Delete, CallFails
<1>5. left' \in 0..Accidents
  <2>1. Accident => left' \in 0..Accidents
      BY EventsAssumption DEF Accident, TypeOK
  <2>2. ASSUME UNCHANGED left PROVE left' \in 0..Accidents
      BY <2>2 DEF TypeOK
  <2>. QED BY <2>1, <2>2 DEF Next, Step, Call, Arrive, Publish, DeleteAll, InsertMany, UpsertMany, StartCalls, CallsDone, SyncNothing, SendNothing,
                Send, Delivered, GiveUp, PostAgain, SyncFails, Save, Die, WriteBack, Find, Delete, CallFails, Due,
                ConfigureWebhook, RemoveWebhook, ResetCircuit, SetEndpoint, InUse
<1>. QED BY <1>1, <1>2, <1>3, <1>4, <1>5 DEF TypeOK

-----------------------------------------------------------------------------
(* Where the handlers are. *)

LEMMA OnwardPlaced ==
    ASSUME IInv, NEW b \in Batches, handler[b].pc \notin {"expected", "done"}, Onward(b)
    PROVE  \A d \in Batches : Placed(d)'
<1>1. \A d \in Batches : Placed(d)
    BY DEF IInv, Told
<1>. QED BY <1>1, OnwardStep DEF Placed, OneUpsert, Section

LEMMA PlacedStep ==
    ASSUME IInv, Next
    PROVE  \A d \in Batches : Placed(d)'
<1>0. \A d \in Batches : Placed(d)
    BY DEF IInv, Told
<1>1. ASSUME NEW b \in Batches, NEW content \in Contents, Arrive(b, content) PROVE \A d \in Batches : Placed(d)'
  <2>1. OneUpsert(content)
      BY EventsAssumption DEF OneUpsert
  <2>. QED BY <1>0, <1>1, <2>1, ArriveStep DEF Placed, Section
<1>2. ASSUME NEW b \in Batches, Step(b) \/ SyncFails(b) PROVE \A d \in Batches : Placed(d)'
  <2>1. CASE DeleteAll(b) \/ StartCalls(b)
    <3>1. PICK p \in {"insert", "calls"} : /\ Stay(b, p) /\ At(b, "section")
                                           /\ p = "insert" => Section(b).kind \in FullSync
                                           /\ p = "calls" => Section(b).kind \in Partial
        BY <2>1 DEF DeleteAll, StartCalls, Partial
    <3>2. /\ handler'[b] = [handler[b] EXCEPT !.pc = p]
          /\ \A d \in Batches \ {b} : handler'[d] = handler[d]
          /\ handler[b] \in Handler
        BY <3>1, StayKinds DEF IInv, Sound, TypeOK
    <3>3. handler'[b].pc = p /\ handler'[b].content = handler[b].content /\ handler'[b].i = handler[b].i
        BY <3>2 DEF Handler
    <3>4. handler[b].pc \notin {"expected", "done"}
        BY <3>1 DEF At
    <3>5. Placed(b)'
        BY <1>0, <3>1, <3>3, <3>4 DEF Placed, Section
    <3>. QED BY <1>0, <3>2, <3>5 DEF Placed, Section
  <2>2. CASE Send(b) \/ PostAgain(b)
    <3>1. /\ \A d \in Batches : handler'[d].content = handler[d].content /\ handler'[d].i = handler[d].i
          /\ \A d \in Batches \ {b} : handler'[d].pc = handler[d].pc
          /\ handler[b].pc \notin {"expected", "done"}
        BY <2>2, PlaceStep DEF Send, PostAgain, At, IInv, Sound, TypeOK
    <3>2. handler'[b].pc = "post"
        BY <2>2 DEF Send, PostAgain, At, IInv, Sound, TypeOK, Handler
    <3>. QED BY <1>0, <3>1, <3>2 DEF Placed, Section
  <2>3. CASE Publish(b) \/ InsertMany(b) \/ UpsertMany(b) \/ CallsDone(b) \/ SyncNothing(b) \/ SendNothing(b) \/ Delivered(b) \/ GiveUp(b)
             \/ SyncFails(b)
    <3>1. handler[b].pc \notin {"expected", "done"} /\ Onward(b)
        BY <2>3 DEF Publish, InsertMany, UpsertMany, CallsDone, SyncNothing, SendNothing, Delivered, GiveUp, SyncFails, At
    <3>. QED BY <3>1, OnwardPlaced
  <2>. QED BY <1>2, <2>1, <2>2, <2>3 DEF Step
<1>3. ASSUME UNCHANGED handler PROVE \A d \in Batches : Placed(d)'
    BY <1>0, <1>3 DEF Placed, Section
<1>4. ASSUME NEW k \in saving, Save(k[1], k[2]) \/ Die(k[1], k[2]) PROVE \A d \in Batches : Placed(d)'
  <2>1. CASE Die(k[1], k[2])
      BY <1>0, <2>1, DieStep DEF Placed, OneUpsert, Section
  <2>. QED BY <1>3, <1>4, <2>1 DEF Save
<1>5. ASSUME NEW k \in calls, Call(k) \/ CallFails(k) PROVE \A d \in Batches : Placed(d)'
  <2>1. CASE CallFails(k) /\ handler' # handler
    <3>1. k.batch \in Batches /\ handler[k.batch].pc = "calls" /\ Onward(k.batch)
        BY <2>1 DEF CallFails, At, IInv, Sound, TypeOK, PartialCall
    <3>. QED BY <3>1, OnwardPlaced
  <2>. QED BY <1>3, <1>5, <2>1 DEF Call, Find, WriteBack, Delete
<1>6. ASSUME ConfigureWebhook \/ RemoveWebhook \/ ResetCircuit PROVE \A d \in Batches : Placed(d)'
  <2>1. ASSUME NEW d \in Batches
        PROVE handler'[d].content = handler[d].content /\ handler'[d].i = handler[d].i /\ handler'[d].pc = handler[d].pc
    <3>1. PICK kept \in BOOLEAN :
              handler'[d] = [handler[d] EXCEPT !.own = IF kept \/ handler[d].pc # "post" THEN @ ELSE FALSE]
        BY <1>6 DEF ConfigureWebhook, RemoveWebhook, ResetCircuit, SetEndpoint
    <3>. QED BY <3>1 DEF IInv, Sound, TypeOK, Handler
  <2>. QED BY <1>0, <2>1 DEF Placed, Section
<1>7. CASE Due
    BY <1>7, <1>3 DEF Due
<1>. QED BY <1>1, <1>2, <1>4, <1>5, <1>6, <1>7 DEF Next

LEMMA PostingStep ==
    ASSUME IInv, Next
    PROVE  Posting'
<1>. USE EventsAssumption DEF IInv, Sound
<1>0. handler \in [Batches -> Handler] /\ Posting /\ endpoint \in Breaker \cup {None}
    BY DEF TypeOK, Told
<1>1. ASSUME NEW b \in Batches, handler'[b].pc # "post" \/ endpoint' # None,
             \A d \in Batches \ {b} : handler'[d] = handler[d],
             endpoint # None => endpoint' # None
      PROVE  Posting'
    BY <1>0, <1>1 DEF Posting, At
<1>2. ASSUME NEW b \in Batches, NEW content \in Contents, Arrive(b, content) PROVE Posting'
  <2>1. UNCHANGED endpoint
      BY <1>2 DEF Arrive
  <2>. QED BY <1>1, <1>2, <2>1, ArriveStep
<1>3. ASSUME NEW b \in Batches, handler[b].pc \notin {"expected", "done"}, Onward(b), endpoint # None => endpoint' # None
      PROVE  Posting'
    BY <1>1, <1>3, OnwardStep
<1>4. ASSUME NEW b \in Batches, Step(b) \/ SyncFails(b) PROVE Posting'
  <2>1. CASE DeleteAll(b) \/ StartCalls(b)
    <3>1. PICK p \in {"insert", "calls"} : Stay(b, p) /\ UNCHANGED endpoint
        BY <2>1 DEF DeleteAll, StartCalls
    <3>2. handler'[b] = [handler[b] EXCEPT !.pc = p] /\ \A d \in Batches \ {b} : handler'[d] = handler[d]
        BY <3>1, StayKinds
    <3>3. handler'[b].pc # "post"
        BY <3>2, <1>0 DEF Handler
    <3>. QED BY <1>1, <3>1, <3>2, <3>3
  <2>2. CASE Send(b)
    <3>1. endpoint \in Breaker
        BY <2>2, <1>0 DEF Send
    <3>2. endpoint' # None
        BY <2>2, <3>1, BreakerKinds DEF Send
    <3>3. \A d \in Batches \ {b} : handler'[d] = handler[d]
        BY <2>2, <1>0 DEF Send
    <3>. QED BY <1>1, <3>2, <3>3
  <2>3. CASE PostAgain(b)
    <3>1. handler'[b].own = handler[b].own /\ handler'[b].pc = "post" /\ \A d \in Batches \ {b} : handler'[d] = handler[d]
        BY <2>3, <1>0 DEF PostAgain, At, Handler
    <3>2. handler[b].pc = "post" /\ UNCHANGED endpoint
        BY <2>3 DEF PostAgain, At
    <3>. QED BY <1>0, <3>1, <3>2 DEF Posting, At
  <2>4. CASE Delivered(b) \/ GiveUp(b)
    <3>1. handler[b].own => endpoint \in Breaker
        BY <2>4, <1>0 DEF Delivered, GiveUp, At, Posting
    <3>2. handler[b].own => OnSuccess(endpoint) # None /\ OnFailure(endpoint) # None
        BY <3>1, BreakerKinds
    <3>3. handler[b].pc \notin {"expected", "done"} /\ Onward(b) /\ (endpoint # None => endpoint' # None)
        BY <2>4, <3>2 DEF Delivered, GiveUp, At
    <3>. QED BY <1>3, <3>3
  <2>5. CASE Publish(b) \/ InsertMany(b) \/ UpsertMany(b) \/ CallsDone(b) \/ SyncNothing(b) \/ SendNothing(b) \/ SyncFails(b)
    <3>1. handler[b].pc \notin {"expected", "done"} /\ Onward(b) /\ UNCHANGED endpoint
        BY <2>5 DEF Publish, InsertMany, UpsertMany, CallsDone, SyncNothing, SendNothing, SyncFails, At
    <3>. QED BY <3>1, <1>3
  <2>. QED BY <1>4, <2>1, <2>2, <2>3, <2>4, <2>5 DEF Step
<1>5. ASSUME UNCHANGED handler, endpoint # None => endpoint' # None PROVE Posting'
    BY <1>0, <1>5 DEF Posting, At
<1>6. ASSUME NEW k \in saving, Save(k[1], k[2]) \/ Die(k[1], k[2]) PROVE Posting'
  <2>1. CASE Die(k[1], k[2])
      BY <2>1, DieStep DEF Posting, At
  <2>2. CASE Save(k[1], k[2])
      BY <2>2, <1>5 DEF Save
  <2>. QED BY <1>6, <2>1, <2>2
<1>7. ASSUME NEW k \in calls, Call(k) \/ CallFails(k) PROVE Posting'
  <2>0. UNCHANGED endpoint
      BY <1>7 DEF Call, Find, WriteBack, Delete, CallFails
  <2>1. CASE CallFails(k) /\ handler' # handler
    <3>1. k.batch \in Batches /\ handler[k.batch].pc = "calls" /\ Onward(k.batch)
        BY <2>1 DEF CallFails, At, TypeOK, PartialCall
    <3>. QED BY <2>0, <3>1, <1>3
  <2>. QED BY <2>0, <1>5, <1>7, <2>1 DEF Call, Find, WriteBack, Delete
<1>8. CASE Due
  <2>1. endpoint \in Breaker /\ endpoint' = [endpoint EXCEPT !.due = TRUE] /\ UNCHANGED handler
      BY <1>8, <1>0 DEF Due
  <2>2. endpoint' # None
      BY <2>1, BreakerKinds
  <2>. QED BY <1>5, <2>1, <2>2
<1>9. ASSUME NEW new \in {NewBreaker, None}, NEW kept \in BOOLEAN, SetEndpoint(new, kept), kept => new # None
      PROVE Posting'
  <2>1. ASSUME NEW d \in Batches
        PROVE  handler'[d].pc = "post" /\ handler'[d].own => kept
    <3>1. handler'[d] = [handler[d] EXCEPT !.own = IF kept \/ handler[d].pc # "post" THEN handler[d].own ELSE FALSE]
        BY <1>9 DEF SetEndpoint
    <3>2. handler[d] \in Handler
        BY <1>0
    <3>. QED BY <3>1, <3>2 DEF Handler
  <2>. QED BY <1>9, <2>1 DEF Posting, At, SetEndpoint
<1>10. NewBreaker # None
    BY BreakerKinds
<1>. QED BY <1>2, <1>4, <1>6, <1>7, <1>8, <1>9, <1>10 DEF Next, ConfigureWebhook, RemoveWebhook, ResetCircuit, Reset

(* The counters of the breaker. *)
LEMMA BreakerSteps ==
    ASSUME NEW b \in Breaker, NEW n \in Nat, b.failures = n, b.state = "CLOSED" => b.failures < FailureThreshold,
           b.successes < SuccessThreshold
    PROVE  /\ Enter(b).failures = n /\ Enter(b).successes < SuccessThreshold
           /\ Enter(b).state = "CLOSED" => n < FailureThreshold
           /\ OnSuccess(b).failures = 0 /\ OnSuccess(b).successes < SuccessThreshold
           /\ OnFailure(b).failures = n + 1 /\ OnFailure(b).successes < SuccessThreshold
           /\ OnFailure(b).state = "CLOSED" => n + 1 < FailureThreshold
<1>1. /\ Enter(b).failures = n /\ Enter(b).successes < SuccessThreshold
      /\ Enter(b).state = "CLOSED" => n < FailureThreshold
    BY DEF Enter, Breaker
<1>2. OnSuccess(b).failures = 0 /\ OnSuccess(b).successes < SuccessThreshold
  <2>. DEFINE calm == [b EXCEPT !.failures = 0]
              closed == [calm EXCEPT !.state = "CLOSED", !.successes = 0]
              counted == [calm EXCEPT !.successes = calm.successes + 1]
  <2>1. calm \in Breaker /\ calm.failures = 0 /\ calm.successes = b.successes /\ b.successes + 1 \in Nat
      BY DEF Breaker
  <2>2. closed.failures = 0 /\ closed.successes = 0
      BY <2>1 DEF Breaker
  <2>3. counted.failures = 0 /\ counted.successes = b.successes + 1
      BY <2>1 DEF Breaker
  <2>4. OnSuccess(b) = IF b.state # "HALF_OPEN" THEN calm
                       ELSE IF b.successes + 1 >= SuccessThreshold THEN closed ELSE counted
      BY DEF OnSuccess
  <2>. HIDE DEF calm, closed, counted
  <2>. QED BY <2>1, <2>2, <2>3, <2>4, ThresholdsAssumption
<1>3. /\ OnFailure(b).failures = n + 1 /\ OnFailure(b).successes < SuccessThreshold
      /\ OnFailure(b).state = "CLOSED" => n + 1 < FailureThreshold
  <2>. DEFINE counted == [b EXCEPT !.failures = b.failures + 1, !.successes = 0]
              opened == [counted EXCEPT !.state = "OPEN", !.due = FALSE]
  <2>0. b.failures + 1 \in Nat /\ b.failures = n
      OBVIOUS
  <2>1. counted \in Breaker /\ counted.failures = n + 1 /\ counted.successes = 0
      BY <2>0 DEF Breaker
  <2>2. opened.failures = n + 1 /\ opened.successes = 0 /\ opened.state = "OPEN"
      BY <2>1 DEF Breaker
  <2>3. OnFailure(b) = IF counted.failures >= FailureThreshold THEN opened ELSE counted
      BY DEF OnFailure
  <2>. HIDE DEF counted, opened
  <2>. QED BY <2>1, <2>2, <2>3, ThresholdsAssumption
<1>. QED BY <1>1, <1>2, <1>3

Exact(e, n) ==
    /\ e.failures = n
    /\ e.state = "CLOSED" => e.failures < FailureThreshold
    /\ e.successes < SuccessThreshold

LEMMA BreakerStep ==
    ASSUME IInv, Next
    PROVE  BreakerExact'
<1>. USE DEF IInv, Sound
<1>0. endpoint # None => endpoint \in Breaker /\ Exact(endpoint, streak)
    BY DEF TypeOK, BreakerExact, Exact
<1>1. SUFFICES endpoint' # None => Exact(endpoint', streak')
    BY DEF BreakerExact, Exact
<1>2. ASSUME NEW b \in Batches, Send(b) PROVE Exact(endpoint', streak')
  <2>1. endpoint \in Breaker /\ endpoint' = Enter(endpoint) /\ streak' = streak /\ streak \in Nat
      BY <1>2, <1>0 DEF Send, TypeOK
  <2>2. /\ endpoint.failures = streak /\ endpoint.successes < SuccessThreshold
        /\ endpoint.state = "CLOSED" => endpoint.failures < FailureThreshold
      BY <1>0, <2>1, EventsAssumption DEF Exact
  <2>3. /\ Enter(endpoint).failures = streak /\ Enter(endpoint).successes < SuccessThreshold
        /\ Enter(endpoint).state = "CLOSED" => streak < FailureThreshold
      BY <2>1, <2>2, BreakerSteps
  <2>. QED BY <2>1, <2>3 DEF Exact
<1>3. ASSUME NEW b \in Batches, Delivered(b) \/ GiveUp(b), endpoint' # None PROVE Exact(endpoint', streak')
  <2>1. CASE ~handler[b].own
      BY <1>0, <1>3, <2>1 DEF Delivered, GiveUp
  <2>2. CASE handler[b].own
    <3>1. endpoint \in Breaker /\ streak \in Nat
        BY <1>3, <1>0, <2>2 DEF Delivered, GiveUp, At, Told, Posting, TypeOK
    <3>2. /\ OnSuccess(endpoint).failures = 0 /\ OnSuccess(endpoint).successes < SuccessThreshold
          /\ OnFailure(endpoint).failures = streak + 1 /\ OnFailure(endpoint).successes < SuccessThreshold
          /\ OnFailure(endpoint).state = "CLOSED" => streak + 1 < FailureThreshold
      <4>1. /\ endpoint.failures = streak /\ endpoint.successes < SuccessThreshold
            /\ endpoint.state = "CLOSED" => endpoint.failures < FailureThreshold
          BY <1>0, <3>1, EventsAssumption DEF Exact
      <4>. QED BY <3>1, <4>1, BreakerSteps
    <3>3. \/ endpoint' = OnSuccess(endpoint) /\ streak' = 0
          \/ endpoint' = OnFailure(endpoint) /\ streak' = streak + 1
        BY <1>3, <2>2 DEF Delivered, GiveUp
    <3>. QED BY <3>2, <3>3, ThresholdsAssumption DEF Exact
  <2>. QED BY <2>1, <2>2
<1>4. ASSUME Due PROVE Exact(endpoint', streak')
  <2>1. endpoint \in Breaker /\ endpoint' = [endpoint EXCEPT !.due = TRUE] /\ streak' = streak
      BY <1>4, <1>0 DEF Due, history
  <2>2. endpoint'.failures = endpoint.failures /\ endpoint'.state = endpoint.state /\ endpoint'.successes = endpoint.successes
      BY <2>1 DEF Breaker
  <2>3. endpoint # None
      BY <2>1, EventsAssumption
  <2>. QED BY <1>0, <2>1, <2>2, <2>3 DEF Exact
<1>5. ASSUME ConfigureWebhook \/ RemoveWebhook \/ ResetCircuit, endpoint' # None PROVE Exact(endpoint', streak')
  <2>1. endpoint' = NewBreaker /\ streak' = 0
      BY <1>5 DEF ConfigureWebhook, RemoveWebhook, ResetCircuit, SetEndpoint, Reset
  <2>. QED BY <2>1, ThresholdsAssumption DEF NewBreaker, Exact
<1>6. ASSUME NEW b, NEW payload, Die(b, payload) PROVE endpoint' = None
    BY <1>6 DEF Die
<1>7. ASSUME UNCHANGED <<endpoint, streak>>, endpoint' # None PROVE Exact(endpoint', streak')
    BY <1>0, <1>7
<1>. QED BY <1>2, <1>3, <1>4, <1>5, <1>6, <1>7
         DEF Next, Step, Call, Arrive, Publish, DeleteAll, InsertMany, UpsertMany, StartCalls, CallsDone, SyncNothing, SendNothing,
             PostAgain, SyncFails, Save, WriteBack, Find, Delete, CallFails

-----------------------------------------------------------------------------
(* Which messages are stored. *)

LEMMA ReadBeforeStep ==
    ASSUME IInv, Next
    PROVE  ReadBefore'
<1>. USE DEF IInv, Sound
<1>0. ReadBefore
    BY DEF Told
<1>1. ASSUME NEW b \in Batches, StartCalls(b) PROVE ReadBefore'
    BY <1>0, <1>1 DEF StartCalls, ReadBefore
<1>2. ASSUME NEW k \in calls, Find(k) PROVE ReadBefore'
  <2>1. chats[k.chat] # None => [k EXCEPT !.step = "write", !.seen = chats[k.chat]].seen # None
      BY DEF TypeOK, PartialCall
  <2>. QED BY <1>0, <1>2, <2>1 DEF Find, ReadBefore
<1>3. ASSUME calls' \subseteq calls PROVE ReadBefore'
    BY <1>0, <1>3 DEF ReadBefore
<1>. QED BY <1>1, <1>2, <1>3
         DEF Next, Step, Call, Arrive, Publish, DeleteAll, InsertMany, UpsertMany, CallsDone, SyncNothing, SendNothing,
             Send, Delivered, PostAgain, GiveUp, SyncFails, Save, Die, WriteBack, Delete, CallFails, Due,
             ConfigureWebhook, RemoveWebhook, ResetCircuit, SetEndpoint

(* Messages come only with the section that publishes them. *)
LEMMA HeardStep ==
    ASSUME IInv, Next
    PROVE  \/ heard' = heard
           \/ \E b \in Batches : Publish(b)
BY DEF Next, Step, Call, Arrive, DeleteAll, InsertMany, UpsertMany, StartCalls, CallsDone, SyncNothing, SendNothing,
       Send, Delivered, PostAgain, GiveUp, SyncFails, Save, Die, Find, WriteBack, Delete, CallFails, Due,
       ConfigureWebhook, RemoveWebhook, ResetCircuit, SetEndpoint, history, Note

LEMMA PublishStep ==
    ASSUME IInv, NEW b \in Batches, Publish(b)
    PROVE  /\ \E new : /\ saving' = saving \cup new /\ heard' = heard \cup new
                       /\ \A k \in new : k[1] = b
           /\ \A k \in heard : k[1] # b
           /\ \A j \in DOMAIN handler'[b].content : j >= handler'[b].i => handler'[b].content[j].kind # "messages.upsert"
           /\ handler'[b].pc # "expected"
           /\ messages' = messages /\ left' = left
<1>. DEFINE h == handler[b]
            taken == {w \in Section(b).messages : Section(b).type = "notify" /\ Has(w, "message") /\ Payload[w] # None}
            new   == {<<b, Payload[w]>> : w \in taken}
<1>1. h.pc = "section" /\ h.content[h.i].kind = "messages.upsert" /\ Onward(b)
    BY DEF Publish, At, Section
<1>2. h.i \in DOMAIN h.content /\ OneUpsert(h.content) /\ h \in Handler
    BY <1>1, WorkingHere DEF IInv, Sound, TypeOK, Told, Placed
<1>3. \A k \in heard : k[1] # b
    BY <1>1, <1>2 DEF IInv, Told, PublishedOnce, Handler
<1>4. \A j \in DOMAIN handler'[b].content : j >= handler'[b].i => handler'[b].content[j].kind # "messages.upsert"
  <2>1. h.i \in Nat
      BY <1>2 DEF Handler
  <2>2. \/ handler'[b].content = <<>>
        \/ handler'[b].content = h.content /\ handler'[b].i = h.i + 1
      BY <1>1, OnwardStep
  <2>3. DOMAIN h.content \subseteq Nat
      BY <1>2 DEF Handler
  <2>. QED BY <1>1, <1>2, <2>1, <2>2, <2>3 DEF OneUpsert
<1>5. saving' = saving \cup new /\ heard' = heard \cup new
    BY DEF Publish
<1>6. \A k \in new : k[1] = b
    OBVIOUS
<1>7. handler'[b].pc # "expected"
    BY <1>1, OnwardStep
<1>. HIDE DEF new
<1>. QED BY <1>3, <1>4, <1>5, <1>6, <1>7 DEF Publish

LEMMA PublishedOnceStep ==
    ASSUME IInv, Next
    PROVE  PublishedOnce'
<1>0. /\ \A k \in heard : k[1] \in Batches
      /\ PublishedOnce
      /\ handler \in [Batches -> Handler] /\ handler' \in [Batches -> Handler] /\ \A d \in Batches : GoesOn(d)
    BY HandlersStep DEF IInv, Sound, TypeOK, Told
<1>1. ASSUME NEW k \in heard
      PROVE  /\ handler'[k[1]].pc # "expected"
             /\ \A j \in DOMAIN handler'[k[1]].content :
                   j >= handler'[k[1]].i => handler'[k[1]].content[j].kind # "messages.upsert"
  <2>. DEFINE d == k[1]
  <2>1. d \in Batches /\ GoesOn(d) /\ handler[d] \in Handler /\ handler'[d] \in Handler
      BY <1>0
  <2>2. /\ handler[d].pc # "expected"
        /\ \A j \in DOMAIN handler[d].content : j >= handler[d].i => handler[d].content[j].kind # "messages.upsert"
      BY <1>0 DEF PublishedOnce
  <2>3. /\ handler'[d].pc # "expected"
        /\ \/ handler'[d].content = <<>>
           \/ handler'[d].content = handler[d].content /\ handler'[d].i >= handler[d].i
      BY <2>1, <2>2 DEF GoesOn
  <2>4. handler[d].i \in Nat /\ handler'[d].i \in Nat /\ DOMAIN handler[d].content \subseteq Nat
      BY <2>1 DEF Handler
  <2>. HIDE DEF d
  <2>5. CASE handler'[d].content = <<>>
      BY <2>3, <2>5 DEF d
  <2>6. CASE handler'[d].content = handler[d].content /\ handler'[d].i >= handler[d].i
      BY <2>2, <2>3, <2>4, <2>6 DEF d
  <2>. QED BY <2>3, <2>5, <2>6
<1>2. CASE heard' = heard
    BY <1>1, <1>2 DEF PublishedOnce
<1>3. ASSUME NEW b \in Batches, Publish(b) PROVE PublishedOnce'
  <2>1. PICK new : heard' = heard \cup new /\ \A k \in new : k[1] = b
      BY <1>3, PublishStep
  <2>2. /\ handler'[b].pc # "expected"
        /\ \A j \in DOMAIN handler'[b].content : j >= handler'[b].i => handler'[b].content[j].kind # "messages.upsert"
      BY <1>3, PublishStep
  <2>. QED BY <1>1, <2>1, <2>2 DEF PublishedOnce
<1>. QED BY <1>2, <1>3, HeardStep

LEMMA StoredOnceStep ==
    ASSUME IInv, Next
    PROVE  StoredOnce'
<1>0. StoredOnce /\ saving \subseteq heard
    BY DEF IInv, Sound, TypeOK, Told
<1>1. ASSUME NEW b \in Batches, Publish(b) PROVE StoredOnce'
  <2>1. PICK new : saving' = saving \cup new /\ heard' = heard \cup new /\ \A k \in new : k[1] = b
      BY <1>1, PublishStep
  <2>2. messages' = messages /\ \A k \in heard : k[1] # b
      BY <1>1, PublishStep
  <2>. QED BY <1>0, <2>1, <2>2 DEF StoredOnce
<1>2. ASSUME NEW k \in saving, Save(k[1], k[2]) PROVE StoredOnce'
  <2>. DEFINE p == <<k[1], k[2]>>
  <2>1. p \in saving /\ messages' = messages \cup {k[2]} /\ saving' = saving \ {p} /\ heard' = heard /\ p[2] = k[2]
      BY <1>2 DEF Save, history
  <2>2. p \in heard' \ saving'
      BY <2>1, <1>0
  <2>. HIDE DEF p
  <2>. QED BY <1>0, <2>1, <2>2 DEF StoredOnce
<1>3. ASSUME heard' = heard, saving' \subseteq saving, messages' = messages PROVE StoredOnce'
    BY <1>0, <1>3 DEF StoredOnce
<1>. QED BY <1>1, <1>2, <1>3 DEF Next, Step, Call, Arrive, DeleteAll, InsertMany, UpsertMany, StartCalls, CallsDone, SyncNothing, SendNothing,
             Send, Delivered, PostAgain, GiveUp, SyncFails, Die, Find, WriteBack, Delete, CallFails, Due,
             ConfigureWebhook, RemoveWebhook, ResetCircuit, SetEndpoint, history, Note

LEMMA NoMessageLostStep ==
    ASSUME IInv, Next
    PROVE  NoMessageLost'
<1>0. /\ NoMessageLost /\ StoredOnce /\ saving \subseteq heard
      /\ left \in 0..Accidents /\ left' \in 0..Accidents
    BY TypeStep DEF IInv, Sound, TypeOK, Told
<1>1. heard \subseteq heard'
  <2>1. ASSUME NEW b \in Batches, Publish(b) PROVE heard \subseteq heard'
      BY <2>1, PublishStep
  <2>. QED BY <2>1, HeardStep
<1>2. left' \in {left, left - 1}
    BY DEF Next, Step, Call, Arrive, Publish, DeleteAll, InsertMany, UpsertMany, StartCalls, CallsDone, SyncNothing, SendNothing,
           Send, Delivered, GiveUp, PostAgain, SyncFails, Save, Die, WriteBack, Find, Delete, CallFails, Due,
           ConfigureWebhook, RemoveWebhook, ResetCircuit, SetEndpoint, InUse, Accident
<1>3. left < Accidents => NoMessageLost'
    BY <1>0, <1>2, EventsAssumption DEF NoMessageLost
<1>4. (\E k \in heard : ~MessageSchema(k[2])) => NoMessageLost'
    BY <1>1 DEF NoMessageLost
<1>5. (\E k, l \in heard : k # l /\ k[2].messageId = l[2].messageId) => NoMessageLost'
    BY <1>1 DEF NoMessageLost
<1>6. ASSUME \A k \in heard : k \in saving \/ k[2] \in messages
      PROVE  NoMessageLost'
  <2>1. ASSUME NEW b \in Batches, Publish(b) PROVE NoMessageLost'
    <3>1. PICK new : saving' = saving \cup new /\ heard' = heard \cup new
        BY <2>1, PublishStep
    <3>2. messages' = messages
        BY <2>1, PublishStep
    <3>. QED BY <1>6, <3>1, <3>2 DEF NoMessageLost
  <2>2. ASSUME NEW k \in saving, Save(k[1], k[2]) PROVE NoMessageLost'
    <3>. DEFINE p == <<k[1], k[2]>>
    <3>1. messages' = messages \cup {k[2]} /\ saving' = saving \ {p} /\ heard' = heard /\ p[2] = k[2]
        BY <2>2 DEF Save, history
    <3>. HIDE DEF p
    <3>. QED BY <1>6, <3>1 DEF NoMessageLost
  <2>3. ASSUME NEW k \in saving, Die(k[1], k[2]) PROVE NoMessageLost'
    <3>. DEFINE p == <<k[1], k[2]>>
    <3>1. p \in saving /\ p[2] = k[2]
        BY <2>3 DEF Die
    <3>2. CASE MessageSchema(k[2]) /\ ~IsStored(k[2])
      <4>1. left > 0 /\ left' = left - 1
          BY <2>3, <3>2 DEF Die, Accident
      <4>. QED BY <4>1, <1>0, EventsAssumption DEF NoMessageLost
    <3>3. CASE ~MessageSchema(k[2])
        BY <3>1, <3>3, <1>0, <1>4
    <3>4. CASE IsStored(k[2])
      <4>1. PICK d \in messages : d.messageId = k[2].messageId
          BY <3>4 DEF IsStored
      <4>2. PICK l \in heard \ saving : l[2] = d
          BY <4>1, <1>0 DEF StoredOnce
      <4>3. p \in heard /\ l \in heard /\ p # l /\ p[2].messageId = l[2].messageId
          BY <3>1, <4>1, <4>2, <1>0
      <4>. HIDE DEF p
      <4>. QED BY <4>3, <1>5
    <3>. QED BY <3>2, <3>3, <3>4
  <2>4. ASSUME heard' = heard, saving' = saving, messages' = messages PROVE NoMessageLost'
      BY <1>6, <2>4 DEF NoMessageLost
  <2>. QED BY <2>1, <2>2, <2>3, <2>4
           DEF Next, Step, Call, Arrive, DeleteAll, InsertMany, UpsertMany, StartCalls, CallsDone, SyncNothing, SendNothing,
               Send, Delivered, PostAgain, GiveUp, SyncFails, Find, WriteBack, Delete, CallFails, Due,
               ConfigureWebhook, RemoveWebhook, ResetCircuit, SetEndpoint, history, Note
<1>. QED BY <1>0, <1>3, <1>4, <1>5, <1>6 DEF NoMessageLost

LEMMA Stutter ==
    ASSUME IInv, UNCHANGED vars
    PROVE  IInv'
BY DEF IInv, Sound, TypeOK, BreakerExact, NoMessageLost, Told, Placed, Section, Posting, At, ReadBefore, PublishedOnce, StoredOnce,
       vars

LEMMA InvStep == IInv /\ [Next]_vars => IInv'
<1>. SUFFICES ASSUME IInv, Next PROVE IInv'
    BY Stutter
<1>1. TypeOK' /\ BreakerExact' /\ NoMessageLost'
    BY TypeStep, BreakerStep, NoMessageLostStep
<1>2. Told'
    BY PlacedStep, PostingStep, ReadBeforeStep, PublishedOnceStep, StoredOnceStep DEF Told
<1>. QED BY <1>1, <1>2 DEF IInv, Sound

(* Where handlers, calls, messages and the breaker can be. *)
THEOREM EventsInvariant == Spec => []IInv
<1>1. Init => IInv
    BY InitHolds DEF CInv
<1>. QED BY <1>1, InvStep, PTL DEF Spec

(* Whatever calls of the breaker overlap, its counters are exact, and a    *)
(* message that was published is stored or on its way unless the process   *)
(* died.                                                                   *)
THEOREM EventsAreSound == Spec => []Sound
<1>1. IInv => Sound
    BY DEF IInv
<1>. QED BY <1>1, EventsInvariant, PTL

-----------------------------------------------------------------------------
(* What brings a chat into the database. *)

LEMMA AppearsStep ==
    ASSUME IInv, Next, NEW c \in Chats, chats[c] = None, chats'[c] # None
    PROVE  \E b \in Batches : /\ handler[b].pc \in {"section", "insert"}
                              /\ Section(b).kind \in FullSync \cup {"chats.upsert"}
                              /\ c \in Section(b).chats
                              /\ chats'[c] = New(b)
<1>. USE DEF IInv, Sound
<1>0. chats \in [Chats -> Chat \cup {None}] /\ calls \subseteq PartialCall
    BY DEF TypeOK
<1>1. ASSUME NEW b \in Batches, InsertMany(b) \/ UpsertMany(b)
      PROVE  /\ handler[b].pc \in {"section", "insert"} /\ Section(b).kind \in FullSync \cup {"chats.upsert"}
             /\ c \in Section(b).chats /\ chats'[c] = New(b)
    BY <1>1 DEF InsertMany, UpsertMany, At, Told, Placed
<1>2. ASSUME NEW k \in calls, WriteBack(k) \/ Delete(k) PROVE FALSE
  <2>1. chats' = [chats EXCEPT ![k.chat] = None] \/ chats' = [chats EXCEPT ![k.chat] = IF @ = None THEN None ELSE Updated(k.seen, k.fields, k.batch)]
      BY <1>2 DEF WriteBack, Delete
  <2>. QED BY <1>0, <2>1
<1>3. ASSUME NEW b \in Batches, DeleteAll(b) PROVE FALSE
    BY <1>3 DEF DeleteAll
<1>4. chats' # chats
    OBVIOUS
<1>. QED BY <1>1, <1>2, <1>3, <1>4
         DEF Next, Step, Call, Arrive, Publish, StartCalls, CallsDone, SyncNothing, SendNothing,
             Send, Delivered, GiveUp, PostAgain, SyncFails, Save, Die, Find, CallFails, Due,
             ConfigureWebhook, RemoveWebhook, ResetCircuit, SetEndpoint

(* A chat comes into the database only with a section that brings all of   *)
(* it: no partial update brings one back, whatever it interleaves with.    *)
THEOREM ChatsAppearByName == Spec => AppearsByName
<1>1. ASSUME IInv, [Next]_vars
      PROVE  [\A c \in Chats : chats[c] = None /\ chats'[c] # None =>
                 \E b \in Batches : /\ handler[b].pc \in {"section", "insert"}
                                    /\ Section(b).kind \in FullSync \cup {"chats.upsert"}
                                    /\ c \in Section(b).chats
                                    /\ chats'[c] = New(b)]_vars
    BY <1>1, AppearsStep
<1>. QED BY <1>1, EventsInvariant, PTL DEF Spec, AppearsByName

-----------------------------------------------------------------------------
(* What becomes of a chat that is not mixed. *)

Faithful(c) == Alone(c) /\ Leads(c)

LEMMA InsertsWork ==
    ASSUME IInv, NEW b \in Batches, NEW c \in Chats, At(b, "insert")
    PROVE  Works(b, c)
BY DEF IInv, Told, Placed, At, Works, Touched

LEMMA AtRest ==
    ASSUME IInv, NEW c \in Chats, Leads(c), ~InProgress(c)
    PROVE  /\ chats[c] = ideal[c]
           /\ \A k \in calls : k.chat # c
           /\ \A b \in Batches : ~Works(b, c) /\ ~At(b, "insert")
<1>1. \A k \in calls : k.chat # c
    BY DEF InProgress
<1>2. \A b \in Batches : ~Works(b, c)
    BY DEF InProgress, Works
<1>. QED BY <1>1, <1>2, InsertsWork DEF Leads

(* Nobody new works on the chat, and nothing is done to it. *)
LEMMA FewerWorkers ==
    ASSUME NEW c \in Chats, Faithful(c), chats'[c] = chats[c], ideal'[c] = ideal[c],
           \A k \in calls : k.chat = c => k \in calls',
           \A k \in calls' : k.chat = c => k \in calls,
           \A d \in Batches : \/ handler'[d].pc # "insert" /\ ~Works(d, c)'
                              \/ /\ handler'[d].pc = handler[d].pc /\ handler'[d].i = handler[d].i
                                 /\ handler'[d].content = handler[d].content,
           \A d \in Batches : At(d, "insert") => At(d, "insert")'
    PROVE  Faithful(c)'
<1>1. \A d \in Batches : Works(d, c)' => Works(d, c) /\ handler'[d].i = handler[d].i /\ handler'[d].pc = handler[d].pc
    BY DEF Works, Section
<1>2. \A d \in Batches : At(d, "insert")' => At(d, "insert") /\ Section(d)' = Section(d)
    BY DEF At, Section
<1>3. Alone(c)'
    BY <1>1 DEF Faithful, Alone
<1>4. Leads(c)'
    BY <1>2 DEF Faithful, Leads
<1>. QED BY <1>3, <1>4 DEF Faithful

LEMMA Elsewhere ==
    ASSUME UNCHANGED <<chats, ideal, mixed, calls>>,
           \A d \in Batches : \/ handler'[d].pc \notin {"insert", "calls"}
                              \/ /\ handler'[d].pc = handler[d].pc /\ handler'[d].i = handler[d].i
                                 /\ handler'[d].content = handler[d].content,
           \A d \in Batches : At(d, "insert") => At(d, "insert")',
           Followed
    PROVE  Followed'
<1>. SUFFICES ASSUME NEW c \in Chats \ mixed PROVE Faithful(c)'
    BY DEF Followed, Faithful
<1>1. Faithful(c)
    BY DEF Followed, Faithful
<1>2. \A d \in Batches : handler'[d].pc \notin {"insert", "calls"} => handler'[d].pc # "insert" /\ ~Works(d, c)'
    BY DEF Works
<1>. QED BY <1>1, <1>2, FewerWorkers

LEMMA DieFollowed ==
    ASSUME CInv, NEW b, NEW payload, Die(b, payload)
    PROVE  Followed'
<1>. SUFFICES ASSUME NEW c \in Chats \ mixed' PROVE Faithful(c)'
    BY DEF Followed, Faithful
<1>1. c \in Chats \ mixed /\ ~InProgress(c)
    BY DEF Die
<1>2. chats[c] = ideal[c]
    BY <1>1, AtRest DEF CInv, Followed
<1>3. \A d \in Batches : handler'[d].pc \notin {"insert", "calls"}
    BY DieStep DEF CInv
<1>4. calls' = {} /\ chats' = chats /\ ideal' = ideal
    BY DEF Die
<1>. QED BY <1>2, <1>3, <1>4 DEF Faithful, Alone, Leads, Works, At

(* Sections that end. *)
LEMMA OnwardFollowed ==
    ASSUME CInv, NEW b \in Batches, handler[b].pc \in {"section", "calls", "post"}, Onward(b),
           UNCHANGED <<chats, ideal, mixed, calls>>
    PROVE  Followed'
<1>1. /\ \A d \in Batches \ {b} : handler'[d] = handler[d]
      /\ handler'[b].pc \in {"done", "section"}
    BY OnwardStep DEF CInv
<1>. QED BY <1>1, Elsewhere DEF CInv, At

LEMMA InsertFollowed ==
    ASSUME CInv, NEW b \in Batches, InsertMany(b)
    PROVE  Followed'
<1>. SUFFICES ASSUME NEW c \in Chats \ mixed PROVE Faithful(c)'
    BY DEF Followed, Faithful, InsertMany, history
<1>1. Alone(c) /\ Leads(c) /\ IInv
    BY DEF CInv, Followed
<1>2. At(b, "insert") /\ Onward(b) /\ handler[b].pc = "insert"
    BY DEF InsertMany, At
<1>3. /\ \A d \in Batches \ {b} : handler'[d] = handler[d]
      /\ handler'[b].pc \in {"done", "section"}
    BY <1>1, <1>2, OnwardStep
<1>4. Works(b, c)
    BY <1>1, <1>2, InsertsWork
<1>5. \A k \in calls : k.chat # c
    BY <1>1, <1>2, <1>4 DEF Alone
<1>6. \A d \in Batches : ~Works(d, c)' /\ handler'[d].pc # "insert"
  <2>1. ASSUME NEW d \in Batches, d # b PROVE ~Works(d, c)' /\ handler'[d].pc # "insert"
    <3>1. ~Works(d, c)
        BY <1>1, <1>4, <2>1 DEF Alone
    <3>2. handler[d].pc # "insert"
        BY <3>1, <1>1, InsertsWork DEF At
    <3>. QED BY <3>1, <3>2, <2>1, <1>3 DEF Works, Section
  <2>. QED BY <2>1, <1>3 DEF Works
<1>7. chats'[c] = ideal[c] /\ ideal' = ideal /\ calls' = calls
    BY <1>1, <1>2 DEF InsertMany, history, Leads
<1>. QED BY <1>5, <1>6, <1>7 DEF Faithful, Alone, Leads, At

LEMMA SyncFailsFollowed ==
    ASSUME CInv, NEW b \in Batches, SyncFails(b)
    PROVE  Followed'
<1>. SUFFICES ASSUME NEW c \in Chats \ mixed' PROVE Faithful(c)'
    BY DEF Followed, Faithful
<1>1. c \in Chats \ mixed /\ c \notin Touched(Section(b)) /\ IInv
    BY DEF SyncFails, CInv
<1>2. Faithful(c)
    BY <1>1 DEF CInv, Followed, Faithful
<1>3. handler[b].pc = "section" /\ Onward(b)
    BY <1>1 DEF SyncFails, At, IInv, Told, Placed, Touched
<1>4. /\ \A d \in Batches \ {b} : handler'[d] = handler[d]
      /\ handler'[b].pc \in {"done", "section"}
    BY <1>1, <1>3, OnwardStep
<1>5. UNCHANGED <<chats, calls, ideal>>
    BY DEF SyncFails
<1>6. ~Works(b, c)'
    BY <1>4 DEF Works
<1>. QED BY <1>2, <1>3, <1>4, <1>5, <1>6, FewerWorkers DEF At

(* Sections that begin.  What they touch while something is in progress    *)
(* becomes mixed; the rest they find at rest.                              *)
LEMMA NoteKinds ==
    ASSUME CInv, NEW b \in Batches, At(b, "section"), Note(b), NEW c \in Chats \ mixed'
    PROVE  /\ ideal'[c] = Meant(Section(b), b, c)
           /\ \/ /\ c \notin Touched(Section(b)) /\ Faithful(c) /\ ideal'[c] = ideal[c]
              \/ /\ c \in Touched(Section(b))
                 /\ \A k \in calls : k.chat # c
                 /\ \A d \in Batches : ~Works(d, c)
                 /\ Section(b).kind \notin FullSync \cup {"chats.upsert"} => c \notin mixed /\ chats[c] = ideal[c]
<1>. DEFINE busy == {x \in Touched(Section(b)) : InProgress(x)}
            new == IF Section(b).kind \in FullSync \cup {"chats.upsert"} THEN Touched(Section(b)) \ busy ELSE {}
<1>0. ideal' = [x \in Chats |-> Meant(Section(b), b, x)] /\ mixed' = (mixed \ new) \cup busy
    BY DEF Note
<1>1. c \in Chats /\ ideal'[c] = Meant(Section(b), b, c)
    BY <1>0, Zenon
<1>2. CASE c \notin Touched(Section(b))
  <2>1. c \notin mixed
      BY <1>0, <1>2
  <2>2. Meant(Section(b), b, c) = ideal[c]
      BY <1>2 DEF Meant, Touched
  <2>. QED BY <1>1, <1>2, <2>1, <2>2 DEF CInv, Followed, Faithful
<1>3. CASE c \in Touched(Section(b))
  <2>1. ~InProgress(c)
      BY <1>0, <1>1, <1>3
  <2>2. (\A k \in calls : k.chat # c) /\ \A d \in Batches : ~Works(d, c)
      BY <2>1 DEF InProgress, Works
  <2>3. ASSUME Section(b).kind \notin FullSync \cup {"chats.upsert"} PROVE c \notin mixed /\ chats[c] = ideal[c]
    <3>1. c \notin mixed
        BY <1>0, <1>1, <2>3
    <3>. QED BY <3>1, <2>1, AtRest DEF CInv, Followed
  <2>. QED BY <1>1, <1>3, <2>2, <2>3
<1>. QED BY <1>2, <1>3

LEMMA DeleteAllFollowed ==
    ASSUME CInv, NEW b \in Batches, DeleteAll(b)
    PROVE  Followed'
<1>. SUFFICES ASSUME NEW c \in Chats \ mixed' PROVE Faithful(c)'
    BY DEF Followed, Faithful
<1>1. At(b, "section") /\ Note(b) /\ Stay(b, "insert") /\ Section(b).kind \in FullSync /\ IInv
    BY DEF DeleteAll, CInv
<1>2. /\ handler'[b] = [handler[b] EXCEPT !.pc = "insert"]
      /\ \A d \in Batches \ {b} : handler'[d] = handler[d]
      /\ handler[b] \in Handler
    BY <1>1, StayKinds DEF IInv, Sound, TypeOK
<1>3. handler'[b].pc = "insert" /\ handler'[b].content = handler[b].content /\ handler'[b].i = handler[b].i
    BY <1>2 DEF Handler
<1>4. c \in Touched(Section(b))
    BY <1>1 DEF Touched
<1>5. /\ \A k \in calls : k.chat # c
      /\ \A d \in Batches : ~Works(d, c)
      /\ ideal'[c] = Meant(Section(b), b, c)
    BY <1>1, <1>4, NoteKinds
<1>6. Section(b)' = Section(b) /\ \A d \in Batches \ {b} : Section(d)' = Section(d)
    BY <1>2, <1>3 DEF Section
<1>7. \A d \in Batches \ {b} : ~Works(d, c)' /\ handler'[d].pc # "insert"
  <2>1. ASSUME NEW d \in Batches \ {b} PROVE ~Works(d, c)' /\ handler'[d].pc # "insert"
    <3>1. handler[d].pc # "insert"
        BY <1>1, <1>5, InsertsWork DEF At
    <3>. QED BY <3>1, <1>5, <1>2, <1>6 DEF Works
  <2>. QED BY <2>1
<1>8. chats'[c] = None /\ calls' = calls
    BY DEF DeleteAll
<1>9. ideal'[c] = IF c \in Section(b).chats THEN New(b) ELSE None
    BY <1>1, <1>5 DEF Meant, FullSync
<1>. QED BY <1>3, <1>5, <1>6, <1>7, <1>8, <1>9 DEF Faithful, Alone, Leads, At

LEMMA UpsertFollowed ==
    ASSUME CInv, NEW b \in Batches, UpsertMany(b)
    PROVE  Followed'
<1>. SUFFICES ASSUME NEW c \in Chats \ mixed' PROVE Faithful(c)'
    BY DEF Followed, Faithful
<1>1. At(b, "section") /\ Note(b) /\ Onward(b) /\ Section(b).kind = "chats.upsert" /\ IInv /\ handler[b].pc = "section"
    BY DEF UpsertMany, CInv, At
<1>2. /\ \A d \in Batches \ {b} : handler'[d] = handler[d]
      /\ handler'[b].pc \in {"done", "section"}
    BY <1>1, OnwardStep
<1>3. Touched(Section(b)) = Section(b).chats
    BY <1>1 DEF Touched, FullSync
<1>4. calls' = calls /\ chats'[c] = IF c \in Section(b).chats THEN New(b) ELSE chats[c]
    BY DEF UpsertMany
<1>5. CASE c \notin Touched(Section(b))
  <2>1. Faithful(c) /\ ideal'[c] = ideal[c]
      BY <1>1, <1>5, NoteKinds
  <2>2. chats'[c] = chats[c]
      BY <1>3, <1>4, <1>5
  <2>3. ~Works(b, c)'
      BY <1>2 DEF Works
  <2>. QED BY <2>1, <2>2, <2>3, <1>1, <1>2, <1>4, FewerWorkers DEF At
<1>6. CASE c \in Touched(Section(b))
  <2>1. /\ \A k \in calls : k.chat # c
        /\ \A d \in Batches : ~Works(d, c)
        /\ ideal'[c] = Meant(Section(b), b, c)
      BY <1>1, <1>6, NoteKinds
  <2>2. ideal'[c] = New(b) /\ chats'[c] = New(b)
      BY <1>1, <1>3, <1>4, <1>6, <2>1 DEF Meant, FullSync
  <2>3. \A d \in Batches : ~Works(d, c)' /\ handler'[d].pc # "insert"
    <3>1. ASSUME NEW d \in Batches \ {b} PROVE ~Works(d, c)' /\ handler'[d].pc # "insert"
      <4>1. handler[d].pc # "insert"
          BY <1>1, <2>1, InsertsWork DEF At
      <4>. QED BY <4>1, <2>1, <1>2 DEF Works, Section
    <3>. QED BY <3>1, <1>2 DEF Works
  <2>. QED BY <1>4, <2>1, <2>2, <2>3 DEF Faithful, Alone, Leads, At
<1>. QED BY <1>5, <1>6

LEMMA StartCallsFollowed ==
    ASSUME CInv, NEW b \in Batches, StartCalls(b)
    PROVE  Followed'
<1>. SUFFICES ASSUME NEW c \in Chats \ mixed' PROVE Faithful(c)'
    BY DEF Followed, Faithful
<1>. DEFINE Of(x) == [batch |-> b, i |-> handler[b].i, chat |-> x, fields |-> Section(b).fields,
                      step |-> IF Section(b).kind = "chats.delete" THEN "delete" ELSE "find", seen |-> None]
<1>1. /\ At(b, "section") /\ Note(b) /\ Stay(b, "calls") /\ IInv /\ chats' = chats
      /\ Section(b).kind \in Partial
      /\ calls' = calls \cup {Of(x) : x \in Section(b).chats}
    BY DEF StartCalls, CInv, Partial
<1>2. /\ handler'[b] = [handler[b] EXCEPT !.pc = "calls"]
      /\ \A d \in Batches \ {b} : handler'[d] = handler[d]
      /\ handler[b] \in Handler
    BY <1>1, StayKinds DEF IInv, Sound, TypeOK
<1>3. handler'[b].pc = "calls" /\ handler'[b].content = handler[b].content /\ handler'[b].i = handler[b].i
    BY <1>2 DEF Handler
<1>4. Touched(Section(b)) = Section(b).chats /\ Section(b).kind \notin FullSync \cup {"chats.upsert"}
    BY <1>1 DEF Touched, FullSync, Partial
<1>5. \A d \in Batches : Section(d)' = Section(d)
    BY <1>2, <1>3 DEF Section
<1>6. \A x : /\ Of(x).chat = x /\ Of(x).batch = b /\ Of(x).i = handler[b].i /\ Of(x).fields = Section(b).fields
             /\ Of(x).step = IF Section(b).kind = "chats.delete" THEN "delete" ELSE "find"
    OBVIOUS
<1>. HIDE DEF Of
<1>7. CASE c \notin Touched(Section(b))
  <2>1. Faithful(c) /\ ideal'[c] = ideal[c]
      BY <1>1, <1>7, NoteKinds
  <2>2. \A k \in calls' : k.chat = c => k \in calls
      BY <1>1, <1>4, <1>6, <1>7
  <2>3. ~Works(b, c)'
      BY <1>5, <1>7 DEF Works
  <2>. QED BY <1>1, <1>2, <1>3, <2>1, <2>2, <2>3, FewerWorkers DEF At
<1>8. CASE c \in Touched(Section(b))
  <2>1. /\ \A k \in calls : k.chat # c
        /\ \A d \in Batches : ~Works(d, c)
        /\ ideal'[c] = Meant(Section(b), b, c)
        /\ chats[c] = ideal[c]
      BY <1>1, <1>4, <1>8, NoteKinds
  <2>2. \A d \in Batches : (d # b => ~Works(d, c)') /\ handler'[d].pc # "insert"
    <3>1. ASSUME NEW d \in Batches \ {b} PROVE ~Works(d, c)' /\ handler'[d].pc # "insert"
      <4>1. handler[d].pc # "insert"
          BY <1>1, <2>1, InsertsWork DEF At
      <4>. QED BY <4>1, <2>1, <1>2, <1>5 DEF Works
    <3>. QED BY <3>1, <1>3
  <2>3. Of(c) \in calls' /\ \A k \in calls' : k.chat = c => k = Of(c)
      BY <1>1, <1>4, <1>6, <1>8, <2>1
  <2>4. Alone(c)'
      BY <1>3, <1>6, <2>2, <2>3 DEF Alone
  <2>5. Of(c).step = "find" => ideal'[c] = IF chats[c] = None THEN None ELSE Updated(chats[c], Of(c).fields, Of(c).batch)
      BY <1>1, <1>4, <1>6, <1>8, <2>1 DEF Meant, Partial, FullSync
  <2>6. Of(c).step = "delete" => ideal'[c] = None
      BY <1>1, <1>4, <1>6, <1>8, <2>1 DEF Meant, Partial, FullSync
  <2>7. Of(c).step # "write"
      BY <1>6
  <2>8. Leads(c)'
      BY <1>1, <1>6, <2>2, <2>3, <2>5, <2>6, <2>7 DEF Leads, At
  <2>. QED BY <2>4, <2>8 DEF Faithful
<1>. QED BY <1>7, <1>8

(* Calls of applyPartialUpdate() and delete(): on a chat that is not mixed *)
(* the call is the only one, and nothing is being inserted.                *)
LEMMA OnlyCall ==
    ASSUME CInv, NEW k \in calls, k.chat \in Chats \ mixed
    PROVE  /\ \A l \in calls : l.chat = k.chat => l = k
           /\ \A d \in Batches : handler[d].pc # "insert"
<1>1. Alone(k.chat)
    BY DEF CInv, Followed
<1>2. ASSUME NEW d \in Batches, handler[d].pc = "insert" PROVE FALSE
  <2>1. Works(d, k.chat)
      BY <1>2, InsertsWork DEF CInv, At
  <2>. QED BY <1>1, <1>2, <2>1 DEF Alone
<1>. QED BY <1>1, <1>2 DEF Alone

LEMMA CallFollowed ==
    ASSUME CInv, NEW k \in calls, Call(k) \/ CallFails(k)
    PROVE  Followed'
<1>. SUFFICES ASSUME NEW c \in Chats \ mixed' PROVE Faithful(c)'
    BY DEF Followed, Faithful
<1>0. /\ IInv /\ chats \in [Chats -> Chat \cup {None}] /\ k.chat \in Chats /\ k \in PartialCall
      /\ \A l \in calls : l \in PartialCall
    BY DEF CInv, IInv, Sound, TypeOK, PartialCall
<1>1. c \in Chats \ mixed /\ Faithful(c) /\ ideal' = ideal
    BY DEF CInv, Followed, Faithful, Call, CallFails, Find, WriteBack, Delete, history
<1>2. CASE CallFails(k)
  <2>1. k.chat # c /\ chats' = chats /\ calls' = calls \ {k}
      BY <1>2 DEF CallFails
  <2>2. ASSUME NEW d \in Batches
        PROVE  /\ \/ handler'[d].pc \in {"done", "section"}
                  \/ handler'[d] = handler[d]
               /\ At(d, "insert") => At(d, "insert")'
    <3>1. CASE handler' = handler
        BY <3>1 DEF At
    <3>2. CASE handler' # handler
      <4>1. k.batch \in Batches /\ handler[k.batch].pc = "calls" /\ Onward(k.batch)
          BY <1>0, <1>2, <3>2 DEF CallFails, At, PartialCall
      <4>. QED BY <1>0, <4>1, OnwardStep DEF At
    <3>. QED BY <3>1, <3>2
  <2>3. \A d \in Batches : \/ handler'[d].pc # "insert" /\ ~Works(d, c)'
                           \/ /\ handler'[d].pc = handler[d].pc /\ handler'[d].i = handler[d].i
                              /\ handler'[d].content = handler[d].content
      BY <2>2 DEF Works
  <2>. QED BY <1>1, <2>1, <2>2, <2>3, FewerWorkers
<1>3. CASE Call(k) /\ k.chat # c
  <2>1. handler' = handler /\ chats'[c] = chats[c]
      BY <1>0, <1>3 DEF Call, Find, WriteBack, Delete
  <2>2. (\A l \in calls : l.chat = c => l \in calls') /\ (\A l \in calls' : l.chat = c => l \in calls)
    <3>1. [k EXCEPT !.step = "write", !.seen = chats[k.chat]].chat = k.chat
        BY <1>0 DEF PartialCall
    <3>. QED BY <1>3, <3>1 DEF Call, Find, WriteBack, Delete
  <2>. QED BY <1>1, <2>1, <2>2, FewerWorkers DEF At
<1>4. CASE Call(k) /\ k.chat = c
  <2>0. /\ \A l \in calls : l.chat = c => l = k
        /\ \A d \in Batches : handler[d].pc # "insert"
        /\ handler' = handler
      BY <1>1, <1>4, OnlyCall DEF Call, Find, WriteBack, Delete
  <2>1. \A d \in Batches : (Works(d, c)' <=> Works(d, c)) /\ handler'[d].pc # "insert"
      BY <2>0 DEF Works, Section
  <2>2. ASSUME chats'[c] = ideal[c], calls' = calls \ {k} PROVE Faithful(c)'
      BY <1>1, <2>0, <2>1, <2>2 DEF Faithful, Alone, Leads, At
  <2>3. CASE Find(k) /\ chats[c] = None
      BY <1>1, <1>4, <2>2, <2>3 DEF Find, Faithful, Leads
  <2>4. CASE Find(k) /\ chats[c] # None
    <3>. DEFINE l == [k EXCEPT !.step = "write", !.seen = chats[c]]
    <3>1. /\ l.chat = c /\ l.batch = k.batch /\ l.i = k.i /\ l.fields = k.fields
          /\ l.step = "write" /\ l.seen = chats[c]
        BY <1>0, <1>4 DEF PartialCall
    <3>2. calls' = (calls \ {k}) \cup {l} /\ chats' = chats /\ k.step = "find"
        BY <1>4, <2>4 DEF Find
    <3>. HIDE DEF l
    <3>3. \A x \in calls' : x.chat = c => x = l
        BY <2>0, <3>2
    <3>4. Alone(c)'
        BY <1>1, <1>4, <2>0, <2>1, <3>1, <3>2, <3>3 DEF Faithful, Alone
    <3>5. ideal[c] = Updated(chats[c], k.fields, k.batch)
        BY <1>1, <1>4, <2>4, <3>2 DEF Faithful, Leads
    <3>6. Leads(c)'
        BY <1>1, <2>1, <2>4, <3>1, <3>2, <3>3, <3>5 DEF Leads, At
    <3>. QED BY <3>4, <3>6 DEF Faithful
  <2>5. CASE WriteBack(k)
    <3>1. k.seen # None /\ chats[c] = k.seen /\ ideal[c] = Updated(k.seen, k.fields, k.batch)
        BY <1>1, <1>4, <2>5 DEF WriteBack, Faithful, Leads
    <3>2. chats'[c] = ideal[c]
        BY <1>0, <1>4, <2>5, <3>1 DEF WriteBack
    <3>. QED BY <2>2, <2>5, <3>2 DEF WriteBack
  <2>6. CASE Delete(k)
    <3>1. chats'[c] = None /\ ideal[c] = None
        BY <1>0, <1>1, <1>4, <2>6 DEF Delete, Faithful, Leads
    <3>. QED BY <2>2, <2>6, <3>1 DEF Delete
  <2>. QED BY <1>4, <2>3, <2>4, <2>5, <2>6 DEF Call
<1>. QED BY <1>2, <1>3, <1>4

LEMMA FollowedStep ==
    ASSUME CInv, Next
    PROVE  Followed'
<1>0. IInv /\ Followed /\ handler \in [Batches -> Handler]
    BY DEF CInv, IInv, Sound, TypeOK
<1>1. ASSUME NEW b \in Batches, NEW content \in Contents, Arrive(b, content) PROVE Followed'
  <2>1. UNCHANGED <<chats, ideal, mixed, calls>> /\ handler[b].pc = "expected"
      BY <1>1 DEF Arrive, history, At
  <2>2. (\A d \in Batches \ {b} : handler'[d] = handler[d]) /\ handler'[b].pc = "section"
      BY <1>0, <1>1, ArriveStep
  <2>. QED BY <1>0, <2>1, <2>2, Elsewhere DEF At
<1>2. ASSUME NEW b \in Batches, Step(b) PROVE Followed'
  <2>1. CASE Publish(b) \/ CallsDone(b) \/ SyncNothing(b) \/ SendNothing(b) \/ Delivered(b) \/ GiveUp(b)
    <3>1. /\ handler[b].pc \in {"section", "calls", "post"} /\ Onward(b)
          /\ UNCHANGED <<chats, ideal, mixed, calls>>
        BY <2>1 DEF Publish, CallsDone, SyncNothing, SendNothing, Delivered, GiveUp, At, history
    <3>. QED BY <3>1, OnwardFollowed
  <2>2. CASE Send(b) \/ PostAgain(b)
    <3>1. UNCHANGED <<chats, ideal, mixed, calls>> /\ handler[b].pc \in {"section", "post"}
        BY <2>2 DEF Send, PostAgain, history, At
    <3>2. (\A d \in Batches \ {b} : handler'[d] = handler[d]) /\ handler'[b].pc = "post"
        BY <1>0, <2>2 DEF Send, PostAgain, At, Handler
    <3>. QED BY <1>0, <3>1, <3>2, Elsewhere DEF At
  <2>. QED BY <1>2, <2>1, <2>2, InsertFollowed, DeleteAllFollowed, UpsertFollowed, StartCallsFollowed DEF Step
<1>3. ASSUME NEW k \in saving, Save(k[1], k[2]) \/ Die(k[1], k[2]) PROVE Followed'
  <2>1. CASE Save(k[1], k[2])
    <3>1. UNCHANGED <<chats, ideal, mixed, calls, handler>>
        BY <2>1 DEF Save, history
    <3>. QED BY <1>0, <3>1, Elsewhere DEF At
  <2>. QED BY <1>3, <2>1, DieFollowed
<1>4. ASSUME Due PROVE Followed'
  <2>1. UNCHANGED <<chats, ideal, mixed, calls, handler>>
      BY <1>4 DEF Due, history
  <2>. QED BY <1>0, <2>1, Elsewhere DEF At
<1>5. ASSUME ConfigureWebhook \/ RemoveWebhook \/ ResetCircuit PROVE Followed'
  <2>1. UNCHANGED <<chats, ideal, mixed, calls>>
      BY <1>5 DEF ConfigureWebhook, RemoveWebhook, ResetCircuit, SetEndpoint, history
  <2>2. ASSUME NEW d \in Batches
        PROVE handler'[d].content = handler[d].content /\ handler'[d].i = handler[d].i /\ handler'[d].pc = handler[d].pc
    <3>1. PICK kept \in BOOLEAN :
              handler'[d] = [handler[d] EXCEPT !.own = IF kept \/ handler[d].pc # "post" THEN @ ELSE FALSE]
        BY <1>5 DEF ConfigureWebhook, RemoveWebhook, ResetCircuit, SetEndpoint
    <3>. QED BY <1>0, <3>1 DEF Handler
  <2>. QED BY <1>0, <2>1, <2>2, Elsewhere DEF At
<1>. QED BY <1>1, <1>2, <1>3, <1>4, <1>5, CallFollowed, SyncFailsFollowed DEF Next

LEMMA CInvStep == CInv /\ [Next]_vars => CInv'
<1>1. CInv /\ Next => CInv'
    BY InvStep, FollowedStep DEF CInv
<1>2. ASSUME CInv, UNCHANGED vars PROVE CInv'
  <2>1. UNCHANGED <<chats, ideal, mixed, calls, handler>>
      BY <1>2 DEF vars
  <2>2. Followed'
      BY <1>2, <2>1, Elsewhere DEF CInv, At
  <2>. QED BY <1>2, <2>2, Stutter DEF CInv
<1>. QED BY <1>1, <1>2

(* Who works on a chat that is not mixed, and what will come of it. *)
THEOREM ChatsInvariant == Spec => []CInv
BY InitHolds, CInvStep, PTL DEF Spec

(* Chats whose sections neither overlapped nor failed are what the         *)
(* sections one after the other would have made of them.                   *)
THEOREM ChatsAreFaithful == Spec => []ChatsFaithful
<1>1. CInv => ChatsFaithful
    BY AtRest DEF CInv, Followed, ChatsFaithful
<1>. QED BY <1>1, ChatsInvariant, PTL

-----------------------------------------------------------------------------
(* What is stored. *)

Mapped == {Payload[w] : w \in {w \in Incoming : Payload[w] # None}}

(* Only payloads that the mapper made are published, and what is stored is *)
(* one of them that the schema took.                                       *)
OfTheMapper ==
    /\ \A k \in heard : k[2] \in Mapped
    /\ \A d \in messages : d \in Mapped /\ MessageSchema(d)

LEMMA PublishedIsMapped ==
    ASSUME IInv, NEW b \in Batches, Publish(b), \A k \in heard : k[2] \in Mapped
    PROVE  \A k \in heard' : k[2] \in Mapped
<1>. DEFINE taken == {w \in Section(b).messages : Section(b).type = "notify" /\ Has(w, "message") /\ Payload[w] # None}
            new   == {<<b, Payload[w]>> : w \in taken}
<1>1. handler[b].i \in DOMAIN handler[b].content
    BY DEF Publish, At, IInv, Told, Placed
<1>2. Section(b).messages \subseteq Incoming
    BY <1>1, SectionIsOne DEF IInv, Sound, EventSection
<1>3. heard' = heard \cup new
    BY DEF Publish
<1>4. \A w \in taken : Payload[w] \in Mapped
    BY <1>2 DEF Mapped
<1>5. \A k \in new : k[2] \in Mapped
    BY <1>4
<1>. HIDE DEF new
<1>. QED BY <1>3, <1>5

LEMMA OfTheMapperStep ==
    ASSUME IInv, OfTheMapper, [Next]_vars
    PROVE  OfTheMapper'
<1>1. ASSUME Next
      PROVE  messages' = messages \/ \E k \in saving : MessageSchema(k[2]) /\ messages' = messages \cup {k[2]}
    BY <1>1
         DEF Next, Step, Call, Arrive, Publish, DeleteAll, InsertMany, UpsertMany, StartCalls, CallsDone,
             SyncNothing, SendNothing, Send, Delivered, PostAgain, GiveUp, SyncFails, Save, Die, Find, WriteBack, Delete,
             CallFails, Due, ConfigureWebhook, RemoveWebhook, ResetCircuit, SetEndpoint
<1>2. Next => (\A k \in heard' : k[2] \in Mapped)
    BY HeardStep, PublishedIsMapped DEF OfTheMapper
<1>3. \A k \in saving : k[2] \in Mapped
    BY DEF IInv, Sound, TypeOK, OfTheMapper
<1>4. CASE Next
    BY <1>1, <1>2, <1>3, <1>4 DEF OfTheMapper
<1>5. CASE UNCHANGED vars
    BY <1>5 DEF vars, OfTheMapper
<1>. QED BY <1>4, <1>5

(* Whatever messages come, in whatever batches, and however often they are *)
(* published: a document of MessageModel is what the mapper made of one of *)
(* them, and has what the schema asks for.                                 *)
THEOREM StoredAsMapped == Spec => []OfTheMapper
<1>1. Init => OfTheMapper
    BY DEF Init, OfTheMapper
<1>. QED BY <1>1, OfTheMapperStep, EventsInvariant, PTL DEF Spec

(* So where mapper and schema agree about the messages that may come, what *)
(* is stored is what a whole message said.  MappingExact compares the two  *)
(* message by message, and mentions nothing that changes.                  *)
THEOREM MessagesAreExact ==
    ASSUME MappingExact
    PROVE  Spec => []MessagesExact
<1>1. ASSUME NEW d \in Mapped, MessageSchema(d) PROVE d \in WholePayloads
  <2>1. PICK w \in Incoming : d = Payload[w] /\ Payload[w] # None
      BY DEF Mapped
  <2>2. MessageSchema(Payload[w]) <=> Whole(w)
      BY <2>1, MappingExact DEF MappingExact
  <2>. QED BY <1>1, <2>1, <2>2 DEF WholePayloads
<1>2. OfTheMapper => MessagesExact
    BY <1>1, MappingExact DEF OfTheMapper, MessagesExact
<1>. QED BY <1>2, StoredAsMapped, PTL
=============================================================================
