--------------------------- MODULE InstanceEvents ---------------------------
(***************************************************************************)
(* What one account's socket tells the program.  BaileysEventRouter hands  *)
(* the sections of each batch of events to BaileysEventHandlers, one after *)
(* the other; ChatSynchronizeService keeps the chats in MongoDB and        *)
(* WebhookService posts the rest.  ev.process() does not await the         *)
(* handler, so the sections of different batches interleave at every call  *)
(* of the database and of the webhook.                                     *)
(*                                                                         *)
(* A chat is [name, unread], for the fields that only an upsert writes and *)
(* for those that an update may write as well; a value is the number of    *)
(* the batch it came with.  A section is [kind, chats, fields, type,       *)
(* messages], a message as IncomingMessages has it.                        *)
(***************************************************************************)
EXTENDS CircuitBreaker, IncomingMessages, FiniteSets

CONSTANTS
    Batches,    \* the batches of events, numbered as they come in
    Contents,   \* the sequences of sections that may come as a batch
    Chats,      \* the chats of the account
    Attempts,   \* config.retryAttempts: how often an event is posted
    Accidents   \* bound: database calls that fail, and changes of the webhook

Fields == {"name", "unread"}

Chat == [Fields -> Batches]

FullSync == {"messaging-history.set", "groups.upsert"}

EventSection ==
    [kind : FullSync \cup {"chats.upsert", "chats.update", "groups.update", "chats.delete", "messages.upsert", "webhook"},
     chats : SUBSET Chats, fields : SUBSET Fields, type : {"notify", "append", None}, messages : SUBSET Incoming]

\* The router calls nothing for a batch without events that it knows, and
\* asks for messages.upsert once.
ASSUME EventsAssumption ==
    /\ Batches \subseteq Nat /\ None \notin Batches
    /\ None \notin Chat /\ None \notin Breaker
    /\ Attempts \in Nat \ {0} /\ Accidents \in Nat
    /\ \A content \in Contents :
          /\ content \in Seq(EventSection) /\ content # <<>>
          /\ \A i, j \in DOMAIN content :
                content[i].kind = "messages.upsert" /\ content[j].kind = "messages.upsert" => i = j

VARIABLES
    chats,      \* ChatModel: the document of each chat, or None
    messages,   \* MessageModel: the payloads that are stored
    handler,    \* where the handling of each batch is
    calls,      \* the calls of applyPartialUpdate() and delete() under way
    saving,     \* the payloads that are being saved, once for each publication
    endpoint,   \* the breaker of the account's webhook, or None
    left,       \* accidents that may still happen
    ideal,      \* history: the chats if every section were a single step
    mixed,      \* history: the chats of which sections overlapped or failed
    heard,      \* history: the payloads that were published, each with its batch
    streak      \* history: events given up since one went through

vars == <<chats, messages, handler, calls, saving, endpoint, left, ideal, mixed, heard, streak>>

history == <<ideal, mixed, heard>>

Expected == [pc |-> "expected", content |-> <<>>, i |-> 0, tries |-> 0, own |-> TRUE]

Init ==
    /\ chats = [c \in Chats |-> None] /\ ideal = chats
    /\ messages = {} /\ saving = {} /\ heard = {} /\ calls = {}
    /\ handler = [b \in Batches |-> Expected]
    /\ endpoint = None /\ streak = 0
    /\ left = Accidents
    /\ mixed = {}

-----------------------------------------------------------------------------
Section(b) == handler[b].content[handler[b].i]

At(b, pc) == handler[b].pc = pc

\* The handler of b goes on with the section after this one.
Onward(b) ==
    handler' = [handler EXCEPT ![b] =
                   IF @.i = Len(@.content) THEN [Expected EXCEPT !.pc = "done"]
                   ELSE [pc |-> "section", content |-> @.content, i |-> @.i + 1, tries |-> 0, own |-> TRUE]]

Stay(b, pc) == handler' = [handler EXCEPT ![b].pc = pc]

\* The chats that a section reads or writes: a full synchronisation all.
Touched(section) == IF section.kind \in FullSync THEN Chats ELSE section.chats

InProgress(c) ==
    \/ \E b \in Batches : handler[b].pc \in {"insert", "calls"} /\ c \in Touched(Section(b))
    \/ \E k \in calls : k.chat = c

New(b) == [f \in Fields |-> b]

\* What an update makes of a chat it has read: the name is not among what
\* applyPartialUpdate() takes over, so that of a groups.update is dropped.
Updated(chat, fields, b) == [f \in Fields |-> IF f \in fields THEN b ELSE chat[f]]

\* What a section is meant to make of a chat.
Meant(section, b, c) ==
    CASE section.kind \in FullSync -> IF c \in section.chats THEN New(b) ELSE None
      [] section.kind = "chats.upsert" /\ c \in section.chats -> New(b)
      [] section.kind \in {"chats.update", "groups.update"} /\ c \in section.chats /\ ideal[c] # None ->
            Updated(ideal[c], section.fields, b)
      [] section.kind = "chats.delete" /\ c \in section.chats -> None
      [] OTHER -> ideal[c]

\* History when a section that touches chats begins; one that replaces a
\* chat that nothing else is working on leaves no trace of what was before.
Note(b) ==
    LET busy == {c \in Touched(Section(b)) : InProgress(c)}
        new  == IF Section(b).kind \in FullSync \cup {"chats.upsert"} THEN Touched(Section(b)) \ busy ELSE {}
    IN  /\ ideal' = [c \in Chats |-> Meant(Section(b), b, c)]
        /\ mixed' = (mixed \ new) \cup busy
        /\ UNCHANGED heard

Accident == left > 0 /\ left' = left - 1

-----------------------------------------------------------------------------
\* A batch comes in.
Arrive(b, content) ==
    /\ At(b, "expected") /\ \A d \in Batches : d < b => ~At(d, "expected")
    /\ handler' = [handler EXCEPT ![b] = [@ EXCEPT !.pc = "section", !.content = content, !.i = 1]]
    /\ UNCHANGED <<chats, messages, calls, saving, endpoint, left, history, streak>>

\* messages.upsert: what people sent is published, and publish() is not awaited.
Publish(b) ==
    LET taken == {w \in Section(b).messages : Section(b).type = "notify" /\ Has(w, "message") /\ Payload[w] # None}
        new   == {<<b, Payload[w]>> : w \in taken}
    IN  /\ At(b, "section") /\ Section(b).kind = "messages.upsert"
        /\ saving' = saving \cup new /\ heard' = heard \cup new
        /\ Onward(b)
        /\ UNCHANGED <<chats, messages, calls, endpoint, left, ideal, mixed, streak>>

\* The unique index of MessageModel.
IsStored(payload) == \E d \in messages : d.messageId = payload.messageId

\* StoreIncomingMessageSubscriber.on
Save(b, payload) ==
    /\ <<b, payload>> \in saving /\ MessageSchema(payload) /\ ~IsStored(payload)
    /\ messages' = messages \cup {payload}
    /\ saving' = saving \ {<<b, payload>>}
    /\ UNCHANGED <<chats, handler, calls, endpoint, left, history, streak>>

\* A payload that the schema refuses, that is stored already or that the
\* database fails to store rejects; nobody handles the rejection and
\* index.ts ends the process.
Die(b, payload) ==
    /\ <<b, payload>> \in saving
    /\ IF MessageSchema(payload) /\ ~IsStored(payload) THEN Accident ELSE UNCHANGED left
    /\ handler' = [d \in Batches |-> IF At(d, "expected") THEN handler[d] ELSE [Expected EXCEPT !.pc = "done"]]
    /\ mixed' = mixed \cup {c \in Chats : InProgress(c)}
    /\ calls' = {} /\ saving' = {} /\ endpoint' = None /\ streak' = 0
    /\ UNCHANGED <<chats, messages, ideal, heard>>

\* syncChats() of no chats at all returns at once.
SyncNothing(b) ==
    /\ At(b, "section") /\ Section(b).kind \in FullSync /\ Section(b).chats = {}
    /\ Onward(b)
    /\ UNCHANGED <<chats, messages, calls, saving, endpoint, left, history, streak>>

\* syncChats(..., true): deleteByInstance(), then saveMany().
DeleteAll(b) ==
    /\ At(b, "section") /\ Section(b).kind \in FullSync /\ Section(b).chats # {}
    /\ chats' = [c \in Chats |-> None]
    /\ Note(b)
    /\ Stay(b, "insert")
    /\ UNCHANGED <<messages, calls, saving, endpoint, left, streak>>

\* insertMany: those that are there reject, the others are inserted.
InsertMany(b) ==
    /\ At(b, "insert")
    /\ chats' = [c \in Chats |-> IF c \in Section(b).chats /\ chats[c] = None THEN New(b) ELSE chats[c]]
    /\ Onward(b)
    /\ UNCHANGED <<messages, calls, saving, endpoint, left, history, streak>>

\* syncChats(..., false).
UpsertMany(b) ==
    /\ At(b, "section") /\ Section(b).kind = "chats.upsert"
    /\ chats' = [c \in Chats |-> IF c \in Section(b).chats THEN New(b) ELSE chats[c]]
    /\ Note(b)
    /\ Onward(b)
    /\ UNCHANGED <<messages, calls, saving, endpoint, left, streak>>

\* updateChats() and deleteChats(): one call for each chat, all at once.
StartCalls(b) ==
    /\ At(b, "section") /\ Section(b).kind \in {"chats.update", "groups.update", "chats.delete"}
    /\ calls' = calls \cup {[batch |-> b, i |-> handler[b].i, chat |-> c, fields |-> Section(b).fields,
                             step |-> IF Section(b).kind = "chats.delete" THEN "delete" ELSE "find",
                             seen |-> None] : c \in Section(b).chats}
    /\ Note(b)
    /\ Stay(b, "calls")
    /\ UNCHANGED <<chats, messages, saving, endpoint, left, streak>>

\* Mutant: the call for a chat that is not there never returns.
FindHangs(k) ==
    /\ k \in calls /\ k.step = "find" /\ chats[k.chat] # None
    /\ calls' = (calls \ {k}) \cup {[k EXCEPT !.step = "write", !.seen = chats[k.chat]]}
    /\ UNCHANGED <<chats, messages, handler, saving, endpoint, left, history, streak>>

\* applyPartialUpdate() ignores a chat that is not there.
Find(k) ==
    /\ k \in calls /\ k.step = "find"
    /\ calls' = (calls \ {k}) \cup
                (IF chats[k.chat] = None THEN {} ELSE {[k EXCEPT !.step = "write", !.seen = chats[k.chat]]})
    /\ UNCHANGED <<chats, messages, handler, saving, endpoint, left, history, streak>>

\* Mutant: update() inserts what is not there.
WriteBackUpserts(k) ==
    /\ k \in calls /\ k.step = "write"
    /\ chats' = [chats EXCEPT ![k.chat] = Updated(k.seen, k.fields, k.batch)]
    /\ calls' = calls \ {k}
    /\ UNCHANGED <<messages, handler, saving, endpoint, left, history, streak>>

\* Mutant: the changed chat is not written.
WriteBackSeen(k) ==
    /\ k \in calls /\ k.step = "write"
    /\ chats' = [chats EXCEPT ![k.chat] = IF @ = None THEN None ELSE k.seen]
    /\ calls' = calls \ {k}
    /\ UNCHANGED <<messages, handler, saving, endpoint, left, history, streak>>

\* update() writes every field, and only where there is a document.
WriteBack(k) ==
    /\ k \in calls /\ k.step = "write"
    /\ chats' = [chats EXCEPT ![k.chat] = IF @ = None THEN None ELSE Updated(k.seen, k.fields, k.batch)]
    /\ calls' = calls \ {k}
    /\ UNCHANGED <<messages, handler, saving, endpoint, left, history, streak>>

Delete(k) ==
    /\ k \in calls /\ k.step = "delete"
    /\ chats' = [chats EXCEPT ![k.chat] = None]
    /\ calls' = calls \ {k}
    /\ UNCHANGED <<messages, handler, saving, endpoint, left, history, streak>>

\* Promise.all: every call of the section has returned.
CallsDone(b) ==
    /\ At(b, "calls")
    /\ \A k \in calls : k.batch # b \/ k.i # handler[b].i
    /\ Onward(b)
    /\ UNCHANGED <<chats, messages, calls, saving, endpoint, left, history, streak>>

\* One call of the database fails.  BaileysEventHandlers logs it and the next
\* section begins; other calls of the same Promise.all go on unheeded.
CallFails(k) ==
    /\ k \in calls
    /\ Accident
    /\ calls' = calls \ {k}
    /\ mixed' = mixed \cup {k.chat}
    /\ IF At(k.batch, "calls") /\ handler[k.batch].i = k.i THEN Onward(k.batch) ELSE UNCHANGED handler
    /\ UNCHANGED <<chats, messages, saving, endpoint, ideal, heard, streak>>

SyncFails(b) ==
    /\ \/ At(b, "section") /\ Section(b).kind \in FullSync \cup {"chats.upsert"} /\ Section(b).chats # {}
       \/ At(b, "insert")
    /\ Accident
    /\ mixed' = mixed \cup Touched(Section(b))
    /\ Onward(b)
    /\ UNCHANGED <<chats, messages, calls, saving, endpoint, ideal, heard, streak>>

-----------------------------------------------------------------------------
\* WebhookService.send() without an endpoint, or skipped by its breaker.
SendNothing(b) ==
    /\ At(b, "section") /\ Section(b).kind = "webhook"
    /\ endpoint # None => Skips(endpoint)
    /\ Onward(b)
    /\ UNCHANGED <<chats, messages, calls, saving, endpoint, left, history, streak>>

\* execute() lets the call through, and the first attempt is posted.
Send(b) ==
    /\ At(b, "section") /\ Section(b).kind = "webhook"
    /\ endpoint # None /\ ~Skips(endpoint)
    /\ endpoint' = Enter(endpoint)
    /\ handler' = [handler EXCEPT ![b].pc = "post", ![b].tries = 1]
    /\ UNCHANGED <<chats, messages, calls, saving, left, history, streak>>

\* The endpoint answers with a status below 500.
Delivered(b) ==
    /\ At(b, "post")
    /\ endpoint' = IF handler[b].own THEN OnSuccess(endpoint) ELSE endpoint
    /\ streak' = IF handler[b].own THEN 0 ELSE streak
    /\ Onward(b)
    /\ UNCHANGED <<chats, messages, calls, saving, left, history>>

\* It does not, and there are attempts left: after a pause it is posted again.
PostAgain(b) ==
    /\ At(b, "post") /\ handler[b].tries < Attempts
    /\ handler' = [handler EXCEPT ![b].tries = @ + 1]
    /\ UNCHANGED <<chats, messages, calls, saving, endpoint, left, history, streak>>

\* The last attempt has failed: execute() throws, and the handler logs it.
GiveUp(b) ==
    /\ At(b, "post") /\ handler[b].tries = Attempts
    /\ endpoint' = IF handler[b].own THEN OnFailure(endpoint) ELSE endpoint
    /\ streak' = IF handler[b].own THEN streak + 1 ELSE streak
    /\ Onward(b)
    /\ UNCHANGED <<chats, messages, calls, saving, left, history>>

\* The time of _nextAttempt comes.
Due ==
    /\ endpoint # None /\ Skips(endpoint)
    /\ endpoint' = [endpoint EXCEPT !.due = TRUE]
    /\ UNCHANGED <<chats, messages, handler, calls, saving, left, history, streak>>

\* configureWebhook(), removeWebhook() and resetCircuit(): operations of the
\* service that nothing in the program calls.  A call under way keeps the
\* breaker it began with.
SetEndpoint(new, kept) ==
    /\ endpoint' = new /\ streak' = 0
    /\ handler' = [b \in Batches |-> [handler[b] EXCEPT !.own = IF kept \/ handler[b].pc # "post" THEN @ ELSE FALSE]]
    /\ UNCHANGED <<chats, messages, calls, saving, history>>

\* Bounds: it is configured before the first batch, and changed when the
\* breaker is in use.
InUse == endpoint # None /\ (endpoint # NewBreaker \/ \E b \in Batches : At(b, "post")) /\ Accident

ConfigureWebhook ==
    /\ \/ endpoint = None /\ (\A b \in Batches : At(b, "expected")) /\ UNCHANGED left
       \/ InUse
    /\ SetEndpoint(NewBreaker, FALSE)

RemoveWebhook == InUse /\ SetEndpoint(None, FALSE)

ResetCircuit == InUse /\ SetEndpoint(Reset(endpoint), TRUE)

-----------------------------------------------------------------------------
Step(b) ==
    \/ Publish(b) \/ DeleteAll(b) \/ InsertMany(b) \/ UpsertMany(b) \/ StartCalls(b) \/ CallsDone(b)
    \/ SyncNothing(b) \/ SendNothing(b) \/ Send(b) \/ Delivered(b) \/ PostAgain(b) \/ GiveUp(b)

Call(k) == Find(k) \/ WriteBack(k) \/ Delete(k)

Next ==
    \/ \E b \in Batches :
          \/ \E content \in Contents : Arrive(b, content)
          \/ Step(b) \/ SyncFails(b)
    \/ \E k \in saving : Save(k[1], k[2]) \/ Die(k[1], k[2])
    \/ \E k \in calls : Call(k) \/ CallFails(k)
    \/ Due \/ ConfigureWebhook \/ RemoveWebhook \/ ResetCircuit

\* MongoDB answers or fails, a post ends by its timeout, and pauses end.
Fairness == /\ \A b \in Batches : WF_vars(Step(b))
            /\ WF_vars(\E k \in calls : Call(k))

Spec == Init /\ [][Next]_vars /\ Fairness

-----------------------------------------------------------------------------
Handler ==
    [pc : {"expected", "section", "insert", "calls", "post", "done"}, content : Seq(EventSection), i : Nat,
     tries : 0 .. Attempts, own : BOOLEAN]

PartialCall ==
    [batch : Batches, i : Nat, chat : Chats, fields : SUBSET Fields, step : {"find", "write", "delete"},
     seen : Chat \cup {None}]

TypeOK ==
    /\ chats \in [Chats -> Chat \cup {None}]
    /\ saving \subseteq heard /\ \A k \in heard : k[1] \in Batches
    /\ handler \in [Batches -> Handler]
    /\ calls \subseteq PartialCall
    /\ endpoint \in Breaker \cup {None} /\ streak \in Nat
    /\ left \in 0 .. Accidents

\* Whatever calls overlap and however late they end, _failureCount is the
\* number of events given up since one went through, a closed breaker has
\* seen fewer than its threshold, and one not yet closed too few successes.
BreakerExact ==
    endpoint # None =>
        /\ endpoint.failures = streak
        /\ endpoint.state = "CLOSED" => endpoint.failures < FailureThreshold
        /\ endpoint.successes < SuccessThreshold

\* A message that was published is stored or on its way, unless the process
\* died: of a failed call of the database, of a message that is not whole or
\* of one that came twice.
NoMessageLost ==
    \/ left < Accidents
    \/ \E k \in heard : ~MessageSchema(k[2])
    \/ \E k, l \in heard : k # l /\ k[2].messageId = l[2].messageId
    \/ \A k \in heard : k \in saving \/ k[2] \in messages

\* The webhook's breaker and the incoming messages, besides the types:
\* BreakerExact and NoMessageLost.
Sound == TypeOK /\ BreakerExact /\ NoMessageLost

\* StoreIncomingMessageSubscriber and the mapper together: the mapping is exact,
\* and what is stored is what a whole message said.
WholePayloads == {Payload[w] : w \in {w \in Incoming : Payload[w] # None /\ Whole(w)}}
MessagesExact == MappingExact /\ messages \subseteq WholePayloads

\* ChatSynchronizeService as a whole: a chat whose sections never overlapped
\* and never failed, or were replaced since by one that did not, is what the
\* sections one after the other would have made of it.
ChatsFaithful == \A c \in Chats \ mixed : InProgress(c) \/ chats[c] = ideal[c]

\* A chat comes into the database only with a section that brings all of it:
\* however updates, deletions and synchronisations interleave, a partial
\* update does not bring one back (applyPartialUpdate, "simplemente ignoramos").
AppearsByName ==
    [][\A c \in Chats : chats[c] = None /\ chats'[c] # None =>
          \E b \in Batches : /\ handler[b].pc \in {"section", "insert"}
                             /\ Section(b).kind \in FullSync \cup {"chats.upsert"}
                             /\ c \in Section(b).chats
                             /\ chats'[c] = New(b)]_vars

\* Every batch that came is handled to its end, whatever fails on the way.
HandlersEnd == <>[](\A b \in Batches : At(b, "expected") \/ At(b, "done"))
=============================================================================
