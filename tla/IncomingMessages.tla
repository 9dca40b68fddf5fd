-------------------------- MODULE IncomingMessages --------------------------
(***************************************************************************)
(* What becomes of a message from the wire: BaileysMessageMapper makes a   *)
(* payload of it, and the schema of MessageModel says whether the payload  *)
(* can be stored.                                                          *)
(*                                                                         *)
(* An object from the wire is a function of the names of the fields it     *)
(* has.  Objects of which the mapper only copies optional fields, under    *)
(* other names or as numbers, are carried over whole.                      *)
(***************************************************************************)
EXTENDS Sequences, Naturals, TLC

CONSTANTS
    None,
    Incoming,   \* the messages that may come
    Groups,     \* the JIDs that end in @g.us
    InstanceId  \* the account

Has(o, f) == o # None /\ f \in DOMAIN o

\* o?.f ?? undefined
Get(o, f) == IF Has(o, f) THEN o[f] ELSE None

\* v[1] ?? v[2] ?? ...
FirstOf(v) ==
    LET present == {i \in DOMAIN v : v[i] # None}
    IN  IF present = {} THEN None ELSE v[CHOOSE i \in present : \A j \in present : i <= j]

Filled(s) == s \notin {None, ""}

\* The content of type t that has the part of msg as its field f.
Carry(msg, part, t, f, context) ==
    IF Has(msg, part) THEN ("messageType" :> t) @@ (f :> msg[part]) @@ ("context" :> context) ELSE None

-----------------------------------------------------------------------------
mapText(msg, context) ==
    LET text == IF Filled(Get(msg, "conversation")) THEN msg.conversation
                ELSE Get(Get(msg, "extendedTextMessage"), "text")
    IN  IF Filled(text) THEN [messageType |-> "text", text |-> text, context |-> context] ELSE None

Media(msg, part, t, context, viewOnce) ==
    IF Has(msg, part)
    THEN [messageType |-> t, viewOnce |-> viewOnce, media |-> msg[part], context |-> context] ELSE None

mapImage(msg, context, viewOnce) == Media(msg, "imageMessage", "image", context, viewOnce)
mapVideo(msg, context, viewOnce) == Media(msg, "videoMessage", "video", context, viewOnce)
mapAudio(msg, context, viewOnce) == Media(msg, "audioMessage", "audio", context, viewOnce)
mapDocument(msg, context, viewOnce) == Media(msg, "documentMessage", "document", context, viewOnce)

mapSticker(msg, context) == Carry(msg, "stickerMessage", "sticker", "media", context)

Located(place) == Has(place, "degreesLatitude") /\ Has(place, "degreesLongitude")

mapLocation(msg, context) ==
    IF Located(Get(msg, "locationMessage")) THEN Carry(msg, "locationMessage", "location", "location", context)
    ELSE None

mapLiveLocation(msg, context) ==
    IF Located(Get(msg, "liveLocationMessage"))
    THEN Carry(msg, "liveLocationMessage", "live_location", "location", context) ELSE None

\* What a contact lacks becomes the empty string.
Card(contact) ==
    [displayName |-> FirstOf(<<Get(contact, "displayName"), "">>), vcard |-> FirstOf(<<Get(contact, "vcard"), "">>)]

mapContacts(msg, context) ==
    LET cards == IF Has(msg, "contactMessage") THEN <<msg.contactMessage>>
                 ELSE FirstOf(<<Get(Get(msg, "contactsArrayMessage"), "contacts"), <<>> >>)
    IN  IF Has(msg, "contactMessage") \/ Has(msg, "contactsArrayMessage")
        THEN [messageType |-> "contact", contacts |-> [i \in DOMAIN cards |-> Card(cards[i])], context |-> context]
        ELSE None

mapPoll(msg, context) ==
    FirstOf(<<Carry(msg, "pollCreationMessage", "poll", "poll", context),
              Carry(msg, "pollCreationMessageV2", "poll", "poll", context),
              Carry(msg, "pollCreationMessageV3", "poll", "poll", context)>>)

\* selectedOptions is always empty.
mapPollResult(msg, context) ==
    IF Has(msg, "pollUpdateMessage")
    THEN [messageType |-> "poll_result", poll |-> [selectedOptions |-> <<>>], context |-> context] ELSE None

\* A reaction that is taken back has no text.
mapReaction(msg, context) ==
    LET reaction == Get(msg, "reactionMessage")
    IN  IF reaction = None THEN None
        ELSE [messageType |-> "reaction", context |-> context,
              reaction |-> [emoji |-> FirstOf(<<Get(reaction, "text"), "">>),
                            targetMessageId |-> FirstOf(<<Get(Get(reaction, "key"), "id"), "">>)]]

mapForward(msg, context) ==
    LET contextInfo == Get(Get(msg, "extendedTextMessage"), "contextInfo")
    IN  IF Get(contextInfo, "isForwarded") = TRUE
        THEN [messageType |-> "forward", forward |-> contextInfo, context |-> context] ELSE None

mapGroupInvite(msg, context) == Carry(msg, "groupInviteMessage", "group_invite", "invite", context)
mapButtonReply(msg, context) == Carry(msg, "buttonsResponseMessage", "button_reply", "button", context)
mapListReply(msg, context) == Carry(msg, "listResponseMessage", "list_reply", "list", context)
mapInteractive(msg, context) == Carry(msg, "interactiveMessage", "interactive", "interactive", context)
mapProduct(msg, context) == Carry(msg, "productMessage", "product", "product", context)
mapEvent(msg, context) == Carry(msg, "eventMessage", "event", "event", context)
mapProtocol(msg, context) == Carry(msg, "protocolMessage", "protocol", "protocol", context)

\* A call is kept only together with its log.
mapCall(msg, context) ==
    IF Has(msg, "callLogMesssage") THEN Carry(msg, "call", "call", "call", context) ELSE None

mapContentFromMessage(msg, context, viewOnce) ==
    FirstOf(<<mapText(msg, context), mapImage(msg, context, viewOnce), mapVideo(msg, context, viewOnce),
              mapAudio(msg, context, viewOnce), mapDocument(msg, context, viewOnce), mapSticker(msg, context),
              mapLocation(msg, context), mapLiveLocation(msg, context), mapContacts(msg, context),
              mapPoll(msg, context), mapPollResult(msg, context), mapReaction(msg, context),
              mapForward(msg, context), mapGroupInvite(msg, context), mapButtonReply(msg, context),
              mapListReply(msg, context), mapInteractive(msg, context), mapProduct(msg, context),
              mapEvent(msg, context), mapProtocol(msg, context), mapCall(msg, context)>>)

\* The parts whose contextInfo is looked for, in this order: a reaction, a
\* group invitation and a wrapper are not among them.
ContextParts == <<
    "extendedTextMessage", "imageMessage", "videoMessage", "audioMessage", "documentMessage",
    "stickerMessage", "locationMessage", "liveLocationMessage", "contactMessage", "contactsArrayMessage",
    "pollCreationMessage", "pollCreationMessageV2", "pollCreationMessageV3", "pollResultSnapshotMessage",
    "buttonsMessage", "buttonsResponseMessage", "listMessage", "listResponseMessage",
    "interactiveMessage", "productMessage", "eventMessage">>

\* String() makes the text "undefined" of a quoted message that has none.
QuotedText(quoted) ==
    FirstOf(<<Get(quoted, "conversation"), Get(Get(quoted, "extendedTextMessage"), "text"),
              Get(Get(quoted, "imageMessage"), "caption"), Get(Get(quoted, "videoMessage"), "caption"),
              Get(Get(quoted, "documentMessage"), "caption"), "undefined">>)

mapContext(message) ==
    LET info    == FirstOf([i \in DOMAIN ContextParts |-> Get(Get(Get(message, "message"), ContextParts[i]), "contextInfo")])
        quoted  == Get(info, "quotedMessage")
        context == [quotedMessageId |-> Get(info, "stanzaId"),
                    quotedParticipantId |-> Get(info, "participant"),
                    quotedText |-> IF quoted = None THEN None ELSE QuotedText(quoted),
                    mentions |-> Get(info, "mentionedJid"),
                    isForwarded |-> IF Get(info, "isForwarded") = TRUE THEN TRUE ELSE None,
                    forwardingScore |-> Get(info, "forwardingScore"),
                    participant |-> FirstOf(<<Get(message.key, "participant"), Get(message.key, "participantAlt")>>)]
        hasContext == \/ \E f \in DOMAIN context \ {"mentions"} : context[f] # None
                      \/ context.mentions \notin {None, <<>>}
    IN  IF info # None /\ hasContext THEN context ELSE None

\* Mutant: the context of the message inside is taken.
mapContentInner(message) ==
    LET msg     == Get(message, "message")
        Within(w) == Get(Get(msg, w), "message")
        viewOnce == FirstOf(<<Within("viewOnceMessage"), Within("viewOnceMessageV2"), Within("viewOnceMessageV2Extension")>>)
        body    == FirstOf(<<viewOnce, Within("ephemeralMessage"), Within("documentWithCaptionMessage"), msg>>)
    IN  IF msg = None THEN None
        ELSE mapContentFromMessage(body, mapContext([message EXCEPT !.message = body]), viewOnce # None)

\* The context is that of the message outside, also for one that is wrapped.
mapContent(message) ==
    LET msg     == Get(message, "message")
        context == mapContext(message)
        Within(w) == Get(Get(msg, w), "message")
        viewOnce == FirstOf(<<Within("viewOnceMessage"), Within("viewOnceMessageV2"), Within("viewOnceMessageV2Extension")>>)
        body    == FirstOf(<<viewOnce, Within("ephemeralMessage"), Within("documentWithCaptionMessage"), msg>>)
    IN  IF msg = None THEN None ELSE mapContentFromMessage(body, context, viewOnce # None)

resolveSenderId(key) ==
    IF Get(key, "remoteJid") \in Groups THEN FirstOf(<<Get(key, "participantAlt"), Get(key, "participant")>>)
    ELSE FirstOf(<<Get(key, "remoteJidAlt"), Get(key, "remoteJid")>>)

toIncomingMessage(message) ==
    LET content == mapContent(message)
    IN  IF message.key.fromMe \/ content = None THEN None
        ELSE [messageId |-> FirstOf(<<Get(message.key, "id"), "">>),
              chatId |-> FirstOf(<<Get(message.key, "remoteJid"), Get(message.key, "remoteJidAlt"), "">>),
              senderId |-> FirstOf(<<resolveSenderId(message.key), InstanceId>>),
              timestamp |-> Get(message, "messageTimestamp"),
              content |-> content]

Payload == [w \in Incoming |-> toIncomingMessage(w)]

-----------------------------------------------------------------------------
\* The union SentMessageContent: the fields of each type beside messageType
\* and context.
Shape == [
    text |-> {"text"}, image |-> {"viewOnce", "media"}, video |-> {"viewOnce", "media"},
    audio |-> {"viewOnce", "media"}, document |-> {"viewOnce", "media"}, sticker |-> {"media"},
    location |-> {"location"}, live_location |-> {"location"}, contact |-> {"contacts"},
    poll |-> {"poll"}, poll_result |-> {"poll"}, reaction |-> {"reaction"}, forward |-> {"forward"},
    group_invite |-> {"invite"}, button_reply |-> {"button"}, list_reply |-> {"list"},
    interactive |-> {"interactive"}, product |-> {"product"}, event |-> {"event"},
    protocol |-> {"protocol"}, call |-> {"call"}]

\* What the schemas require of the parts; Mongoose takes the empty string
\* for a required one that is missing.
ContactsSchema(contact) == Filled(contact.displayName) /\ Filled(contact.vcard)

LocationSchema(place) == Located(place)

ReactionSchema(reaction) == Filled(reaction.emoji) /\ Filled(reaction.targetMessageId)

MessageContentSchema(content) ==
    /\ content.messageType \in DOMAIN Shape
    /\ Has(content, "contacts") => \A i \in DOMAIN content.contacts : ContactsSchema(content.contacts[i])
    /\ Has(content, "location") => LocationSchema(content.location)
    /\ Has(content, "reaction") => ReactionSchema(content.reaction)

\* direction is always 'incoming', and a status is not given.
MessageSchema(payload) ==
    /\ Filled(payload.messageId) /\ Filled(payload.chatId) /\ Filled(payload.senderId)
    /\ payload.timestamp # None
    /\ MessageContentSchema(payload.content)
-----------------------------------------------------------------------------
\* What a message from the wire says, whatever wraps it.
Body(w) ==
    LET wrappers == DOMAIN w.message \cap
            {"viewOnceMessage", "viewOnceMessageV2", "viewOnceMessageV2Extension",
             "ephemeralMessage", "documentWithCaptionMessage"}
    IN  IF wrappers = {} THEN w.message ELSE w.message[CHOOSE f \in wrappers : TRUE].message

\* A message that has all that the schema asks for: an identity, a chat and
\* a time, and in the part that counts a reaction that is not taken back and
\* contacts with a name and a card.
Whole(w) ==
    LET body  == Body(w)
        Complete(c) == Filled(Get(c, "displayName")) /\ Filled(Get(c, "vcard"))
    IN  /\ Filled(Get(w.key, "id")) /\ Has(w, "messageTimestamp")
        /\ Filled(Get(w.key, "remoteJid")) \/ Filled(Get(w.key, "remoteJidAlt"))
        /\ Has(body, "reactionMessage") =>
              Filled(Get(body.reactionMessage, "text")) /\ Filled(Get(Get(body.reactionMessage, "key"), "id"))
        /\ Has(body, "contactMessage") => Complete(body.contactMessage)
        /\ Has(Get(body, "contactsArrayMessage"), "contacts") =>
              \A i \in DOMAIN body.contactsArrayMessage.contacts : Complete(body.contactsArrayMessage.contacts[i])

\* BaileysMessageMapper and the schema agree with that: what is mapped has
\* the fields of its type, comes from somebody in the chat, and is stored
\* exactly if it is whole; the context of a wrapped message is lost.
MappingExact ==
    \A w \in Incoming :
        LET payload == Payload[w]
            content == payload.content
        IN  payload # None =>
                /\ DOMAIN content = {"messageType", "context"} \cup Shape[content.messageType]
                /\ MessageSchema(payload) <=> Whole(w)
                /\ payload.senderId # payload.chatId \/ payload.chatId \notin Groups
                /\ Body(w) # w.message => content.context = None
=============================================================================
