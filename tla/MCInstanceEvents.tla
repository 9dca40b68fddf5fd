-------------------------- MODULE MCInstanceEvents --------------------------
\* Batches of sections, in the order of the router, about a group and another
\* chat, and messages of every kind, plain and wrapped.
EXTENDS InstanceEvents

CONSTANTS group, chat, friend

Section0 == [kind |-> "webhook", chats |-> {}, fields |-> {}, type |-> None, messages |-> {}]
Of(kind, cs) == [Section0 EXCEPT !.kind = kind, !.chats = cs]
Change(kind, cs, fields) == [Of(kind, cs) EXCEPT !.fields = fields]
Received(type, ws) == [Section0 EXCEPT !.kind = "messages.upsert", !.type = type, !.messages = ws]

Contact(name) == [displayName |-> name, vcard |-> "card"]
Forwarded == [isForwarded |-> TRUE, quotedMessage |-> [locationMessage |-> None]]
Quote == [stanzaId |-> "id0", quotedMessage |-> [conversation |-> "hi"]]
Place == [degreesLatitude |-> 0, degreesLongitude |-> 0]

\* Parts of which the mapper looks at nothing but the context.
Plain == {"imageMessage", "videoMessage", "audioMessage", "documentMessage", "stickerMessage", "pollCreationMessage",
          "pollCreationMessageV3", "pollUpdateMessage", "groupInviteMessage", "buttonsResponseMessage",
          "listResponseMessage", "interactiveMessage", "productMessage", "eventMessage", "protocolMessage", "call"}

Bodies ==
    {p :> [contextInfo |-> Quote] : p \in Plain} \cup
    {[extendedTextMessage |-> [text |-> "hi", contextInfo |-> Quote]],
     [extendedTextMessage |-> [text |-> "hi", contextInfo |-> Forwarded]],
     [extendedTextMessage |-> [contextInfo |-> Forwarded]],
     [conversation |-> "hi"], [conversation |-> ""],
     [locationMessage |-> Place], [locationMessage |-> [degreesLatitude |-> 0]], [liveLocationMessage |-> Place],
     [contactMessage |-> Contact("friend")], [contactMessage |-> [displayName |-> "friend"]],
     [contactsArrayMessage |-> [contacts |-> <<Contact("friend"), Contact("")>>]], [contactsArrayMessage |-> <<>>],
     [reactionMessage |-> [text |-> "ok", key |-> [id |-> "id0"]]], [reactionMessage |-> [key |-> [id |-> "id0"]]],
     [call |-> <<>>, callLogMesssage |-> <<>>], [secretEncryptedMessage |-> <<>>]}

Wrappers == {"viewOnceMessage", "ephemeralMessage", "documentWithCaptionMessage"}

Key == [fromMe |-> FALSE, id |-> "id1", remoteJid |-> chat]

Keys == {Key, [Key EXCEPT !.fromMe = TRUE], [Key EXCEPT !.id = ""], [fromMe |-> FALSE, id |-> "id1"],
         [fromMe |-> FALSE, id |-> "id1", remoteJid |-> group, participant |-> friend]}

From(key, body) == [key |-> key, message |-> body, messageTimestamp |-> 1]

Hi == From(Key, [conversation |-> "hi"])
TakenBack == From([Key EXCEPT !.id = "id2"], [reactionMessage |-> [key |-> [id |-> "id1"]]])

MCIncoming ==
    {From(key, body) : key \in Keys, body \in Bodies} \cup
    {From(Key, w :> [message |-> body]) : w \in Wrappers, body \in Bodies} \cup
    {TakenBack, [key |-> Key, message |-> [conversation |-> "hi"]]}

MCContents == {
    <<Of("messaging-history.set", {group, chat})>>,
    <<Of("messaging-history.set", {}), Received("notify", {TakenBack})>>,
    <<Received("append", {Hi}), Of("chats.upsert", {chat}), Of("groups.upsert", {group})>>,
    <<Change("chats.update", {group, chat}, {"unread"})>>,
    <<Of("chats.delete", {chat}), Change("groups.update", {group}, {})>>,
    <<Received("notify", {TakenBack})>>,
    <<Received("notify", {Hi}), Section0, Section0>> }
=============================================================================
