CONSTANTS
    group = group chat = chat friend = friend None = None InstanceId = InstanceId
    Batches = {1, 2, 3}
    Contents <- MCContents
    Chats = {group, chat}
    Groups = {group}
    Incoming <- MCIncoming
    Attempts = 2
    Accidents = 1
    FailureThreshold = 2
    SuccessThreshold = 2
SPECIFICATION Spec
INVARIANTS Sound MessagesExact ChatsFaithful
PROPERTIES AppearsByName HandlersEnd
CHECK_DEADLOCK FALSE
