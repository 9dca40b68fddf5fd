------------------------------ MODULE Endpoints ------------------------------
(***************************************************************************)
(* What the server does for a request, endpoint by endpoint: the steps of  *)
(* the route's guards, of the controller and of the use case behind the    *)
(* command or query bus, in their order.  Api.tla runs them.               *)
(*                                                                         *)
(* A client gets at most one thing wrong, a <<place, field>> pair; a       *)
(* field of the URL that the route's path does not have is undefined.      *)
(*   Validate(S)      express-validator: refused if a field of S is wrong  *)
(*                    or is a URL parameter the path does not have         *)
(*   Refuse(f, e)     throws e if f is wrong                               *)
(*   Param(f, e)      throws e if the path has no parameter f              *)
(*   Await(op, e)     awaits a read, a write or a call; it may reject      *)
(*                    with e                                               *)
(*   Found(e), Absent(e), Offline(e)  throw e on the document just read    *)
(*   Runtime(e)       throws e if the registry has no runtime              *)
(*   Skip(c, n)       leaves out the next n steps when c holds             *)
(*   Now(op)          a change made without waiting                        *)
(*   Reply(s)         answers                                              *)
(***************************************************************************)
EXTENDS HttpErrors, TLC

Validate(S)  == [do |-> "validate", arg |-> S, error |-> "ValidationError"]
Refuse(f, e) == [do |-> "refuse", arg |-> f, error |-> e]
Param(f, e)  == [do |-> "param", arg |-> f, error |-> e]
Await(op, e) == [do |-> "await", arg |-> op, error |-> e]
Found(e)     == [do |-> "found", arg |-> "copy", error |-> e]
Absent(e)    == [do |-> "absent", arg |-> "copy", error |-> e]
Offline(e)   == [do |-> "offline", arg |-> "copy", error |-> e]
Runtime(e)   == [do |-> "runtime", arg |-> "registry", error |-> e]
Skip(c, n)   == [do |-> "skip", arg |-> c, error |-> n]
Now(op)      == [do |-> "now", arg |-> op, error |-> "none"]
Reply(s)     == [do |-> "reply", arg |-> s, error |-> "none"]

Body(F)   == {"body"} \X F
Params(F) == {"params"} \X F

Nothing   == <<"nothing", "nothing">>
Token     == <<"header", "authorization">>
NoFile    == <<"file", "missing">>      \* the upload is not there
BadFile   == <<"file", "type">>         \* its type is not one of the filter's
NotAPhone == <<"body", "phone">>        \* fits the pattern, and is no number of any country
ShortName == <<"body", "shortName">>    \* one character, or more than fifty
ShortText == <<"body", "shortText">>    \* a description of one, or of more than 150

-----------------------------------------------------------------------------
(* Schemas. *)

instanceIdSchema       == Params({"instanceId"})
createInstanceSchema   == Body({"name", "webhookUrl", "usePairingCode", "phoneNumber"})
webhookUrlValidator    == Body({"webhookUrl"})
recipientSchema        == Body({"to"})
messageSchema          == instanceIdSchema \cup recipientSchema \cup Body({"message"})
captionSchema          == Body({"caption"})
filenameSchema         == Body({"fileName"})
imageSchema            == instanceIdSchema \cup recipientSchema \cup captionSchema \cup filenameSchema
documentSchema         == instanceIdSchema \cup recipientSchema \cup captionSchema
audioSchema            == instanceIdSchema \cup recipientSchema \cup Body({"ptt"})
videoSchema            == imageSchema \cup Body({"gifPlayback"})
locationSchema         == instanceIdSchema \cup recipientSchema
                              \cup Body({"latitude", "longitude", "place", "address"})
reactionSchema         == instanceIdSchema \cup Body({"messageId", "chatId", "emoji"})
contactSchema          == instanceIdSchema \cup recipientSchema \cup Body({"contacts"})
stickerSchema          == instanceIdSchema \cup recipientSchema
participantesSchema    == Body({"participants"})
createGroupSchema      == instanceIdSchema \cup Body({"name"}) \cup participantesSchema
addParticipantsSchema  == instanceIdSchema \cup Body({"groupId"}) \cup participantesSchema
removeParticipantsSchema == addParticipantsSchema
campaignIdSchema       == Params({"campaignId"})
createCampaignSchema   == Body({"instanceId", "name", "message", "description", "numbers"})
updateCampaignSchema   == campaignIdSchema \cup createCampaignSchema
flowIdSchema           == Params({"flowId"})
createFlowSchema       == Body({"instanceId", "name"})
createNodesSchema      == Body({"flowId", "nodes", "name", "triggers"})
updateFlowSchema       == flowIdSchema \cup createFlowSchema

-----------------------------------------------------------------------------
(* RuntimeManager, as the use cases call it. *)

runtimeStart ==
    << Skip("registered", 4), Await("findInstance", "InfrastructureError"),
       Absent("RuntimeError"), Await("connect", "Error"), Now("register") >>

runtimeStop == << Skip("unregistered", 1), Now("unregister") >>

(* Use cases of instances. *)

InstancesCreator ==
    << Refuse(ShortName, "ValidationError"), Await("findByName", "InfrastructureError"),
       Found("ConflictError"), Await("saveInstance", "InfrastructureError") >> \o runtimeStart

InstancesEraser == << Await("deleteInstance", "InfrastructureError") >> \o runtimeStop

InstancesConnect    == runtimeStart
InstancesDisconnect == runtimeStop

(* GetInstanceQueryHandler and GetQRCodeStatusQueryHandler turn every error *)
(* into NotFoundError.                                                      *)
FindInstance      == << Await("findInstance", "NotFoundError"), Absent("NotFoundError") >>
InstancesSearcher == << Await("read", "InfrastructureError") >>
QRCodeSearcher ==
    << Await("findInstance", "InfrastructureError"), Absent("Error"), Await("qr", "Error") >>
QRCodeStatus   == FindInstance \o << Await("qr", "NotFoundError") >>

(* Use cases of messages.  Text goes to the orchestrator, and nobody waits. *)

TextMessageSender ==
    << Await("findInstance", "InfrastructureError"), Absent("NotFoundError"),
       Offline("ValidationError"), Now("send") >>

(* The runtime's messaging is asked at once, past the limiter. *)
ImageSender ==
    << Await("findInstance", "InfrastructureError"), Absent("NotFoundError"),
       Offline("ValidationError"), Runtime("RuntimeError"),
       Await("message", "WhatsAppConnectionError") >>
DocumentSender == ImageSender
AudioSender    == ImageSender
VideoSender    == ImageSender
LocationSender == ImageSender
ReactionSender == ImageSender
ContactSender  == ImageSender
StickerSender  == ImageSender

(* Use cases of groups and chats. *)

GroupCreator ==
    << Await("findInstance", "InfrastructureError"), Absent("NotFoundError"),
       Offline("ValidationError"), Runtime("RuntimeError"),
       Await("group", "WhatsAppConnectionError") >>

(* The status is not looked at. *)
ParticipantsAggregator ==
    << Await("findInstance", "InfrastructureError"), Absent("NotFoundError"),
       Runtime("RuntimeError"), Await("members", "WhatsAppConnectionError") >>
ParticipantsRemover == ParticipantsAggregator

(* syncChats is not waited for, and its result read at once. *)
GroupsFinder ==
    << Await("findGroups", "InfrastructureError"), Skip("found", 4),
       Runtime("RuntimeError"), Await("fetchGroups", "WhatsAppConnectionError"),
       Now("syncChats"), Await("findGroups", "InfrastructureError") >>

ChatsFinder == << Await("read", "InfrastructureError") >>

(* Use cases of campaigns and flows. *)

CampaignCreator    == << Await("saveCampaign", "InfrastructureError") >>
CampaignEraser     == << Await("deleteCampaign", "InfrastructureError") >>
CampaignUpdater    == << Await("read", "InfrastructureError") >>    \* and nothing is saved
CampaignFinderById == << Await("read", "InfrastructureError") >>
CampaignFinder     == << Await("read", "InfrastructureError") >>
ProgressFinder     == << Await("read", "InfrastructureError") >>

FlowCreator  == << Await("createFlow", "Error") >>
FlowUpdater  == << Await("findFlow", "Error"), Absent("NotFoundError"), Await("saveFlow", "Error") >>
FlowEraser   == << Await("findFlow", "Error"), Absent("NotFoundError"), Await("deactivateFlow", "Error") >>
NodesEraser  == << Await("findFlow", "Error"), Absent("NotFoundError"), Await("saveFlow", "Error") >>
(* Every error becomes a plain Error. *)
NodesCreator ==
    << Await("findFlow", "Error"), Absent("Error"), Refuse(<<"body", "start">>, "Error"),
       Await("saveFlow", "Error") >>
GetFlow      == << Await("findFlow", "Error") >>
ListFlows    == << Await("read", "Error") >>

-----------------------------------------------------------------------------
(* Controllers. *)

CreateInstanceController     == InstancesCreator \o << Reply(201) >>
DeleteInstanceController     == InstancesEraser \o << Reply(200) >>
ConnectInstanceController    == InstancesConnect \o << Reply(201) >>
DisconnectInstanceController == InstancesDisconnect \o << Reply(200) >>
GetInstanceController        == FindInstance \o << Reply(200) >>
GetInstancesController       == InstancesSearcher \o << Reply(200) >>
GetQRController              == QRCodeSearcher \o << Reply(200) >>
renderQRPage                 == QRCodeSearcher \o << Reply(200) >>
GetQRStatusController ==
    QRCodeStatus \o << Absent("WhatsAppConnectionError"), Reply(200) >>

toJid == Refuse(NotAPhone, "Error")

SendTextController     == << toJid >> \o TextMessageSender \o << Reply(200) >>
SendImageController    == << Refuse(NoFile, "NotFoundError"), toJid >> \o ImageSender \o << Reply(200) >>
SendDocumentController == << Refuse(NoFile, "NotFoundError"), toJid >> \o DocumentSender \o << Reply(200) >>
SendAudioController    == << Refuse(NoFile, "NotFoundError"), toJid >> \o AudioSender \o << Reply(200) >>
SendVideoController    == << Refuse(NoFile, "NotFoundError"), toJid >> \o VideoSender \o << Reply(200) >>
SendStickerController  == << Refuse(NoFile, "NotFoundError"), toJid >> \o StickerSender \o << Reply(200) >>
SendLocationController == << toJid >> \o LocationSender \o << Reply(200) >>
SendContactController  == << toJid >> \o ContactSender \o << Reply(200) >>
SendReactionController == ReactionSender \o << Reply(200) >>

CreateGroupController        == GroupCreator \o << Reply(201) >>
AddParticipantsController    == ParticipantsAggregator \o << Reply(200) >>
RemoveParticipantsController == ParticipantsRemover \o << Reply(200) >>
ListGroupsController         == GroupsFinder \o << Reply(200) >>
ListChatsController          == ChatsFinder \o << Reply(200) >>

(* The campaign's id is read from req.params.id, in all but the first two. *)
CreateCampaignController ==
    << Refuse(ShortName, "ValidationError"), Refuse(ShortText, "ValidationError") >>
        \o CampaignCreator \o << Reply(201) >>
FindCampaignByIdController  == CampaignFinderById \o << Reply(200) >>
ListCampaignsController     == CampaignFinder \o << Reply(200) >>
ProgressCampaignsController == ProgressFinder \o << Reply(200) >>
DeleteCampaignController ==
    << Param("id", "ValidationError") >> \o CampaignEraser \o << Reply(200) >>
UpdateCampaignController ==
    << Param("id", "ValidationError"), Refuse(ShortName, "ValidationError"),
       Refuse(ShortText, "ValidationError") >> \o CampaignUpdater \o << Reply(200) >>

CreateFlowController ==
    << Refuse(ShortName, "ValidationError") >> \o FlowCreator \o << Reply(201) >>
CreateNodesController == NodesCreator \o << Reply(201) >>
DeleteFlowController  ==
    << Param("flowId", "ValidationError") >> \o FlowEraser \o << Reply(202) >>
DeleteNodesController ==
    << Param("flowId", "ValidationError") >> \o NodesEraser \o << Reply(200) >>
GetFlowController     == GetFlow \o << Reply(200) >>
ListFlowsController   == ListFlows \o << Reply(200) >>
UpdateFlowController  ==
    << Param("flowId", "ValidationError"), Refuse(ShortName, "ValidationError") >>
        \o FlowUpdater \o << Reply(200) >>

-----------------------------------------------------------------------------
(* Routers: an endpoint is the parameters of its path, and its steps. *)

Route(path, guards, controller) == [path |-> path, steps |-> guards \o controller]

upload == << Refuse(BadFile, "Error") >>

InstanceRouter ==
    LET ofInstance(c) == Route({"instanceId"}, << Validate(instanceIdSchema) >>, c)
    IN  [ createInstance |-> Route({}, << Validate(createInstanceSchema), Validate(webhookUrlValidator) >>,
                                   CreateInstanceController),
          listInstances  |-> Route({}, << >>, GetInstancesController),
          getInstance    |-> ofInstance(GetInstanceController),
          qrView         |-> ofInstance(renderQRPage),
          qrStatus       |-> ofInstance(GetQRStatusController),
          qr             |-> ofInstance(GetQRController),
          deleteInstance |-> ofInstance(DeleteInstanceController),
          disconnect     |-> ofInstance(DisconnectInstanceController),
          connect        |-> ofInstance(ConnectInstanceController) ]

MessageRouter ==
    [ sendText |-> Route({"instanceId"}, << Validate(messageSchema) >>, SendTextController) ]

MultimediaRouter ==
    LET file(S, c)  == Route({"instanceId"}, upload \o << Validate(S) >>, c)
        plain(S, c) == Route({"instanceId"}, << Validate(S) >>, c)
    IN  [ image    |-> file(imageSchema, SendImageController),
          document |-> file(documentSchema, SendDocumentController),
          audio    |-> file(audioSchema, SendAudioController),
          video    |-> file(videoSchema, SendVideoController),
          location |-> plain(locationSchema, SendLocationController),
          reaction |-> plain(reactionSchema, SendReactionController),
          contact  |-> plain(contactSchema, SendContactController),
          sticker  |-> file(stickerSchema, SendStickerController) ]

GroupRouter ==
    LET ofGroup == {"instanceId", "groupId"}
    IN  [ listGroups    |-> Route({"instanceId"}, << Validate(instanceIdSchema) >>, ListGroupsController),
          createGroup   |-> Route({"instanceId"}, << Validate(createGroupSchema) >>, CreateGroupController),
          addMembers    |-> Route(ofGroup, << Validate(addParticipantsSchema) >>, AddParticipantsController),
          removeMembers |-> Route(ofGroup, << Validate(removeParticipantsSchema) >>,
                                  RemoveParticipantsController) ]

ChatsRouter ==
    [ listChats |-> Route({"instanceId"}, << Validate(instanceIdSchema) >>, ListChatsController) ]

CampaignRouter ==
    LET ofCampaign(S, c) == Route({"campaignId"}, << Validate(S) >>, c)
    IN  [ listCampaigns  |-> Route({}, << >>, ListCampaignsController),
          getCampaign    |-> ofCampaign(campaignIdSchema, FindCampaignByIdController),
          createCampaign |-> Route({}, << Validate(createCampaignSchema) >>, CreateCampaignController),
          progress       |-> ofCampaign(campaignIdSchema, ProgressCampaignsController),
          updateCampaign |-> ofCampaign(updateCampaignSchema, UpdateCampaignController),
          deleteCampaign |-> ofCampaign(campaignIdSchema, DeleteCampaignController) ]

FlowsRouter ==
    LET ofFlow(c) == Route({"flowId"}, << Validate(flowIdSchema) >>, c)
    IN  [ listFlows   |-> Route({"instanceId"}, << Validate(instanceIdSchema) >>, ListFlowsController),
          getFlow     |-> ofFlow(GetFlowController),
          createFlow  |-> Route({}, << Validate(createFlowSchema) >>, CreateFlowController),
          createNodes |-> Route({}, << Validate(createNodesSchema) >>, CreateNodesController),
          updateFlow  |-> Route({}, << Validate(updateFlowSchema) >>, UpdateFlowController),
          deleteFlow  |-> ofFlow(DeleteFlowController),
          deleteNodes |-> ofFlow(DeleteNodesController) ]

Endpoint ==
    InstanceRouter @@ MessageRouter @@ MultimediaRouter @@ GroupRouter @@ ChatsRouter
        @@ CampaignRouter @@ FlowsRouter

(* What a client of endpoint e can get wrong. *)
Mistake(e) ==
    LET refused == {Endpoint[e].steps[k] : k \in DOMAIN Endpoint[e].steps}
    IN  {Token} \cup UNION {s.arg : s \in {t \in refused : t.do = "validate"}}
                \cup {s.arg : s \in {t \in refused : t.do = "refuse"}}
=============================================================================
