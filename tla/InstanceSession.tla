--------------------------- MODULE InstanceSession ---------------------------
(***************************************************************************)
(* One WhatsApp instance, below the RuntimeManager: its document in Mongo, *)
(* its auth folder, and the runtimes (WhatsAppInstanceRuntime objects, one *)
(* BaileysConnection and one socket each) created for it since boot.       *)
(*                                                                         *)
(* A connection announces 'connected' and 'disconnected' on the shared     *)
(* NodeEventBus.  emit() calls every listener, and each runtime that was   *)
(* ever started for the instance has one, for nothing removes it.  A       *)
(* listener runs up to its first await (the repository update) inside      *)
(* emit(); its update, and what follows, is a letter in inbox.             *)
(*                                                                         *)
(* External: Baileys and the WhatsApp servers.  A socket with no paired    *)
(* credentials shows a QR code until a phone pairs it, and is then closed  *)
(* by the server with restartRequired; one with paired credentials opens.  *)
(* end() emits 'close' at once, and nothing if the socket is closed.       *)
(***************************************************************************)
EXTENDS Integers, FiniteSets

CONSTANT Runtimes   \* the runtime objects that may be created

ASSUME SessionAssumption == IsFiniteSet(Runtimes)

VARIABLES
    doc,        \* the instance's document: "absent" or its status
    creds,      \* the auth folder: "empty" or "paired"
    sock,       \* sock[k]: "none", "fresh" (QR), "opening", "open", "closed"
    wired,      \* runtimes listening to their socket, with a lifecycle attached
    bound,      \* runtimes that did bindEvents()
    inbox,      \* the listeners' updates under way, and what follows them
    events,     \* number of 'connected' and 'disconnected' emitted so far
    wipes       \* clearAuthFolder() calls under way

sessionVars == <<doc, creds, sock, wired, bound, inbox, events, wipes>>

DisconnectType == {"TRANSIENT", "INVALID_SESSION", "LOGGED_OUT"}
Event          == {"connected"} \cup DisconnectType
Live           == {k \in Runtimes : sock[k] \in {"fresh", "opening", "open"}}

Letter == [rt : Runtimes, event : Event, num : Nat, stage : {"update", "publish"}]

SessionInit ==
    /\ doc \in {"disconnected", "connected"}
    /\ creds \in {"empty", "paired"}
    /\ sock = [k \in Runtimes |-> "none"]
    /\ wired = {} /\ bound = {} /\ inbox = {}
    /\ events = 0 /\ wipes = 0

(* eventBus.emit: every bound runtime starts its repository update, next to *)
(* the letters of box.                                                      *)
Emit(e, box) ==
    /\ events' = events + 1
    /\ inbox' = box \cup {[rt |-> k, event |-> e, num |-> events + 1, stage |-> "update"] :
                              k \in bound}

(* Mutant: the credentials are removed whatever the reason. *)
CloseSocketAndWipe(k, e, box) ==
    /\ sock' = [sock EXCEPT ![k] = "closed"]
    /\ IF k \in wired
       THEN /\ Emit(e, box)
            /\ wipes' = wipes + 1
       ELSE inbox' = box /\ UNCHANGED <<events, wipes>>

(* 'connection.update' with connection 'close', classified as e. *)
CloseSocket(k, e, box) ==
    /\ sock' = [sock EXCEPT ![k] = "closed"]
    /\ IF k \in wired
       THEN /\ Emit(e, box)
            /\ wipes' = wipes + (IF e = "TRANSIENT" THEN 0 ELSE 1)
       ELSE inbox' = box /\ UNCHANGED <<events, wipes>>

(* disconnect(): the Boom it passes has status 500, which classifyDisconnect *)
(* takes for badSession.                                                     *)
EndSocket(k, box) ==
    IF k \in Live THEN CloseSocket(k, "INVALID_SESSION", box)
                  ELSE inbox' = box /\ UNCHANGED <<sock, events, wipes>>

(* 'connection.update' with connection 'open'. *)
Open(k) ==
    /\ sock[k] = "opening" /\ k \in wired
    /\ sock' = [sock EXCEPT ![k] = "open"]
    /\ Emit("connected", inbox)
    /\ UNCHANGED <<doc, creds, wired, bound, wipes>>

(* A phone pairs the socket; the server then asks for a new connection. *)
Pair(k) ==
    /\ sock[k] = "fresh" /\ k \in wired
    /\ creds' = "paired"
    /\ CloseSocket(k, "TRANSIENT", inbox)
    /\ UNCHANGED <<doc, wired, bound>>

(* The server or the network closes the socket. *)
ServerCloses(k, e) ==
    /\ k \in Live
    /\ CloseSocket(k, e, inbox)
    /\ UNCHANGED <<doc, creds, wired, bound>>

(* repository.update: updateOne finds nothing once the document is deleted. *)

(* Mutants: an invalid session is not a disconnection; the update upserts. *)
StatusOfKeeps(e) == IF e \in {"connected", "INVALID_SESSION"} THEN "connected" ELSE "disconnected"
StoreUpserts(s)  == doc' = s

StatusOf(e) == IF e = "connected" THEN "connected" ELSE "disconnected"
Store(s)    == doc' = IF doc = "absent" THEN doc ELSE s

Update(m) ==
    /\ m \in inbox /\ m.stage = "update"
    /\ Store(StatusOf(m.event))
    /\ inbox' = (inbox \ {m}) \cup
                    (IF m.event = "connected" THEN {} ELSE {[m EXCEPT !.stage = "publish"]})
    /\ UNCHANGED <<creds, sock, wired, bound, events, wipes>>

(* No update asked for earlier is still under way. *)
InTurn(m) == \A n \in inbox : n.stage = "update" => m.num <= n.num

(* clearAuthFolder() gets to remove the folder. *)
Wipe ==
    /\ wipes > 0
    /\ wipes' = wipes - 1
    /\ creds' = "empty"
    /\ UNCHANGED <<doc, sock, wired, bound, inbox, events>>

(* The process dies: only the document and the folder survive. *)
SessionCrash ==
    /\ sock' = [k \in Runtimes |-> "none"]
    /\ wired' = {} /\ bound' = {} /\ inbox' = {}
    /\ events' = 0 /\ wipes' = 0
    /\ UNCHANGED <<doc, creds>>

SessionTypeOK ==
    /\ doc \in {"absent", "disconnected", "connected"}
    /\ creds \in {"empty", "paired"}
    /\ sock \in [Runtimes -> {"none", "fresh", "opening", "open", "closed"}]
    /\ wired \subseteq Runtimes
    /\ bound \subseteq Runtimes
    /\ inbox \subseteq Letter
    /\ events \in Nat
    /\ wipes \in Nat
=============================================================================
