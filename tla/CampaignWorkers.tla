--------------------------- MODULE CampaignWorkers ---------------------------
(***************************************************************************)
(* src/application/campaign/processor: CampaignProcessor and               *)
(* CampaignRetryWorker, which poll CampaignDispatcher.pick for a campaign  *)
(* and work on it under a lease, and CampaignScheduler.  One campaign, the *)
(* document MongoCampaignRepository reads and updates; any number of       *)
(* workers of either kind, in any number of processes.                     *)
(*                                                                         *)
(* Every call of the repository, the limiter and the orchestrator is       *)
(* awaited: work[w].pc names the one worker w awaits, and its answer       *)
(* with the code up to the next await are one action.                      *)
(*   pick   dispatcher.pick, or the pause before it                        *)
(*   read   findById                  turn   limiter.waitTurn              *)
(*   send   orchestrator.send         mark   updateProgress, sent          *)
(*   miss   updateProgress, in the catch block                             *)
(*   extend extendLock                delay  delayControl                  *)
(*   ban, pause, unlock, cleanup      releaseLock, at its four places      *)
(*   complete                         complete                             *)
(*   hung   waitTurn once a limit is reached: its sleep() never ends       *)
(*                                                                         *)
(* One call of orchestrator.send makes up to nine tries whose timeouts     *)
(* cancel nothing, and each of them may arrive, whether the call in the    *)
(* end returns or throws: Sends counts them.  Here the calls are counted,  *)
(* and who may have got a message at all.                                  *)
(*                                                                         *)
(* Time counts in halves of a minute.  External: a call of Mongo that      *)
(* rejects has changed nothing, one that a dead process made is applied    *)
(* before its lease ends, and the copy toDomain() makes of a recipient     *)
(* holds the fields that were stored.                                      *)
(***************************************************************************)
EXTENDS Integers, FiniteSets

CONSTANTS
    Workers,        \* the worker ids
    Retriers,       \* those that run CampaignRetryWorker
    Processes,      \* the sets of workers that die together
    Nobody,         \* lockedBy null
    Count,          \* number of recipients
    MaxTries,       \* 3 in executeCampaign and processCampaign
    BanSample,      \* 20 in detectBanRisk
    Budget          \* how often each accident happens, and any of them

Accidents == {"overrun", "crash", "mongo", "hang", "edit", "any"}

ASSUME CampaignAssumption ==
    /\ Retriers \subseteq Workers
    /\ Processes \subseteq SUBSET Workers
    /\ Nobody \notin Workers
    /\ Count \in Nat \ {0}
    /\ MaxTries \in Nat \ {0}
    /\ BanSample \in Nat \ {0}
    /\ Budget \in [Accidents -> Nat]

VARIABLES
    status,     \* the document: "absent", or its status
    owner,      \* lockedBy
    lease,      \* what is left until lockExpiresAt
    recip,      \* recipients: status ("later": pending, retryAt ahead), attempts
    work,       \* work[w]: where worker w is
    tried,      \* history: calls of orchestrator.send for each recipient
    returned,   \* history: those of them that returned
    reached,    \* history: recipients that got a message, or may still get one
    left        \* what is left of Budget

doc     == <<status, owner, lease, recip>>
history == <<tried, returned, reached>>
vars    == <<doc, work, history, left>>

Recipients == 1..Count

Recipient == [status   : {"pending", "later", "sent", "failed"},
              attempts : 0..MaxTries]

Place == {"pick", "read", "turn", "send", "mark", "miss", "extend", "delay", "ban",
          "pause", "complete", "unlock", "cleanup", "hung"}

(* r and seen: index and attempts of the recipient copied from findById; *)
(* ok and bad: success and failed.                                       *)
Work == [pc : Place, r : Recipients, seen : 0..MaxTries, ok : Nat, bad : Nat]
Idle == [pc |-> "pick", r |-> 1, seen |-> 0, ok |-> 0, bad |-> 0]

Init ==
    /\ status \in {"scheduled", "running"}
    /\ owner = Nobody
    /\ lease = 0
    /\ recip = [r \in Recipients |-> [status |-> "pending", attempts |-> 0]]
    /\ work = [w \in Workers |-> Idle]
    /\ tried = [r \in Recipients |-> 0]
    /\ returned = [r \in Recipients |-> 0]
    /\ reached = {}
    /\ left = Budget

At(w, p)   == work[w].pc = p
Goto(w, p) == work' = [work EXCEPT ![w].pc = p]
Leave(w)   == work' = [work EXCEPT ![w] = Idle]
Spent(a)   == Budget[a] - left[a]
Spend(a)   == /\ left[a] > 0 /\ left["any"] > 0
              /\ left' = [left EXCEPT ![a] = @ - 1, !["any"] = @ - 1]

(* A step of w takes t of the lease w holds.  Only whether a lease is over    *)
(* matters, and Expire and Overrun end one at any moment.                     *)
Elapse(w, t) == lease' = IF owner = w THEN IF lease > t THEN lease - t ELSE 0
                                      ELSE lease

(* What an error outside the inner try does: run() catches it, and the retry *)
(* worker then releases the lock.                                            *)
Throw(w) == work' = [work EXCEPT ![w] = [Idle EXCEPT !.pc =
                        IF w \in Retriers THEN "cleanup" ELSE "pick"]]

(* A process that ends: an unhandled rejection, a signal, a power cut. *)
Die(w) == \E p \in Processes :
              /\ w \in p
              /\ work' = [v \in Workers |-> IF v \in p THEN Idle ELSE work[v]]

-----------------------------------------------------------------------------
(* The dispatcher and the top of the loop *)

(* Mutant: recipients that are done are picked too. *)
DueUnlessFailed(r) == recip[r].status \in {"pending", "sent"}

(* A recipient pick() and findNextRecipient() look for. *)
Due(r) == recip[r].status = "pending"

(* Mutant: a lease is taken over before it expires. *)
PickAnyway(w) ==
    /\ At(w, "pick")
    /\ status = "running" /\ \E r \in Recipients : Due(r)
    /\ owner' = w /\ lease' = 2
    /\ Goto(w, "read")
    /\ UNCHANGED <<status, recip, history, left>>

(* Mutant: an expired lease is not taken over. *)
PickFree(w) ==
    /\ At(w, "pick")
    /\ status = "running" /\ \E r \in Recipients : Due(r)
    /\ owner = Nobody
    /\ owner' = w /\ lease' = 2
    /\ Goto(w, "read")
    /\ UNCHANGED <<status, recip, history, left>>

(* findOneAndLock: a lease of 60 seconds. *)
Pick(w) ==
    /\ At(w, "pick")
    /\ status = "running" /\ \E r \in Recipients : Due(r)
    /\ owner = Nobody \/ lease = 0
    /\ owner' = w /\ lease' = 2
    /\ Goto(w, "read")
    /\ UNCHANGED <<status, recip, history, left>>

(* findById throws: the campaign was deleted. *)
Gone(w) ==
    /\ At(w, "read") /\ status = "absent"
    /\ Throw(w)
    /\ UNCHANGED <<doc, history, left>>

LockLost(w) ==
    /\ At(w, "read") /\ status # "absent" /\ owner # w
    /\ Leave(w)
    /\ UNCHANGED <<doc, history, left>>

Paused(w) ==
    /\ At(w, "read") /\ status \notin {"absent", "running"} /\ owner = w
    /\ Goto(w, "pause")
    /\ UNCHANGED <<doc, history, left>>

(* findNextRecipient(): the processor begins anywhere, the retry worker at 0. *)
NextRecipient(w) == {r \in Recipients :
                        /\ Due(r)
                        /\ w \in Retriers => \A q \in 1..(r - 1) : ~Due(q)}

Choose(w) ==
    /\ At(w, "read") /\ status = "running" /\ owner = w
    /\ \E r \in NextRecipient(w) :
           work' = [work EXCEPT ![w].pc = "turn", ![w].r = r, ![w].seen = recip[r].attempts]
    /\ UNCHANGED <<doc, history, left>>

(* findNextRecipient() returns -1, also when recipients wait for a retry. *)
Finish(w) ==
    /\ At(w, "read") /\ status = "running" /\ owner = w
    /\ \A r \in Recipients : ~Due(r)
    /\ Goto(w, "complete")
    /\ UNCHANGED <<doc, history, left>>

-----------------------------------------------------------------------------
(* One recipient *)

Turn(w) ==
    /\ At(w, "turn")
    /\ Goto(w, "send")
    /\ UNCHANGED <<doc, history, left>>

(* 20 sends in the last minute, or 500 in the last hour. *)
Hang(w) ==
    /\ At(w, "turn")
    /\ Spend("hang")
    /\ work' = [work EXCEPT ![w] = [Idle EXCEPT !.pc = "hung"]]
    /\ UNCHANGED <<doc, history>>

(* orchestrator.send returns: the last of its tries arrived, and any of the  *)
(* earlier ones that timed out may have.  A call most of whose tries time    *)
(* out takes 100 seconds and so outlasts the first lease: an Overrun.        *)
Send(w) ==
    /\ At(w, "send")
    /\ tried' = [tried EXCEPT ![work[w].r] = @ + 1]
    /\ returned' = [returned EXCEPT ![work[w].r] = @ + 1]
    /\ reached' = reached \cup {work[w].r}
    /\ Elapse(w, 1)
    /\ Goto(w, "mark")
    /\ UNCHANGED <<status, owner, recip, left>>

(* It throws, and any of its tries may have arrived. *)
SendFails(w) ==
    /\ At(w, "send")
    /\ tried' = [tried EXCEPT ![work[w].r] = @ + 1]
    /\ reached' \in {reached, reached \cup {work[w].r}}
    /\ Elapse(w, 1)
    /\ Goto(w, "miss")
    /\ UNCHANGED <<status, owner, recip, returned, left>>

(* updateProgress: matches the recipient of an existing campaign, whoever *)
(* holds the lock.                                                        *)
Write(r, s, n) == recip' = IF status = "absent" THEN recip
                           ELSE [recip EXCEPT ![r] = [status |-> s, attempts |-> n]]

Mark(w) ==
    /\ At(w, "mark")
    /\ Write(work[w].r, "sent", work[w].seen)
    /\ work' = [work EXCEPT ![w] = [Idle EXCEPT !.pc = "extend", !.ok = work[w].ok + 1,
                                                !.bad = work[w].bad]]
    /\ UNCHANGED <<status, owner, lease, history, left>>

(* updateProgress rejects inside the try: the message counts as not sent. *)
MarkFails(w) ==
    /\ At(w, "mark")
    /\ Spend("mongo")
    /\ Goto(w, "miss")
    /\ UNCHANGED <<doc, history>>

(* Mutant: the first failure is the last. *)
MissForGood(w) ==
    /\ At(w, "miss")
    /\ Write(work[w].r, "failed", work[w].seen + 1)
    /\ work' = [work EXCEPT ![w] = [Idle EXCEPT !.pc = "extend", !.ok = work[w].ok,
                                                !.bad = work[w].bad + 1]]
    /\ UNCHANGED <<status, owner, lease, history, left>>

(* The catch block, from the copy read before the send. *)
Miss(w) ==
    /\ At(w, "miss")
    /\ LET n    == work[w].seen + 1
           last == n >= MaxTries
       IN  /\ Write(work[w].r, IF last THEN "failed" ELSE "later", n)
           /\ work' = [work EXCEPT ![w] = [Idle EXCEPT !.pc = "extend", !.ok = work[w].ok,
                                      !.bad = IF last THEN work[w].bad + 1 ELSE work[w].bad]]
    /\ UNCHANGED <<status, owner, lease, history, left>>

(* Mutant: the lease is not extended. *)
ExtendNothing(w) ==
    /\ At(w, "extend")
    /\ Goto(w, "delay")
    /\ UNCHANGED <<doc, history, left>>

(* extendLock: 120 seconds, of a lease that is this worker's and not expired. *)
Extend(w) ==
    /\ At(w, "extend")
    /\ lease' = IF owner = w /\ lease > 0 THEN 4 ELSE lease
    /\ Goto(w, "delay")
    /\ UNCHANGED <<status, owner, recip, history, left>>

BanRisk(w) == LET total == work[w].ok + work[w].bad
              IN  total >= BanSample /\ 5 * work[w].bad > 2 * total

(* Mutant: the worker leaves after one recipient. *)
DelayLeaves(w) ==
    /\ At(w, "delay")
    /\ Elapse(w, 2)
    /\ Leave(w)
    /\ UNCHANGED <<status, owner, recip, history, left>>

(* delayControl(), 47 seconds at most, and detectBanRisk(). *)
Delay(w) ==
    /\ At(w, "delay")
    /\ Elapse(w, 2)
    /\ Goto(w, IF BanRisk(w) THEN "ban" ELSE "read")
    /\ UNCHANGED <<status, owner, recip, history, left>>

-----------------------------------------------------------------------------
(* The end of the work on a campaign *)

(* releaseLock, which takes only this worker's lock away. *)
Release(w) ==
    /\ work[w].pc \in {"ban", "pause", "unlock", "cleanup"}
    /\ IF owner = w THEN owner' = Nobody /\ lease' = 0
                    ELSE UNCHANGED <<owner, lease>>
    /\ Leave(w)
    /\ UNCHANGED <<status, recip, history, left>>

(* complete(), of any campaign that exists *)
Complete(w) ==
    /\ At(w, "complete")
    /\ IF status = "absent" THEN UNCHANGED <<status, owner, lease>>
                            ELSE status' = "completed" /\ owner' = Nobody /\ lease' = 0
    /\ Goto(w, "unlock")
    /\ UNCHANGED <<recip, history, left>>

(* Mongo rejects a call.  In pick() and in the retry worker's catch block *)
(* nobody handles that, and the process ends.                             *)
MongoFails(w) ==
    /\ Spend("mongo")
    /\ \/ /\ work[w].pc \in {"read", "miss", "extend", "ban", "pause", "complete", "unlock"}
          /\ Throw(w)
       \/ /\ work[w].pc \in {"pick", "cleanup"}
          /\ Die(w)
    /\ UNCHANGED <<doc, history>>

Crash(w) ==
    /\ Spend("crash")
    /\ Die(w)
    /\ UNCHANGED <<doc, history>>

-----------------------------------------------------------------------------
(* Time, the scheduler and the document's other writers *)

(* lockExpiresAt passes: nobody extends the lease any more. *)
Expire ==
    /\ owner # Nobody /\ lease > 0
    /\ work[owner].pc \in {"pick", "hung"}
    /\ lease' = 0
    /\ UNCHANGED <<status, owner, recip, work, history, left>>

(* A step of the owner outlasts the lease. *)
Overrun ==
    /\ owner # Nobody /\ lease > 0
    /\ work[owner].pc \notin {"pick", "hung"}
    /\ Spend("overrun")
    /\ lease' = 0
    /\ UNCHANGED <<status, owner, recip, work, history>>

RetryDue(r) ==
    /\ recip[r].status = "later"
    /\ recip' = [recip EXCEPT ![r].status = "pending"]
    /\ UNCHANGED <<status, owner, lease, work, history, left>>

(* CampaignScheduler: activateNextScheduled, once scheduledAt is past. *)
Activate ==
    /\ status = "scheduled" /\ owner = Nobody
    /\ status' = "running"
    /\ UNCHANGED <<owner, lease, recip, work, history, left>>

(* The aggregate's pause() and start(), stored by hand: nothing calls them. *)
Edit ==
    /\ Spend("edit")
    /\ \/ status = "running" /\ status' = "paused"
       \/ status = "paused" /\ status' = "running"
    /\ UNCHANGED <<owner, lease, recip, work, history>>

Delete ==
    /\ status # "absent"
    /\ Spend("edit")
    /\ status' = "absent" /\ owner' = Nobody /\ lease' = 0
    /\ UNCHANGED <<recip, work, history>>

(* A campaign nobody works on for the moment: pick() finds nothing. *)
Poll ==
    /\ \A w \in Workers : work[w].pc \in {"pick", "hung"}
    /\ UNCHANGED vars

Step(w) ==
    \/ Pick(w) \/ Gone(w) \/ LockLost(w) \/ Paused(w) \/ Choose(w) \/ Finish(w)
    \/ Turn(w) \/ Send(w) \/ SendFails(w) \/ Mark(w) \/ Miss(w)
    \/ Extend(w) \/ Delay(w) \/ Release(w) \/ Complete(w)

Accident(w) == Hang(w) \/ MarkFails(w) \/ MongoFails(w) \/ Crash(w)

Next ==
    \/ \E w \in Workers : Step(w) \/ Accident(w)
    \/ Expire \/ Overrun \/ \E r \in Recipients : RetryDue(r)
    \/ Activate \/ Edit \/ Delete \/ Poll

(* Awaited calls return, timers fire, polling goes on, retry times come. *)
Fairness ==
    /\ \A w \in Workers : WF_vars(Step(w))
    /\ WF_vars(Expire)
    /\ \A r \in Recipients : WF_vars(RetryDue(r))
    /\ WF_vars(Activate)

Spec == Init /\ [][Next]_vars /\ Fairness

-----------------------------------------------------------------------------
(* Properties *)

TypeOK ==
    /\ status \in {"absent", "scheduled", "running", "paused", "completed"}
    /\ owner \in Workers \cup {Nobody}
    /\ lease \in 0..4
    /\ recip \in [Recipients -> Recipient]
    /\ work \in [Workers -> Work]
    /\ tried \in [Recipients -> Nat]
    /\ returned \in [Recipients -> Nat]
    /\ reached \subseteq Recipients
    /\ left \in [Accidents -> Nat]

InTime  == Spent("overrun") = 0
Busy(w) == work[w].pc \notin {"pick", "hung"}

(* Mutual exclusion by the lease that Pick takes and Extend prolongs: as long *)
(* as no step outlasts it, no two workers are between pick() and the end of   *)
(* executeCampaign() or processCampaign(), and the one that is holds the lock *)
(* of a campaign that is neither completed nor deleted.                       *)
OneWorker ==
    InTime => \A w \in Workers : Busy(w) =>
                  /\ \A v \in Workers \ {w} : ~Busy(v)
                  /\ status \in {"completed", "absent"} \/ owner = w

(* updateProgress writes fields copied before the send and asks nothing about *)
(* the lock; within the lease it still never undoes a recipient's 'sent'.     *)
SentStays ==
    [][InTime' => \A r \in Recipients :
                      recip[r].status = "sent" => recip'[r].status = "sent"]_vars

(* The anti-duplication promise of the lock: a recipient for whom the send    *)
(* returned is sent to again only because a crash or a failed write came      *)
(* between the send and updateProgress, and once for each of these.           *)
ReturnedOnce ==
    InTime => \A r \in Recipients :
                  returned[r] <= 1 + Spent("crash") + Spent("mongo")

(* The limit of three attempts holds over all workers, processor and retry    *)
(* worker alike, but for attempts whose end nobody could record.              *)
TriesBounded ==
    InTime => \A r \in Recipients :
                  tried[r] <= MaxTries + Spent("crash") + Spent("mongo")

(* The limits on the calls of send() that return, and on all calls.  They say *)
(* nothing of single messages: each call may deliver as many as it has tries, *)
(* with no accident at all (CopiesExplained in Sends).                        *)
SendsBounded == ReturnedOnce /\ TriesBounded

(* Whatever happens, overruns included: a recipient stored as sent got the    *)
(* message, one stored as failed had all its attempts.                        *)
Truthful ==
    \A r \in Recipients :
        /\ recip[r].status = "sent" => r \in reached
        /\ recip[r].status = "failed" => tried[r] >= MaxTries

(* Whatever happens, a campaign that complete() closed was sent to each of    *)
(* its recipients at least once: index -1 never hides a fresh recipient.      *)
NobodySkipped ==
    status = "completed" => \A r \in Recipients : tried[r] > 0

(* The types, and what the stored statuses say, whatever happens. *)
CampaignSound == TypeOK /\ Truthful /\ NobodySkipped

(* The comment on the loop's exit, 'campaign finished': no recipient of a     *)
(* completed campaign still waits for a retry.                                *)
CompletedMeansDone ==
    status = "completed" => \A r \in Recipients : recip[r].status \in {"sent", "failed"}

AllHung == \A w \in Workers : work[w].pc = "hung"

(* Crashes, failed calls and lost leases included: as long as one worker is   *)
(* not hung in waitTurn(), every recipient of a running campaign ends as sent *)
(* or failed, unless the campaign stops running first.                        *)
Served ==
    \A r \in Recipients :
        (status = "running" /\ recip[r].status \in {"pending", "later"})
            ~> (status # "running" \/ recip[r].status \in {"sent", "failed"} \/ AllHung)

(* pick() never returns a campaign without pending recipients, so the worker  *)
(* that settles the last one must also complete it: a crash, a failed call, a *)
(* pause or a ban in between, or a lease that expired and went to a worker    *)
(* that hangs, leave it running for good.                                     *)
Calm == /\ Spent("crash") + Spent("mongo") + Spent("edit") = 0
        /\ Spent("overrun") = 0 \/ Spent("hang") = 0
        /\ \A w \in Workers : ~At(w, "ban")
        /\ ~AllHung

(* Without those, a running campaign ends.                                    *)
Ends == []Calm => (status = "running" ~> status # "running")
=============================================================================
