------------------------ MODULE CampaignWorkersProofs ------------------------
(***************************************************************************)
(* Proofs about CampaignWorkers for every value of its constants: any      *)
(* number of workers, processes and recipients, any limits, and any number *)
(* of accidents.                                                           *)
(*                                                                         *)
(* Two inductive invariants.  Told says what attempts, statuses and the    *)
(* copies the workers hold tell of the calls of send(), and survives lost  *)
(* leases.  Leased says how much of its lease a worker has left at each    *)
(* await if no step outlasted it: what Pick gives is enough for one send,  *)
(* what Extend gives for the pause and the next send.                      *)
(***************************************************************************)
EXTENDS CampaignWorkers, TLAPS

USE CampaignAssumption

Copying == {"turn", "send"}
Writing == {"mark", "miss"}

(* Each worker's copy against the history. *)
ToldTo(w) ==
    LET c == work[w]
    IN  /\ c.pc \in Copying => c.seen < MaxTries /\ c.seen <= tried[c.r]
        /\ c.pc \in Writing => c.seen < MaxTries /\ c.seen < tried[c.r]
        /\ c.pc = "mark" => c.r \in reached
        /\ c.pc = "complete" => \A r \in Recipients : tried[r] > 0

(* Each recipient against the history. *)
ToldOf(r) ==
    /\ recip[r].attempts <= tried[r]
    /\ r \in reached => tried[r] > 0
    /\ recip[r].status = "sent" => r \in reached
    /\ recip[r].status = "later" => recip[r].attempts > 0
    /\ recip[r].status = "failed" <=> recip[r].attempts = MaxTries

Told ==
    /\ \A w \in Workers : ToldTo(w)
    /\ \A r \in Recipients : ToldOf(r)
    /\ status = "completed" => \A r \in Recipients : tried[r] > 0
    /\ \A a \in Accidents : left[a] <= Budget[a]

IInv == TypeOK /\ Told

-----------------------------------------------------------------------------
(* Steps that change one worker's place and neither the recipients nor the *)
(* history.                                                                *)

LEMMA IdleIsWork == Idle \in Work
BY DEF Idle, Work, Place, Recipients

LEMMA IdleAt ==
    ASSUME NEW p \in Place
    PROVE  [Idle EXCEPT !.pc = p] \in Work
BY IdleIsWork DEF Work

LEMMA IdleWith ==
    ASSUME NEW p \in Place, NEW a \in Nat, NEW b \in Nat
    PROVE  [Idle EXCEPT !.pc = p, !.ok = a, !.bad = b] \in Work
BY IdleIsWork DEF Work

LEMMA SpendKinds ==
    ASSUME TypeOK, NEW a \in Accidents, Spend(a)
    PROVE  /\ left' \in [Accidents -> Nat]
           /\ \A b \in Accidents : left'[b] <= left[b]
BY DEF TypeOK, Spend, Accidents

LEMMA GotoKinds ==
    ASSUME TypeOK, NEW w \in Workers, NEW p \in Place, Goto(w, p)
    PROVE  /\ work' \in [Workers -> Work]
           /\ work'[w] = [work[w] EXCEPT !.pc = p]
           /\ \A v \in Workers \ {w} : work'[v] = work[v]
BY DEF TypeOK, Goto, Work

LEMMA ThrowKinds ==
    ASSUME TypeOK, NEW w \in Workers, Throw(w)
    PROVE  work' \in [Workers -> Work]
<1>1. [Idle EXCEPT !.pc = IF w \in Retriers THEN "cleanup" ELSE "pick"] \in Work
    BY IdleAt DEF Place
<1>. QED BY <1>1 DEF Throw, TypeOK

LEMMA DieKinds ==
    ASSUME TypeOK, NEW w \in Workers, Die(w)
    PROVE  work' \in [Workers -> Work]
<1>1. PICK p \in Processes : work' = [v \in Workers |-> IF v \in p THEN Idle ELSE work[v]]
    BY DEF Die
<1>. QED BY <1>1, IdleIsWork DEF TypeOK

LEMMA InitHolds == Init => IInv
<1>. SUFFICES ASSUME Init PROVE IInv
    OBVIOUS
<1>1. TypeOK
    BY IdleIsWork DEF Init, TypeOK, Recipient, Recipients
<1>2. Told
    BY DEF Init, Told, ToldTo, ToldOf, Idle, Copying, Writing, Accidents
<1>. QED BY <1>1, <1>2 DEF IInv

LEMMA TypeStep == IInv /\ [Next]_vars => TypeOK'
<1>. SUFFICES ASSUME IInv, [Next]_vars PROVE TypeOK'
    OBVIOUS
<1>. USE DEF IInv
<1>a. ASSUME NEW w \in Workers, Pick(w) PROVE TypeOK'
  <2>1. work' \in [Workers -> Work]
      BY <1>a, GotoKinds DEF Pick, Place
  <2>2. lease' \in 0..4 /\ owner' \in Workers \cup {Nobody}
      BY <1>a DEF Pick, TypeOK
  <2>. QED BY <1>a, <2>1, <2>2 DEF Pick, TypeOK, history
<1>b. ASSUME NEW w \in Workers, Gone(w) PROVE TypeOK'
  <2>1. work' \in [Workers -> Work]
      BY <1>b, ThrowKinds DEF Gone
  <2>. QED BY <1>b, <2>1 DEF Gone, TypeOK, doc, history
<1>c. ASSUME NEW w \in Workers, LockLost(w) PROVE TypeOK'
    BY <1>c, IdleIsWork DEF LockLost, Leave, TypeOK, doc, history
<1>d. ASSUME NEW w \in Workers, Paused(w) PROVE TypeOK'
    BY <1>d, GotoKinds DEF Paused, TypeOK, doc, history, Place
<1>e. ASSUME NEW w \in Workers, Choose(w) PROVE TypeOK'
  <2>1. PICK r \in Recipients :
           work' = [work EXCEPT ![w].pc = "turn", ![w].r = r, ![w].seen = recip[r].attempts]
      BY <1>e DEF Choose, NextRecipient
  <2>2. work[w] \in Work /\ recip[r].attempts \in 0..MaxTries
      BY DEF TypeOK, Recipient
  <2>3. [work[w] EXCEPT !.pc = "turn", !.r = r, !.seen = recip[r].attempts] \in Work
      BY <2>2 DEF Work, Place
  <2>4. work' = [work EXCEPT ![w] = [work[w] EXCEPT !.pc = "turn", !.r = r, !.seen = recip[r].attempts]]
      BY <2>1
  <2>5. work' \in [Workers -> Work]
      BY <2>3, <2>4 DEF TypeOK
  <2>. QED BY <1>e, <2>5 DEF Choose, TypeOK, doc, history
<1>f. ASSUME NEW w \in Workers, Finish(w) PROVE TypeOK'
    BY <1>f, GotoKinds DEF Finish, TypeOK, doc, history, Place
<1>g. ASSUME NEW w \in Workers, Turn(w) PROVE TypeOK'
    BY <1>g, GotoKinds DEF Turn, TypeOK, doc, history, Place
<1>h. ASSUME NEW w \in Workers, Hang(w) PROVE TypeOK'
  <2>1. [Idle EXCEPT !.pc = "hung"] \in Work
      BY IdleAt DEF Place
  <2>. QED BY <1>h, <2>1, SpendKinds DEF Hang, TypeOK, doc, history, Accidents
<1>i. ASSUME NEW w \in Workers, Send(w) PROVE TypeOK'
  <2>1. work[w].r \in Recipients
      BY DEF TypeOK, Work
  <2>2. tried' \in [Recipients -> Nat] /\ returned' \in [Recipients -> Nat]
        /\ reached' \subseteq Recipients /\ lease' \in 0..4
      BY <1>i, <2>1 DEF Send, TypeOK, Elapse
  <2>. QED BY <1>i, <2>2, GotoKinds DEF Send, TypeOK, Place
<1>j. ASSUME NEW w \in Workers, SendFails(w) PROVE TypeOK'
  <2>1. work[w].r \in Recipients
      BY DEF TypeOK, Work
  <2>2. tried' \in [Recipients -> Nat] /\ returned' \in [Recipients -> Nat]
        /\ reached' \subseteq Recipients /\ lease' \in 0..4
      BY <1>j, <2>1 DEF SendFails, TypeOK, Elapse
  <2>. QED BY <1>j, <2>2, GotoKinds DEF SendFails, TypeOK, Place
<1>k. ASSUME NEW w \in Workers, Mark(w) PROVE TypeOK'
  <2>1. work[w] \in Work /\ work[w].ok + 1 \in Nat /\ work[w].bad \in Nat
      BY DEF TypeOK, Work
  <2>2. [Idle EXCEPT !.pc = "extend", !.ok = work[w].ok + 1, !.bad = work[w].bad] \in Work
      BY <2>1, IdleWith, "extend" \in Place DEF Place
  <2>3. recip' \in [Recipients -> Recipient]
      BY <1>k, <2>1 DEF Mark, Write, TypeOK, Recipient, Work
  <2>. QED BY <1>k, <2>2, <2>3 DEF Mark, TypeOK, history
<1>l. ASSUME NEW w \in Workers, Miss(w) PROVE TypeOK'
  <2>1. work[w] \in Work /\ work[w].seen + 1 \in 0..MaxTries
      BY <1>l DEF TypeOK, Miss, At, Told, ToldTo, Writing, Work
  <2> DEFINE b == IF work[w].seen + 1 >= MaxTries THEN work[w].bad + 1 ELSE work[w].bad
  <2>2. [Idle EXCEPT !.pc = "extend", !.ok = work[w].ok, !.bad = b] \in Work
    <3>1. b \in Nat /\ work[w].ok \in Nat
        BY <2>1 DEF Work
    <3>. HIDE DEF b
    <3>. QED BY <3>1, IdleWith, "extend" \in Place DEF Place
  <2>0. work' = [work EXCEPT ![w] = [Idle EXCEPT !.pc = "extend", !.ok = work[w].ok, !.bad = b]]
      BY <1>l DEF Miss
  <2>3. work' \in [Workers -> Work]
    <3>. HIDE DEF b
    <3>. QED BY <2>0, <2>2 DEF TypeOK
  <2>4. recip' \in [Recipients -> Recipient]
      BY <1>l, <2>1 DEF Miss, Write, TypeOK, Recipient, Work
  <2>. QED BY <1>l, <2>3, <2>4 DEF Miss, TypeOK, history
<1>m. ASSUME NEW w \in Workers, Extend(w) PROVE TypeOK'
  <2>1. work' \in [Workers -> Work]
      BY <1>m, GotoKinds DEF Extend, Place
  <2>2. lease' \in 0..4 /\ owner' \in Workers \cup {Nobody}
      BY <1>m DEF Extend, TypeOK
  <2>. QED BY <1>m, <2>1, <2>2 DEF Extend, TypeOK, history
<1>n. ASSUME NEW w \in Workers, Delay(w) PROVE TypeOK'
  <2>1. work' \in [Workers -> Work]
      BY <1>n, GotoKinds DEF Delay, Place
  <2>2. lease' \in 0..4 /\ owner' \in Workers \cup {Nobody}
      BY <1>n DEF Delay, Elapse, TypeOK
  <2>. QED BY <1>n, <2>1, <2>2 DEF Delay, TypeOK, history
<1>o. ASSUME NEW w \in Workers, Release(w) PROVE TypeOK'
    BY <1>o, IdleIsWork DEF Release, Leave, TypeOK, history
<1>p. ASSUME NEW w \in Workers, Complete(w) PROVE TypeOK'
  <2>1. work' \in [Workers -> Work]
      BY <1>p, GotoKinds DEF Complete, Place
  <2>2. lease' \in 0..4 /\ owner' \in Workers \cup {Nobody}
      BY <1>p DEF Complete, TypeOK
  <2>. QED BY <1>p, <2>1, <2>2 DEF Complete, TypeOK, history
<1>q. ASSUME NEW w \in Workers, MarkFails(w) PROVE TypeOK'
    BY <1>q, GotoKinds, SpendKinds DEF MarkFails, TypeOK, doc, history, Place, Accidents
<1>s. ASSUME NEW w \in Workers, MongoFails(w) \/ Crash(w) PROVE TypeOK'
  <2>1. work' \in [Workers -> Work]
      BY <1>s, ThrowKinds, DieKinds DEF MongoFails, Crash
  <2>. QED BY <1>s, <2>1, SpendKinds DEF MongoFails, Crash, TypeOK, doc, history, Accidents
<1>t. ASSUME Expire \/ Overrun PROVE TypeOK'
  <2>1. left' \in [Accidents -> Nat]
      BY <1>t, SpendKinds DEF Expire, Overrun, TypeOK, Accidents
  <2>. QED BY <1>t, <2>1 DEF Expire, Overrun, TypeOK, history
<1>u. ASSUME NEW r \in Recipients, RetryDue(r) PROVE TypeOK'
    BY <1>u DEF RetryDue, TypeOK, history, Recipient
<1>v. ASSUME Activate \/ Edit \/ Delete PROVE TypeOK'
    BY <1>v, SpendKinds DEF Activate, Edit, Delete, TypeOK, history, Accidents
<1>w. ASSUME UNCHANGED vars PROVE TypeOK'
    BY <1>w DEF vars, doc, history, TypeOK
<1>. QED BY <1>a, <1>b, <1>c, <1>d, <1>e, <1>f, <1>g, <1>h, <1>i, <1>j, <1>k, <1>l, <1>m, <1>n,
            <1>o, <1>p, <1>q, <1>s, <1>t, <1>u, <1>v, <1>w DEF Next, Step, Accident, Poll

-----------------------------------------------------------------------------
(* Told *)

Telling == Copying \cup Writing \cup {"complete"}

(* Steps that send nothing, store nothing and complete nothing. *)
LEMMA QuietTold ==
    ASSUME IInv, UNCHANGED <<recip, tried, reached>>,
           \A a \in Accidents : left'[a] <= left[a], left' \in [Accidents -> Nat],
           status' = "completed" => status = "completed",
           \A w \in Workers : work'[w] = work[w] \/ work'[w].pc \notin Telling
    PROVE  Told'
<1>1. \A w \in Workers : ToldTo(w)'
    BY DEF IInv, Told, ToldTo, Telling, Copying, Writing
<1>2. \A r \in Recipients : ToldOf(r)'
    BY DEF IInv, Told, ToldOf
<1>3. \A a \in Accidents : left'[a] <= Budget[a]
    BY DEF IInv, Told, TypeOK
<1>. QED BY <1>1, <1>2, <1>3 DEF IInv, Told

LEMMA SameLeft ==
    ASSUME TypeOK, UNCHANGED left
    PROVE  left' \in [Accidents -> Nat] /\ \A a \in Accidents : left'[a] <= left[a]
BY DEF TypeOK

(* Where the workers go in steps that leave one of them idle, or all of a process. *)
LEMMA ThrowPlaces ==
    ASSUME TypeOK, NEW w \in Workers, Throw(w) \/ Leave(w)
    PROVE  \A v \in Workers : work'[v] = work[v] \/ work'[v].pc \in {"pick", "cleanup"}
BY DEF TypeOK, Throw, Leave, Idle

LEMMA DiePlaces ==
    ASSUME TypeOK, NEW w \in Workers, Die(w)
    PROVE  \A v \in Workers : work'[v] = work[v] \/ work'[v].pc = "pick"
<1>1. PICK p \in Processes : work' = [v \in Workers |-> IF v \in p THEN Idle ELSE work[v]]
    BY DEF Die
<1>. QED BY <1>1 DEF Idle

LEMMA GotoPlaces ==
    ASSUME TypeOK, NEW w \in Workers, NEW p \in Place, Goto(w, p)
    PROVE  /\ work'[w].pc = p
           /\ \A v \in Workers : v # w => work'[v] = work[v]
<1>1. work[w] \in Work
    BY DEF TypeOK
<1>2. [work[w] EXCEPT !.pc = p].pc = p
    BY <1>1 DEF Work
<1>. QED BY <1>2, GotoKinds

LEMMA QuietStep ==
    ASSUME IInv, NEW w \in Workers,
           \/ Pick(w) \/ Gone(w) \/ LockLost(w) \/ Paused(w) \/ Hang(w) \/ Extend(w)
           \/ Delay(w) \/ Release(w) \/ MongoFails(w) \/ Crash(w)
    PROVE  Told'
<1>1. \A v \in Workers : work'[v] = work[v] \/ work'[v].pc \notin Telling
  <2>. USE DEF Telling, Copying, Writing
  <2>1. CASE Pick(w) \/ Paused(w) \/ Extend(w) \/ Delay(w)
    <3>1. PICK p \in {"read", "pause", "delay", "ban"} : Goto(w, p)
        BY <2>1 DEF Pick, Paused, Extend, Delay
    <3>. QED BY <3>1, GotoPlaces DEF IInv, Place
  <2>2. CASE Gone(w) \/ LockLost(w) \/ Release(w)
      BY <2>2, ThrowPlaces DEF Gone, LockLost, Release, IInv
  <2>3. CASE Hang(w)
      BY <2>3 DEF Hang, Idle, IInv, TypeOK
  <2>4. CASE MongoFails(w) \/ Crash(w)
      BY <2>4, ThrowPlaces, DiePlaces DEF MongoFails, Crash, IInv
  <2>. QED BY <2>1, <2>2, <2>3, <2>4
<1>2. left' \in [Accidents -> Nat] /\ \A a \in Accidents : left'[a] <= left[a]
    BY SameLeft, SpendKinds, "hang" \in Accidents, "mongo" \in Accidents, "crash" \in Accidents
       DEF IInv, Pick, Gone, LockLost, Paused, Hang, Extend, Delay, Release, MongoFails, Crash, Accidents
<1>3. UNCHANGED <<recip, tried, reached, status>>
    BY DEF Pick, Gone, LockLost, Paused, Hang, Extend, Delay, Release, MongoFails, Crash, doc, history
<1>. QED BY <1>1, <1>2, <1>3, QuietTold

(* The answers of findById that go on: a copy of a pending recipient, or none left. *)
LEMMA ReadTold ==
    ASSUME IInv, NEW w \in Workers, Choose(w) \/ Finish(w)
    PROVE  Told'
<1>1. CASE Choose(w)
  <2>0. PICK r \in Recipients :
           /\ recip[r].status = "pending"
           /\ work' = [work EXCEPT ![w].pc = "turn", ![w].r = r, ![w].seen = recip[r].attempts]
      BY <1>1 DEF Choose, NextRecipient, Due
  <2>1. work' = [work EXCEPT ![w] = [work[w] EXCEPT !.pc = "turn", !.r = r, !.seen = recip[r].attempts]]
      BY <2>0
  <2>2. /\ work'[w].pc = "turn" /\ work'[w].r = r /\ work'[w].seen = recip[r].attempts
        /\ \A v \in Workers : v # w => work'[v] = work[v]
      BY <2>1 DEF IInv, TypeOK, Work
  <2>3. recip[r].attempts < MaxTries /\ recip[r].attempts <= tried[r]
    <3>1. ToldOf(r) /\ recip[r].attempts \in 0..MaxTries
        BY DEF IInv, Told, TypeOK, Recipient
    <3>. QED BY <2>0, <3>1 DEF ToldOf
  <2>4. UNCHANGED <<status, recip, tried, reached, left>>
      BY <1>1 DEF Choose, doc, history
  <2>5. \A v \in Workers : ToldTo(v)'
      BY <2>2, <2>3, <2>4 DEF IInv, Told, ToldTo, Copying, Writing
  <2>. QED BY <2>4, <2>5 DEF IInv, Told, ToldOf
<1>2. CASE Finish(w)
  <2>1. \A r \in Recipients : tried[r] > 0
    <3>. SUFFICES ASSUME NEW r \in Recipients PROVE tried[r] > 0
        OBVIOUS
    <3>1. recip[r].status \in {"later", "sent", "failed"} /\ recip[r].attempts \in Nat
        BY <1>2 DEF Finish, Due, IInv, TypeOK, Recipient
    <3>2. tried[r] \in Nat
        BY DEF IInv, TypeOK
    <3>. QED BY <3>1, <3>2 DEF IInv, Told, ToldOf
  <2>2. UNCHANGED <<status, recip, tried, reached, left>>
      BY <1>2 DEF Finish, doc, history
  <2>3. work'[w].pc = "complete" /\ \A v \in Workers : v # w => work'[v] = work[v]
      BY <1>2, GotoPlaces, "complete" \in Place DEF Finish, IInv, Place
  <2>4. \A v \in Workers : ToldTo(v)'
      BY <2>1, <2>2, <2>3 DEF IInv, Told, ToldTo, Copying, Writing
  <2>. QED BY <2>2, <2>4 DEF IInv, Told, ToldOf
<1>. QED BY <1>1, <1>2

(* Steps that keep the copy: only the place of one worker changes. *)
LEMMA GotoKeepsCopy ==
    ASSUME TypeOK, NEW w \in Workers, NEW p \in Place, Goto(w, p)
    PROVE  work'[w].r = work[w].r /\ work'[w].seen = work[w].seen
<1>1. work[w] \in Work
    BY DEF TypeOK
<1>2. [work[w] EXCEPT !.pc = p].r = work[w].r /\ [work[w] EXCEPT !.pc = p].seen = work[w].seen
    BY <1>1 DEF Work
<1>. QED BY <1>2, GotoKinds

LEMMA TurnTold ==
    ASSUME IInv, NEW w \in Workers, Turn(w) \/ MarkFails(w)
    PROVE  Told'
<1>1. PICK p \in {"send", "miss"} : /\ Goto(w, p)
                                    /\ p = "send" => At(w, "turn")
                                    /\ p = "miss" => At(w, "mark")
    BY DEF Turn, MarkFails
<1>2. /\ work'[w].pc = p /\ work'[w].r = work[w].r /\ work'[w].seen = work[w].seen
      /\ \A v \in Workers : v # w => work'[v] = work[v]
    BY <1>1, GotoPlaces, GotoKeepsCopy, p \in Place DEF IInv, Place
<1>3. UNCHANGED <<status, recip, tried, reached>>
    BY DEF Turn, MarkFails, doc, history
<1>4. \A v \in Workers : ToldTo(v)'
    BY <1>1, <1>2, <1>3 DEF IInv, Told, ToldTo, Copying, Writing, At
<1>5. left' \in [Accidents -> Nat] /\ \A a \in Accidents : left'[a] <= left[a]
    BY SameLeft, SpendKinds, "mongo" \in Accidents DEF IInv, Turn, MarkFails, Accidents
<1>6. \A a \in Accidents : left'[a] <= Budget[a]
    BY <1>5 DEF IInv, Told, TypeOK
<1>. QED BY <1>3, <1>4, <1>6 DEF IInv, Told, ToldOf

LEMMA SendTold ==
    ASSUME IInv, NEW w \in Workers, Send(w) \/ SendFails(w)
    PROVE  Told'
<1> DEFINE r == work[w].r
<1>0. r \in Recipients /\ At(w, "send")
    BY DEF IInv, TypeOK, Work, Send, SendFails
<1>1. /\ tried' = [tried EXCEPT ![r] = @ + 1]
      /\ UNCHANGED <<status, recip>>
    BY DEF Send, SendFails
<1>3. left' \in [Accidents -> Nat] /\ \A a \in Accidents : left'[a] <= left[a]
    BY SameLeft DEF IInv, Send, SendFails
<1>4. PICK p \in Writing :
          /\ Goto(w, p)
          /\ reached' \in {reached, reached \cup {r}}
          /\ p = "mark" => r \in reached'
    BY DEF Send, SendFails, Writing
<1>5. /\ work'[w].pc = p /\ work'[w].r = r /\ work'[w].seen = work[w].seen
      /\ \A v \in Workers : v # w => work'[v] = work[v]
    BY <1>4, GotoPlaces, GotoKeepsCopy, p \in Place DEF IInv, Place, Writing
<1>. HIDE DEF r
<1>6. \A q \in Recipients : /\ tried[q] \in Nat
                            /\ tried'[q] = IF q = r THEN tried[q] + 1 ELSE tried[q]
                            /\ q \in reached => q \in reached'
                            /\ q \in reached' => q \in reached \/ q = r
    BY <1>0, <1>1, <1>4 DEF IInv, TypeOK
<1>7. \A q \in Recipients : tried'[q] >= tried[q]
    BY <1>6
<1>8. \A q \in Recipients : ToldOf(q)'
  <2>. SUFFICES ASSUME NEW q \in Recipients PROVE ToldOf(q)'
      OBVIOUS
  <2>1. recip[q].attempts \in Nat
      BY DEF IInv, TypeOK, Recipient
  <2>. QED BY <1>1, <1>6, <2>1 DEF IInv, Told, ToldOf
<1>9. ToldTo(w)'
  <2>1. work[w].seen \in Nat /\ work[w].seen < MaxTries /\ work[w].seen <= tried[r]
      BY <1>0 DEF r, IInv, TypeOK, Work, Told, ToldTo, Copying, At
  <2>2. work[w].seen < tried'[r]
      BY <1>0, <1>6, <2>1
  <2>3. p # "complete" /\ p \notin Copying
      BY <1>4 DEF Writing, Copying
  <2>. QED BY <1>4, <1>5, <2>1, <2>2, <2>3 DEF ToldTo
<1>10. \A v \in Workers \ {w} : ToldTo(v)'
  <2>. SUFFICES ASSUME NEW v \in Workers \ {w} PROVE ToldTo(v)'
      OBVIOUS
  <2>1. work[v].r \in Recipients /\ work[v].seen \in Nat
      BY DEF IInv, TypeOK, Work
  <2>2. ToldTo(v) /\ work'[v] = work[v]
      BY <1>5 DEF IInv, Told
  <2>3. \A q \in Recipients : tried[q] > 0 => tried'[q] > 0
      BY <1>6
  <2>. QED BY <1>6, <1>7, <2>1, <2>2, <2>3 DEF ToldTo
<1>11. \A a \in Accidents : left'[a] <= Budget[a]
    BY <1>3 DEF IInv, Told, TypeOK
<1>12. status' = "completed" => \A q \in Recipients : tried'[q] > 0
    BY <1>1, <1>6 DEF IInv, Told
<1>. QED BY <1>8, <1>9, <1>10, <1>11, <1>12 DEF Told

(* updateProgress, of a worker that then leaves the places Told speaks of. *)
LEMMA WriteTold ==
    ASSUME IInv, NEW w \in Workers, NEW s, NEW n \in 0..MaxTries,
           Write(work[w].r, s, n), UNCHANGED <<status, tried, reached, left>>,
           work'[w].pc \notin Telling, \A v \in Workers \ {w} : work'[v] = work[v],
           n <= tried[work[w].r], s = "sent" => work[w].r \in reached,
           s = "later" => n > 0, s = "failed" <=> n = MaxTries
    PROVE  Told'
<1>1. \A v \in Workers : ToldTo(v)'
    BY DEF IInv, Told, ToldTo, Telling, Copying, Writing
<1>2. \A q \in Recipients : ToldOf(q)'
  <2>. SUFFICES ASSUME NEW q \in Recipients PROVE ToldOf(q)'
      OBVIOUS
  <2>1. ToldOf(q)
      BY DEF IInv, Told
  <2>2. CASE recip'[q] = recip[q]
      BY <2>1, <2>2 DEF ToldOf
  <2>3. CASE q = work[w].r /\ recip'[q] = [status |-> s, attempts |-> n]
      BY <2>1, <2>3 DEF ToldOf
  <2>. QED BY <2>2, <2>3 DEF Write, IInv, TypeOK
<1>. QED BY <1>1, <1>2 DEF IInv, Told

LEMMA MarkTold ==
    ASSUME IInv, NEW w \in Workers, Mark(w)
    PROVE  Told'
<1>1. /\ work[w].seen \in 0..MaxTries /\ work[w].seen < MaxTries /\ work[w].r \in Recipients
      /\ work[w].seen < tried[work[w].r] /\ work[w].r \in reached
    BY DEF Mark, At, IInv, TypeOK, Work, Told, ToldTo, Writing
<1>2. tried[work[w].r] \in Nat
    BY <1>1 DEF IInv, TypeOK
<1>3. work'[w].pc \notin Telling /\ \A v \in Workers \ {w} : work'[v] = work[v]
    BY DEF Mark, IInv, TypeOK, Telling, Copying, Writing, Idle
<1>. QED BY <1>1, <1>2, <1>3, WriteTold DEF Mark, history

LEMMA MissTold ==
    ASSUME IInv, NEW w \in Workers, Miss(w)
    PROVE  Told'
<1> DEFINE n == work[w].seen + 1
           s == IF n >= MaxTries THEN "failed" ELSE "later"
<1>1. /\ work[w].seen \in 0..MaxTries /\ work[w].seen < MaxTries /\ work[w].r \in Recipients
      /\ work[w].seen < tried[work[w].r]
    BY DEF Miss, At, IInv, TypeOK, Work, Told, ToldTo, Writing
<1>2. tried[work[w].r] \in Nat
    BY <1>1 DEF IInv, TypeOK
<1>3. work'[w].pc \notin Telling /\ \A v \in Workers \ {w} : work'[v] = work[v]
    BY DEF Miss, IInv, TypeOK, Telling, Copying, Writing, Idle
<1>4. /\ n \in 0..MaxTries /\ n <= tried[work[w].r]
      /\ s # "sent" /\ (s = "later" => n > 0) /\ (s = "failed" <=> n = MaxTries)
    BY <1>1, <1>2
<1>5. Write(work[w].r, s, n) /\ UNCHANGED <<status, tried, reached, left>>
    BY DEF Miss, history
<1>. HIDE DEF n, s
<1>. QED BY <1>3, <1>4, <1>5, WriteTold

LEMMA CompleteTold ==
    ASSUME IInv, NEW w \in Workers, Complete(w)
    PROVE  Told'
<1>1. \A r \in Recipients : tried[r] > 0
    BY DEF Complete, At, IInv, Told, ToldTo
<1>2. UNCHANGED <<recip, tried, reached, left>>
    BY DEF Complete, history
<1>3. work'[w].pc = "unlock" /\ \A v \in Workers : v # w => work'[v] = work[v]
    BY GotoPlaces, "unlock" \in Place DEF Complete, IInv, Place
<1>4. \A v \in Workers : ToldTo(v)'
    BY <1>2, <1>3 DEF IInv, Told, ToldTo, Copying, Writing
<1>. QED BY <1>1, <1>2, <1>4 DEF IInv, Told, ToldOf

LEMMA RetryTold ==
    ASSUME IInv, NEW r \in Recipients, RetryDue(r)
    PROVE  Told'
<1>1. UNCHANGED <<status, work, tried, reached, left>>
    BY DEF RetryDue, history
<1>2. \A q \in Recipients : ToldOf(q)'
  <2>. SUFFICES ASSUME NEW q \in Recipients PROVE ToldOf(q)'
      OBVIOUS
  <2>1. ToldOf(q) /\ recip[q] \in Recipient /\ ToldOf(r)
      BY DEF IInv, Told, TypeOK
  <2>2. recip'[q] = IF q = r THEN [recip[q] EXCEPT !.status = "pending"] ELSE recip[q]
      BY DEF RetryDue, IInv, TypeOK
  <2>3. recip[r].status = "later"
      BY DEF RetryDue
  <2>. QED BY <1>1, <2>1, <2>2, <2>3 DEF ToldOf, Recipient
<1>. QED BY <1>1, <1>2 DEF IInv, Told, ToldTo

LEMMA TimeTold ==
    ASSUME IInv, Expire \/ Overrun \/ Activate \/ Edit \/ Delete \/ UNCHANGED vars
    PROVE  Told'
<1>1. UNCHANGED <<recip, tried, reached, work>> /\ (status' = "completed" => status = "completed")
    BY DEF Expire, Overrun, Activate, Edit, Delete, vars, doc, history
<1>2. left' \in [Accidents -> Nat] /\ \A a \in Accidents : left'[a] <= left[a]
    BY SameLeft, SpendKinds, "overrun" \in Accidents, "edit" \in Accidents
       DEF IInv, Expire, Overrun, Activate, Edit, Delete, vars, Accidents
<1>. QED BY <1>1, <1>2, QuietTold

LEMMA NextKeeps == IInv /\ [Next]_vars => IInv'
<1>. SUFFICES ASSUME IInv, [Next]_vars PROVE Told'
    BY TypeStep DEF IInv
<1>. QED BY QuietStep, ReadTold, TurnTold, SendTold, MarkTold, MissTold, CompleteTold, RetryTold,
            TimeTold DEF Next, Step, Accident, Poll

(* The types, and what the document and the copies tell, hold throughout. *)
THEOREM CampaignInvariant == Spec => []IInv
BY InitHolds, NextKeeps, PTL DEF Spec

(* The variables of the workers and of the document keep their types: no *)
(* recipient is stored with more attempts than the limit.                *)
THEOREM TypeCorrect == Spec => []TypeOK
<1>1. IInv => TypeOK
    BY DEF IInv
<1>. QED BY <1>1, CampaignInvariant, PTL

(* 'sent' is never stored but of a recipient a send reached, nor 'failed'   *)
(* before the last attempt, for any number of workers and of lost leases.   *)
THEOREM StatusesAreTrue == Spec => []Truthful
<1>1. IInv => Truthful
  <2>. SUFFICES ASSUME IInv, NEW r \in Recipients
                PROVE  /\ recip[r].status = "sent" => r \in reached
                       /\ recip[r].status = "failed" => tried[r] >= MaxTries
      BY DEF Truthful
  <2>1. ToldOf(r) /\ tried[r] \in Nat
      BY DEF IInv, Told, TypeOK
  <2>. QED BY <2>1 DEF ToldOf
<1>. QED BY <1>1, CampaignInvariant, PTL

(* No campaign is completed before each of its recipients was sent to. *)
THEOREM NobodyIsSkipped == Spec => []NobodySkipped
<1>1. IInv => NobodySkipped
    BY DEF IInv, Told, NobodySkipped
<1>. QED BY <1>1, CampaignInvariant, PTL

-----------------------------------------------------------------------------
(* Leased *)

(* What must be left of the lease at each await for the next one to be in time. *)
Need(p) == IF p = "delay" THEN 4 ELSE IF p \in {"read", "turn", "send"} THEN 2 ELSE 1

Holds(w) ==
    /\ status \in {"completed", "absent"} \/ (owner = w /\ lease >= Need(work[w].pc))
    /\ work[w].pc \in Copying \cup Writing =>
           /\ recip[work[w].r].status = "pending"
           /\ recip[work[w].r].attempts = work[w].seen

Alone(w) == \A v \in Workers \ {w} : ~Busy(v)

Leased == InTime => \A w \in Workers : Busy(w) => Alone(w) /\ Holds(w)

LInv == IInv /\ Leased

LEMMA InTimeBefore ==
    ASSUME IInv, [Next]_vars, InTime'
    PROVE  InTime /\ UNCHANGED left["overrun"]
<1>1. IInv'
    BY NextKeeps
<1>2. left' \in [Accidents -> Nat] /\ left'["overrun"] <= left["overrun"]
  <2>1. CASE UNCHANGED left
      BY <2>1 DEF IInv, TypeOK, Accidents
  <2>2. CASE \E a \in Accidents : Spend(a)
      BY <2>2, SpendKinds DEF IInv, Accidents
  <2>. QED BY <2>1, <2>2 DEF Next, Step, Accident, Poll, Pick, Gone, LockLost, Paused, Choose, Finish,
         Turn, Send, SendFails, Mark, Miss, Extend, Delay, Release, Complete, Hang, MarkFails,
         MongoFails, Crash, Expire, Overrun, RetryDue, Activate, Edit, Delete, vars, Accidents
<1>3. left["overrun"] \in Nat /\ left["overrun"] <= Budget["overrun"] /\ Budget["overrun"] \in Nat
    BY DEF IInv, TypeOK, Told, Accidents
<1>. QED BY <1>2, <1>3 DEF InTime, Spent, Accidents

(* The steps by which one worker that holds the lease goes on. *)
LEMMA OneGoesOn ==
    ASSUME LInv, InTime, NEW w \in Workers, Busy(w), Holds(w)',
           \A v \in Workers \ {w} : work'[v] = work[v]
    PROVE  Leased'
<1>1. \A v \in Workers \ {w} : ~Busy(v)
    BY DEF LInv, Leased, Alone
<1>2. \A v \in Workers \ {w} : ~Busy(v)'
    BY <1>1 DEF Busy
<1>. QED BY <1>2 DEF Leased, Alone

(* Steps after which no worker works that did not before, on the same document. *)
LEMMA NobodyComes ==
    ASSUME LInv, InTime, UNCHANGED <<status, owner, lease, recip>>,
           \A v \in Workers : work'[v] = work[v] \/ ~Busy(v)'
    PROVE  Leased'
<1>. SUFFICES ASSUME NEW w \in Workers, Busy(w)'
              PROVE  (Alone(w) /\ Holds(w))'
    BY DEF Leased
<1>1. work'[w] = work[w] /\ Busy(w)
    BY DEF Busy
<1>2. Alone(w) /\ Holds(w)
    BY <1>1 DEF LInv, Leased
<1>3. Holds(w)'
    BY <1>1, <1>2 DEF Holds
<1>4. \A v \in Workers \ {w} : ~Busy(v)'
    BY <1>2 DEF Alone, Busy
<1>. QED BY <1>3, <1>4 DEF Alone

LEMMA PickLeased ==
    ASSUME LInv, InTime, NEW w \in Workers, Pick(w)
    PROVE  Leased'
<1>1. \A v \in Workers : ~Busy(v)
  <2>. SUFFICES ASSUME NEW v \in Workers, Busy(v) PROVE FALSE
      OBVIOUS
  <2>1. owner = v /\ lease >= 1
      BY DEF LInv, IInv, TypeOK, Leased, Holds, Need, Pick
  <2>. QED BY <2>1 DEF Pick
<1>2. work'[w].pc = "read" /\ \A v \in Workers : v # w => work'[v] = work[v]
    BY GotoPlaces, "read" \in Place DEF Pick, LInv, IInv, Place
<1>3. Holds(w)'
    BY <1>2 DEF Holds, Need, Pick, Copying, Writing
<1>4. \A v \in Workers \ {w} : ~Busy(v)'
    BY <1>1, <1>2 DEF Busy
<1>. QED BY <1>3, <1>4 DEF Leased, Alone

LEMMA GoOnLeased ==
    ASSUME LInv, InTime, NEW w \in Workers,
           \/ Paused(w) \/ Finish(w) \/ Turn(w) \/ Send(w) \/ SendFails(w) \/ MarkFails(w)
           \/ Extend(w) \/ Delay(w) \/ Complete(w)
    PROVE  Leased'
<1>1. PICK p \in Place : Goto(w, p)
    BY DEF Paused, Finish, Turn, Send, SendFails, MarkFails, Extend, Delay, Complete, Place
<1>2. /\ work'[w].pc = p /\ work'[w].r = work[w].r /\ work'[w].seen = work[w].seen
      /\ \A v \in Workers \ {w} : work'[v] = work[v]
    BY <1>1, GotoPlaces, GotoKeepsCopy DEF LInv, IInv
<1>3. Busy(w)
    BY DEF Busy, At, Paused, Finish, Turn, Send, SendFails, MarkFails, Extend, Delay, Complete
<1>4. Holds(w) /\ lease \in 0..4
    BY <1>3 DEF LInv, Leased, IInv, TypeOK
<1>5. Holds(w)'
  <2>. USE DEF Holds, Need, Copying, Writing, At
  <2>1. CASE Paused(w)
      BY <1>2, <1>4, <2>1, GotoPlaces, "pause" \in Place DEF Paused, doc, LInv, IInv, Place
  <2>2. CASE Finish(w)
      BY <1>2, <1>4, <2>2, GotoPlaces, "complete" \in Place DEF Finish, doc, LInv, IInv, Place
  <2>3. CASE Turn(w)
      BY <1>2, <1>4, <2>3, GotoPlaces, "send" \in Place DEF Turn, doc, LInv, IInv, Place
  <2>4. CASE Send(w)
      BY <1>2, <1>4, <2>4, GotoPlaces, "mark" \in Place DEF Send, Elapse, LInv, IInv, Place
  <2>5. CASE SendFails(w)
      BY <1>2, <1>4, <2>5, GotoPlaces, "miss" \in Place DEF SendFails, Elapse, LInv, IInv, Place
  <2>6. CASE MarkFails(w)
      BY <1>2, <1>4, <2>6, GotoPlaces, "miss" \in Place DEF MarkFails, doc, LInv, IInv, Place
  <2>7. CASE Extend(w)
      BY <1>2, <1>4, <2>7, GotoPlaces, "delay" \in Place DEF Extend, LInv, IInv, Place
  <2>8. CASE Delay(w)
      BY <1>2, <1>4, <2>8, GotoPlaces, "ban" \in Place, "read" \in Place
         DEF Delay, Elapse, LInv, IInv, Place
  <2>9. CASE Complete(w)
      BY <1>2, <1>4, <2>9, GotoPlaces, "unlock" \in Place DEF Complete, LInv, IInv, Place
  <2>. QED BY <2>1, <2>2, <2>3, <2>4, <2>5, <2>6, <2>7, <2>8, <2>9
<1>. QED BY <1>2, <1>3, <1>5, OneGoesOn

LEMMA ChooseLeased ==
    ASSUME LInv, InTime, NEW w \in Workers, Choose(w)
    PROVE  Leased'
<1>1. PICK r \in Recipients :
         /\ recip[r].status = "pending"
         /\ work' = [work EXCEPT ![w].pc = "turn", ![w].r = r, ![w].seen = recip[r].attempts]
    BY DEF Choose, NextRecipient, Due
<1>2. work' = [work EXCEPT ![w] = [work[w] EXCEPT !.pc = "turn", !.r = r, !.seen = recip[r].attempts]]
    BY <1>1
<1>3. /\ work'[w].pc = "turn" /\ work'[w].r = r /\ work'[w].seen = recip[r].attempts
      /\ \A v \in Workers \ {w} : work'[v] = work[v]
    BY <1>2 DEF LInv, IInv, TypeOK, Work
<1>4. Busy(w)
    BY DEF Choose, At, Busy
<1>5. Holds(w)
    BY <1>4 DEF LInv, Leased
<1>6. Holds(w)'
    BY <1>1, <1>3, <1>5 DEF Holds, Need, Choose, At, doc, Copying, Writing
<1>. QED BY <1>3, <1>4, <1>6, OneGoesOn

LEMMA WriteLeased ==
    ASSUME LInv, InTime, NEW w \in Workers, Mark(w) \/ Miss(w)
    PROVE  Leased'
<1>1. work'[w].pc = "extend" /\ \A v \in Workers \ {w} : work'[v] = work[v]
  <2>1. CASE Mark(w)
      BY <2>1 DEF Mark, LInv, IInv, TypeOK, Idle
  <2>2. CASE Miss(w)
      BY <2>2 DEF Miss, LInv, IInv, TypeOK, Idle
  <2>. QED BY <2>1, <2>2
<1>2. Busy(w)
    BY DEF Mark, Miss, At, Busy
<1>3. Holds(w)
    BY <1>2 DEF LInv, Leased
<1>4. UNCHANGED <<status, owner, lease>> /\ (At(w, "mark") \/ At(w, "miss"))
    BY DEF Mark, Miss
<1>5. Holds(w)'
    BY <1>1, <1>3, <1>4 DEF Holds, Need, At, Mark, Miss, Copying, Writing
<1>. QED BY <1>1, <1>2, <1>5, OneGoesOn

(* One worker's errors outside the inner try *)
LEMMA ThrowLeased ==
    ASSUME LInv, InTime, NEW w \in Workers, Busy(w), Throw(w), UNCHANGED doc
    PROVE  Leased'
<1>1. work'[w].pc \in {"pick", "cleanup"} /\ \A v \in Workers \ {w} : work'[v] = work[v]
    BY DEF Throw, LInv, IInv, TypeOK, Idle
<1>2. Holds(w)
    BY DEF LInv, Leased
<1>3. lease >= Need(work[w].pc) => lease >= 1
    BY DEF Need, LInv, IInv, TypeOK
<1>4. CASE work'[w].pc = "cleanup"
  <2>1. Holds(w)'
      BY <1>2, <1>3, <1>4 DEF Holds, Need, Copying, Writing, doc
  <2>. QED BY <1>1, <2>1, OneGoesOn
<1>5. CASE work'[w].pc = "pick"
    BY <1>1, <1>5, NobodyComes DEF doc, Busy
<1>. QED BY <1>1, <1>4, <1>5

LEMMA LeaveLeased ==
    ASSUME LInv, InTime, NEW w \in Workers, LockLost(w) \/ Release(w) \/ Hang(w)
    PROVE  Leased'
<1>1. work'[w].pc \in {"pick", "hung"} /\ \A v \in Workers \ {w} : work'[v] = work[v]
    BY DEF LockLost, Release, Hang, Leave, LInv, IInv, TypeOK, Idle
<1>2. Busy(w)
    BY DEF LockLost, Release, Hang, At, Busy
<1>3. \A v \in Workers : ~Busy(v)'
    BY <1>1, <1>2 DEF LInv, Leased, Alone, Busy
<1>. QED BY <1>3 DEF Leased

LEMMA AccidentLeased ==
    ASSUME LInv, InTime, NEW w \in Workers, Gone(w) \/ MongoFails(w) \/ Crash(w)
    PROVE  Leased'
<1>1. UNCHANGED doc
    BY DEF Gone, MongoFails, Crash
<1>2. CASE Throw(w) /\ Busy(w)
    BY <1>1, <1>2, ThrowLeased
<1>3. CASE Die(w)
    BY <1>1, <1>3, DiePlaces, NobodyComes DEF doc, Busy, LInv, IInv
<1>. QED BY <1>2, <1>3 DEF Gone, MongoFails, Crash, At, Busy

LEMMA TimeLeased ==
    ASSUME LInv, InTime, Expire \/ Activate \/ Edit \/ Delete
    PROVE  Leased'
<1>. SUFFICES ASSUME NEW w \in Workers, Busy(w) PROVE (Alone(w) /\ Holds(w))'
    BY DEF Leased, Busy, Expire, Activate, Edit, Delete
<1>1. UNCHANGED <<work, recip>>
    BY DEF Expire, Activate, Edit, Delete
<1>2. Alone(w) /\ Holds(w)
    BY DEF LInv, Leased
<1>3. Alone(w)'
    BY <1>1, <1>2 DEF Alone, Busy
<1>4. Holds(w)'
    BY <1>1, <1>2 DEF Holds, Busy, Expire, Activate, Edit, Delete
<1>. QED BY <1>3, <1>4

LEMMA RetryLeased ==
    ASSUME LInv, InTime, NEW r \in Recipients, RetryDue(r)
    PROVE  Leased'
<1>. SUFFICES ASSUME NEW w \in Workers, Busy(w) PROVE (Alone(w) /\ Holds(w))'
    BY DEF Leased, Busy, RetryDue
<1>1. UNCHANGED <<work, status, owner, lease>>
    BY DEF RetryDue
<1>2. Alone(w) /\ Holds(w)
    BY DEF LInv, Leased
<1>3. Alone(w)'
    BY <1>1, <1>2 DEF Alone, Busy
<1>4. work[w].r \in Recipients /\ recip[work[w].r] \in Recipient
    BY DEF LInv, IInv, TypeOK, Work
<1>5. recip'[work[w].r] = recip[work[w].r]
         \/ recip'[work[w].r] = [recip[work[w].r] EXCEPT !.status = "pending"]
    BY <1>4 DEF RetryDue, LInv, IInv, TypeOK
<1>6. /\ recip[work[w].r].status = "pending" => recip'[work[w].r].status = "pending"
      /\ recip'[work[w].r].attempts = recip[work[w].r].attempts
    BY <1>4, <1>5 DEF Recipient
<1>7. Holds(w)'
    BY <1>1, <1>2, <1>6 DEF Holds
<1>. QED BY <1>3, <1>7

LEMMA OverrunLate ==
    ASSUME IInv, InTime, Overrun
    PROVE  ~InTime'
<1>1. left["overrun"] \in Nat /\ left["overrun"] = Budget["overrun"]
    BY DEF InTime, Spent, IInv, TypeOK, Accidents
<1>2. left'["overrun"] = left["overrun"] - 1
    BY DEF Overrun, Spend, IInv, TypeOK, Accidents
<1>. QED BY <1>1, <1>2 DEF InTime, Spent

LEMMA LInit == Init => LInv
BY InitHolds DEF Init, LInv, Leased, Busy, Idle

LEMMA LNext == LInv /\ [Next]_vars => LInv'
<1>. SUFFICES ASSUME LInv, [Next]_vars, InTime' PROVE Leased'
    BY NextKeeps DEF LInv, Leased
<1>1. InTime
    BY InTimeBefore DEF LInv
<1>2. CASE UNCHANGED vars
    BY <1>1, <1>2, NobodyComes DEF vars, doc
<1>3. CASE Next
    BY <1>1, <1>2, <1>3, PickLeased, GoOnLeased, ChooseLeased, WriteLeased, LeaveLeased, AccidentLeased,
       TimeLeased, RetryLeased, OverrunLate DEF Next, Step, Accident, Poll, LInv
<1>. QED BY <1>2, <1>3

(* A worker in time holds its lease, and enough of it for its next await. *)
THEOREM LeaseInvariant == Spec => []LInv
BY LInit, LNext, PTL DEF Spec

(* As long as no step outlasts the lease it holds, no two workers work on *)
(* the campaign, and the one that does holds its lock.                    *)
THEOREM OneWorkerAtATime == Spec => []OneWorker
<1>1. LInv => OneWorker
    BY DEF LInv, Leased, OneWorker, Alone, Holds
<1>. QED BY <1>1, LeaseInvariant, PTL

(* Within the lease no update takes 'sent' back. *)
THEOREM SentIsFinal == Spec => SentStays
<1>1. LInv /\ [Next]_vars =>
          (InTime' => \A r \in Recipients :
                         recip[r].status = "sent" => recip'[r].status = "sent")
  <2>. SUFFICES ASSUME LInv, [Next]_vars, InTime', NEW r \in Recipients, recip[r].status = "sent"
                PROVE  recip'[r].status = "sent"
      OBVIOUS
  <2>1. InTime
      BY InTimeBefore DEF LInv
  <2>2. ASSUME NEW w \in Workers, Mark(w) \/ Miss(w) PROVE recip'[r] = recip[r]
    <3>1. Busy(w) /\ work[w].pc \in Writing
        BY <2>2 DEF Mark, Miss, At, Busy, Writing
    <3>2. recip[work[w].r].status = "pending"
        BY <2>1, <3>1 DEF LInv, Leased, Holds
    <3>. QED BY <2>2, <3>2 DEF Mark, Miss, Write, LInv, IInv, TypeOK
  <2>3. ASSUME NEW q \in Recipients, RetryDue(q) PROVE recip'[r] = recip[r]
      BY <2>3 DEF RetryDue, LInv, IInv, TypeOK
  <2>4. CASE UNCHANGED recip
      BY <2>4
  <2>. QED BY <2>2, <2>3, <2>4 DEF Next, Step, Accident, Poll, Pick, Gone, LockLost, Paused, Choose,
          Finish, Turn, Send, SendFails, Extend, Delay, Release, Complete, Hang, MarkFails,
          MongoFails, Crash, Expire, Overrun, Activate, Edit, Delete, vars, doc
<1>. QED BY <1>1, LeaseInvariant, PTL DEF Spec, SentStays

-----------------------------------------------------------------------------
(* Counted *)

(* Ends of calls of send() that may not have been stored. *)
Unstored == Spent("crash") + Spent("mongo")

Stored(r) == recip[r].attempts + (IF recip[r].status = "sent" THEN 1 ELSE 0)

CountedOf(r) ==
    /\ returned[r] <= 1 + Unstored
    /\ tried[r] <= MaxTries + Unstored
    /\ status # "absent" /\ (\A w \in Workers : work[w].pc \in Writing => work[w].r # r) =>
           /\ tried[r] <= Stored(r) + Unstored
           /\ recip[r].status # "sent" => returned[r] <= Unstored

CountedTo(w) ==
    LET c == work[w]
    IN  /\ c.pc \in Copying => tried[c.r] <= c.seen + Unstored
        /\ c.pc \in Writing => tried[c.r] <= c.seen + 1 + Unstored
        /\ c.pc \in Copying \cup {"miss"} => returned[c.r] <= Unstored

Counted == InTime => /\ \A r \in Recipients : CountedOf(r)
                     /\ \A w \in Workers : CountedTo(w)

CInv == LInv /\ Counted

LEMMA CountKinds ==
    ASSUME IInv
    PROVE  /\ Unstored \in Int
           /\ \A r \in Recipients : /\ tried[r] \in Nat /\ returned[r] \in Nat
                                     /\ recip[r].attempts \in 0..MaxTries
           /\ \A w \in Workers : /\ work[w].r \in Recipients
                                  /\ work[w].seen \in 0..MaxTries
BY DEF IInv, TypeOK, Unstored, Spent, Accidents, Recipient, Work

LEMMA CountGrows ==
    ASSUME IInv, left' \in [Accidents -> Nat], \A a \in Accidents : left'[a] <= left[a]
    PROVE  Unstored' \in Int /\ Unstored' >= Unstored
BY DEF IInv, TypeOK, Unstored, Spent, Accidents

LEMMA CountLoses ==
    ASSUME IInv, Spend("crash") \/ Spend("mongo")
    PROVE  /\ Unstored' = Unstored + 1
           /\ InTime' => InTime
BY DEF IInv, TypeOK, Unstored, Spent, Spend, Accidents, InTime

(* Steps that send and store nothing, of workers that have nothing to store. *)
LEMMA QuietCounted ==
    ASSUME CInv, InTime, UNCHANGED <<recip, tried, returned>>,
           status = "absent" => status' = "absent",
           left' \in [Accidents -> Nat], \A a \in Accidents : left'[a] <= left[a],
           \A w \in Workers : \/ work'[w] = work[w]
                              \/ /\ work[w].pc \notin Writing
                                 /\ work'[w].pc \notin Copying \cup Writing
    PROVE  Counted'
<1>1. Unstored' \in Int /\ Unstored' >= Unstored
    BY CountGrows DEF CInv, LInv
<1>. USE CountKinds DEF CInv, LInv
<1>2. ASSUME NEW r \in Recipients PROVE CountedOf(r)'
  <2>1. CountedOf(r)
      BY DEF Counted
  <2>2. (\A w \in Workers : work'[w].pc \in Writing => work'[w].r # r)
            => \A w \in Workers : work[w].pc \in Writing => work[w].r # r
      OBVIOUS
  <2>. QED BY <1>1, <2>1, <2>2 DEF CountedOf, Stored
<1>3. ASSUME NEW w \in Workers PROVE CountedTo(w)'
  <2>1. CountedTo(w)
      BY DEF Counted
  <2>. QED BY <1>1, <2>1 DEF CountedTo, Copying, Writing
<1>. QED BY <1>2, <1>3 DEF Counted

(* A worker that dies or throws with something to store: one more is unstored. *)
LEMMA LossCounted ==
    ASSUME CInv, InTime, NEW w \in Workers, MongoFails(w) \/ Crash(w)
    PROVE  Counted'
<1>1. Unstored' = Unstored + 1
    BY CountLoses DEF CInv, LInv, MongoFails, Crash
<1>2. UNCHANGED <<recip, tried, returned, status>>
    BY DEF MongoFails, Crash, doc, history
<1>3. \A v \in Workers : work'[v] = work[v] \/ work'[v].pc \in {"pick", "cleanup"}
    BY ThrowPlaces, DiePlaces DEF CInv, LInv, IInv, MongoFails, Crash
<1>. USE CountKinds DEF CInv, LInv
<1>4. ASSUME NEW r \in Recipients PROVE CountedOf(r)'
  <2>1. CountedOf(r)
      BY DEF Counted
  <2>2. CASE \E v \in Workers : work[v].pc \in Writing /\ work[v].r = r
    <3>1. PICK v \in Workers : work[v].pc \in Writing /\ work[v].r = r
        BY <2>2
    <3>2. tried[r] <= work[v].seen + 1 + Unstored
        BY <3>1 DEF Counted, CountedTo
    <3>3. recip[r].attempts = work[v].seen
        BY <3>1 DEF Leased, Busy, Writing, Holds
    <3>4. tried[r] <= recip[r].attempts + (Unstored + 1)
        BY <3>2, <3>3
    <3>. QED BY <1>1, <1>2, <2>1, <3>4 DEF CountedOf, Stored
  <2>3. CASE \A v \in Workers : work[v].pc \in Writing => work[v].r # r
      BY <1>1, <1>2, <2>1, <2>3 DEF CountedOf, Stored
  <2>. QED BY <2>2, <2>3
<1>5. ASSUME NEW v \in Workers PROVE CountedTo(v)'
  <2>1. CountedTo(v)
      BY DEF Counted
  <2>. QED BY <1>1, <1>2, <1>3, <2>1 DEF CountedTo, Copying, Writing
<1>. QED BY <1>4, <1>5 DEF Counted

LEMMA TurnCounted ==
    ASSUME CInv, InTime, NEW w \in Workers, Turn(w) \/ MarkFails(w)
    PROVE  Counted'
<1>1. PICK p \in {"send", "miss"} : /\ Goto(w, p)
                                    /\ p = "send" => Turn(w)
                                    /\ p = "miss" => MarkFails(w)
    BY DEF Turn, MarkFails
<1>2. /\ work'[w].pc = p /\ work'[w].r = work[w].r /\ work'[w].seen = work[w].seen
      /\ \A v \in Workers : v # w => work'[v] = work[v]
    BY <1>1, GotoPlaces, GotoKeepsCopy, p \in Place DEF CInv, LInv, IInv, Place
<1>3. UNCHANGED <<status, recip, tried, returned>>
    BY DEF Turn, MarkFails, doc, history
<1>4. /\ p = "send" => Unstored' = Unstored /\ work[w].pc = "turn"
      /\ p = "miss" => Unstored' = Unstored + 1 /\ work[w].pc = "mark"
    BY <1>1, CountLoses DEF CInv, LInv, Turn, MarkFails, At, Unstored, Spent
<1>. USE CountKinds DEF CInv, LInv
<1>5. ASSUME NEW r \in Recipients PROVE CountedOf(r)'
  <2>1. CountedOf(r)
      BY DEF Counted
  <2>2. (\A v \in Workers : work'[v].pc \in Writing => work'[v].r # r)
            => \A v \in Workers : work[v].pc \in Writing => work[v].r # r
      BY <1>2, <1>4 DEF Writing
  <2>. QED BY <1>3, <1>4, <2>1, <2>2 DEF CountedOf, Stored
<1>6. ASSUME NEW v \in Workers PROVE CountedTo(v)'
  <2>1. CountedTo(v) /\ CountedOf(work[v].r)
      BY DEF Counted
  <2>2. CASE v # w
      BY <1>2, <1>3, <1>4, <2>1, <2>2 DEF CountedTo
  <2>3. CASE v = w
      BY <1>2, <1>3, <1>4, <2>1, <2>3 DEF CountedTo, CountedOf, Copying, Writing
  <2>. QED BY <2>2, <2>3
<1>. QED BY <1>5, <1>6 DEF Counted

LEMMA ChooseCounted ==
    ASSUME CInv, InTime, NEW w \in Workers, Choose(w)
    PROVE  Counted'
<1>1. PICK r \in Recipients :
         /\ recip[r].status = "pending"
         /\ work' = [work EXCEPT ![w].pc = "turn", ![w].r = r, ![w].seen = recip[r].attempts]
    BY DEF Choose, NextRecipient, Due
<1>2. work' = [work EXCEPT ![w] = [work[w] EXCEPT !.pc = "turn", !.r = r, !.seen = recip[r].attempts]]
    BY <1>1
<1>3. /\ work'[w].pc = "turn" /\ work'[w].r = r /\ work'[w].seen = recip[r].attempts
      /\ \A v \in Workers : v # w => work'[v] = work[v]
    BY <1>2 DEF CInv, LInv, IInv, TypeOK, Work
<1>4. /\ UNCHANGED <<status, recip, tried, returned>>
      /\ Unstored' = Unstored /\ status = "running" /\ work[w].pc = "read"
    BY DEF Choose, At, doc, history, Unstored, Spent
<1>5. \A v \in Workers : work[v].pc \notin Writing
    BY <1>4 DEF CInv, LInv, Leased, Alone, Busy, Writing
<1>. USE CountKinds DEF CInv, LInv
<1>6. tried[r] <= recip[r].attempts + Unstored /\ returned[r] <= Unstored
    BY <1>1, <1>4, <1>5 DEF Counted, CountedOf, Stored
<1>7. ASSUME NEW q \in Recipients PROVE CountedOf(q)'
    BY <1>4, <1>5 DEF Counted, CountedOf, Stored
<1>8. ASSUME NEW v \in Workers PROVE CountedTo(v)'
  <2>1. CountedTo(v)
      BY DEF Counted
  <2>2. CASE v # w
      BY <1>3, <1>4, <2>1, <2>2 DEF CountedTo
  <2>3. CASE v = w
      BY <1>3, <1>4, <1>6, <2>3 DEF CountedTo, Copying, Writing
  <2>. QED BY <2>2, <2>3
<1>. QED BY <1>7, <1>8 DEF Counted

LEMMA SendCounted ==
    ASSUME CInv, InTime, NEW w \in Workers, Send(w) \/ SendFails(w)
    PROVE  Counted'
<1> DEFINE r == work[w].r
<1>0. r \in Recipients /\ work[w].pc = "send"
    BY DEF CInv, LInv, IInv, TypeOK, Work, Send, SendFails, At
<1>1. tried' = [tried EXCEPT ![r] = @ + 1] /\ UNCHANGED <<status, recip>>
    BY DEF Send, SendFails
<1>2. PICK p \in Writing, d \in 0..1 :
          /\ Goto(w, p)
          /\ returned' = [returned EXCEPT ![r] = @ + d]
          /\ Unstored' = Unstored
          /\ p = "miss" => d = 0
  <2>1. CASE Send(w)
      BY <2>1 DEF Send, Writing, Unstored, Spent
  <2>2. CASE SendFails(w)
    <3>1. returned = [returned EXCEPT ![r] = @ + 0]
        BY <1>0 DEF CInv, LInv, IInv, TypeOK
    <3>. QED BY <2>2, <3>1 DEF SendFails, Writing, Unstored, Spent
  <2>. QED BY <2>1, <2>2
<1>3. /\ work'[w].pc = p /\ work'[w].r = r /\ work'[w].seen = work[w].seen
      /\ \A v \in Workers : v # w => work'[v] = work[v]
    BY <1>2, GotoPlaces, GotoKeepsCopy, p \in Place DEF CInv, LInv, IInv, Place, Writing
<1>4. \A v \in Workers : v # w => ~Busy(v) /\ ~Busy(v)'
    BY <1>0, <1>3 DEF CInv, LInv, Leased, Alone, Busy
<1>5. tried[r] <= work[w].seen + Unstored /\ returned[r] <= Unstored /\ work[w].seen < MaxTries
    BY <1>0 DEF r, CInv, LInv, IInv, Told, ToldTo, Counted, CountedTo, Copying
<1>. HIDE DEF r
<1>6. \A q \in Recipients : /\ tried'[q] = IF q = r THEN tried[q] + 1 ELSE tried[q]
                            /\ returned'[q] = IF q = r THEN returned[q] + d ELSE returned[q]
    BY <1>0, <1>1, <1>2 DEF CInv, LInv, IInv, TypeOK
<1>. USE CountKinds DEF CInv, LInv
<1>7. ASSUME NEW q \in Recipients PROVE CountedOf(q)'
  <2>1. CountedOf(q)
      BY DEF Counted
  <2>2. CASE q = r
    <3>1. /\ returned'[q] <= 1 + Unstored' /\ tried'[q] <= MaxTries + Unstored'
        BY <1>0, <1>2, <1>5, <1>6, <2>2
    <3>2. work'[w].pc \in Writing /\ work'[w].r = q
        BY <1>3, <2>2
    <3>. QED BY <3>1, <3>2 DEF CountedOf
  <2>3. CASE q # r
    <3>1. \A v \in Workers : work[v].pc \in Writing => work[v].r # q
        BY <1>0, <1>4 DEF Busy, Writing
    <3>. QED BY <1>1, <1>2, <1>6, <2>1, <2>3, <3>1 DEF CountedOf, Stored
  <2>. QED BY <2>2, <2>3
<1>8. ASSUME NEW v \in Workers PROVE CountedTo(v)'
  <2>1. CASE v # w
      BY <1>4, <2>1 DEF CountedTo, Busy, Copying, Writing
  <2>2. CASE v = w
    <3>1. tried'[r] <= work[w].seen + 1 + Unstored' /\ (p = "miss" => returned'[r] <= Unstored')
        BY <1>0, <1>2, <1>5, <1>6
    <3>. QED BY <1>3, <2>2, <3>1 DEF CountedTo, Copying, Writing
  <2>. QED BY <2>1, <2>2
<1>. QED BY <1>7, <1>8 DEF Counted

LEMMA WriteCounted ==
    ASSUME CInv, InTime, NEW w \in Workers, Mark(w) \/ Miss(w)
    PROVE  Counted'
<1> DEFINE r == work[w].r
           n == IF Mark(w) THEN work[w].seen ELSE work[w].seen + 1
<1>1. PICK s \in {"sent", "later", "failed"} :
         /\ Write(r, s, n)
         /\ s = "sent" <=> Mark(w)
         /\ s # "sent" => work[w].pc = "miss"
    BY DEF Mark, Miss, At
<1>2. work'[w].pc = "extend" /\ \A v \in Workers : v # w => work'[v] = work[v]
  <2>1. CASE Mark(w)
      BY <2>1 DEF Mark, CInv, LInv, IInv, TypeOK, Idle
  <2>2. CASE Miss(w)
      BY <2>2 DEF Miss, CInv, LInv, IInv, TypeOK, Idle
  <2>. QED BY <2>1, <2>2
<1>3. UNCHANGED <<status, tried, returned>> /\ Unstored' = Unstored
    BY DEF Mark, Miss, history, Unstored, Spent
<1>4. r \in Recipients /\ work[w].pc \in Writing
    BY DEF CInv, LInv, IInv, TypeOK, Work, Mark, Miss, At, Writing
<1>5. \A v \in Workers : v # w => ~Busy(v) /\ ~Busy(v)'
    BY <1>2, <1>4 DEF CInv, LInv, Leased, Alone, Busy, Writing
<1>6. /\ tried[r] <= work[w].seen + 1 + Unstored
      /\ s # "sent" => returned[r] <= Unstored
      /\ s # "sent" => n = work[w].seen + 1
      /\ s = "sent" => n = work[w].seen
    BY <1>1, <1>4 DEF CInv, Counted, CountedTo
<1>. HIDE DEF r, n
<1>7. status # "absent" => recip' = [recip EXCEPT ![r] = [status |-> s, attempts |-> n]]
    BY <1>1 DEF Write
<1>. USE CountKinds DEF CInv, LInv
<1>8. ASSUME NEW q \in Recipients PROVE CountedOf(q)'
  <2>1. CountedOf(q)
      BY DEF Counted
  <2>2. CASE status = "absent"
      BY <1>3, <2>1, <2>2 DEF CountedOf
  <2>3. CASE status # "absent" /\ q = r
    <3>1. recip'[q].status = s /\ recip'[q].attempts = n
        BY <1>4, <1>7, <2>3 DEF IInv, TypeOK
    <3>. QED BY <1>3, <1>6, <2>1, <2>3, <3>1 DEF CountedOf, Stored
  <2>4. CASE status # "absent" /\ q # r
    <3>1. recip'[q] = recip[q]
        BY <1>4, <1>7, <2>4 DEF IInv, TypeOK
    <3>2. \A v \in Workers : work[v].pc \in Writing => work[v].r # q
        BY <1>5, <2>4 DEF Busy, Writing, r
    <3>. QED BY <1>3, <2>1, <3>1, <3>2 DEF CountedOf, Stored
  <2>. QED BY <2>2, <2>3, <2>4
<1>9. ASSUME NEW v \in Workers PROVE CountedTo(v)'
    BY <1>2, <1>5 DEF CountedTo, Busy, Copying, Writing
<1>. QED BY <1>8, <1>9 DEF Counted

LEMMA RetryCounted ==
    ASSUME CInv, InTime, NEW r \in Recipients, RetryDue(r)
    PROVE  Counted'
<1>1. UNCHANGED <<status, work, tried, returned>> /\ Unstored' = Unstored
    BY DEF RetryDue, history, Unstored, Spent
<1>. USE CountKinds DEF CInv, LInv
<1>2. ASSUME NEW q \in Recipients PROVE CountedOf(q)'
  <2>1. CountedOf(q) /\ recip[q] \in Recipient
      BY DEF Counted, IInv, TypeOK
  <2>2. recip'[q] = recip[q] \/ (recip[q].status = "later" /\ recip'[q] = [recip[q] EXCEPT !.status = "pending"])
      BY DEF RetryDue, IInv, TypeOK
  <2>3. Stored(q)' = Stored(q) /\ (recip'[q].status # "sent" => recip[q].status # "sent")
      BY <2>1, <2>2 DEF Stored, Recipient
  <2>. QED BY <1>1, <2>1, <2>3 DEF CountedOf
<1>3. ASSUME NEW v \in Workers PROVE CountedTo(v)'
    BY <1>1 DEF Counted, CountedTo
<1>. QED BY <1>2, <1>3 DEF Counted

LEMMA PlainCounted ==
    ASSUME CInv, InTime, NEW w \in Workers,
           \/ Pick(w) \/ Gone(w) \/ LockLost(w) \/ Paused(w) \/ Finish(w) \/ Hang(w)
           \/ Extend(w) \/ Delay(w) \/ Release(w) \/ Complete(w)
    PROVE  Counted'
<1>1. \A v \in Workers : \/ work'[v] = work[v]
                         \/ work[v].pc \notin Writing /\ work'[v].pc \notin Copying \cup Writing
  <2>. USE DEF Copying, Writing, At, CInv, LInv, IInv
  <2>1. CASE Pick(w) \/ Paused(w) \/ Finish(w) \/ Extend(w) \/ Delay(w) \/ Complete(w)
    <3>1. PICK p \in {"read", "pause", "complete", "delay", "ban", "unlock"} : Goto(w, p)
        BY <2>1 DEF Pick, Paused, Finish, Extend, Delay, Complete
    <3>2. work[w].pc \notin Writing
        BY <2>1 DEF Pick, Paused, Finish, Extend, Delay, Complete
    <3>. QED BY <3>1, <3>2, GotoPlaces DEF Place
  <2>2. CASE Gone(w)
      BY <2>2 DEF Gone, Throw, Idle, TypeOK
  <2>3. CASE LockLost(w) \/ Release(w)
      BY <2>3 DEF LockLost, Release, Leave, Idle, TypeOK
  <2>4. CASE Hang(w)
      BY <2>4 DEF Hang, Idle, TypeOK
  <2>. QED BY <2>1, <2>2, <2>3, <2>4
<1>2. left' \in [Accidents -> Nat] /\ \A a \in Accidents : left'[a] <= left[a]
    BY SameLeft, SpendKinds, "hang" \in Accidents
       DEF CInv, LInv, IInv, Pick, Gone, LockLost, Paused, Finish, Hang, Extend, Delay, Release,
           Complete, Accidents
<1>3. UNCHANGED <<recip, tried, returned>> /\ (status = "absent" => status' = "absent")
    BY DEF Pick, Gone, LockLost, Paused, Finish, Hang, Extend, Delay, Release, Complete, doc, history
<1>. QED BY <1>1, <1>2, <1>3, QuietCounted

LEMMA TimeCounted ==
    ASSUME CInv, InTime, Expire \/ Overrun \/ Activate \/ Edit \/ Delete \/ UNCHANGED vars
    PROVE  Counted'
<1>1. UNCHANGED <<recip, tried, returned, work>> /\ (status = "absent" => status' = "absent")
    BY DEF Expire, Overrun, Activate, Edit, Delete, vars, doc, history
<1>2. left' \in [Accidents -> Nat] /\ \A a \in Accidents : left'[a] <= left[a]
    BY SameLeft, SpendKinds, "overrun" \in Accidents, "edit" \in Accidents
       DEF CInv, LInv, IInv, Expire, Overrun, Activate, Edit, Delete, vars, Accidents
<1>. QED BY <1>1, <1>2, QuietCounted

LEMMA CInit == Init => CInv
<1>. SUFFICES ASSUME Init PROVE Counted
    BY LInit DEF CInv
<1>1. Unstored = 0
    BY DEF Init, Unstored, Spent, Accidents
<1>. QED BY <1>1 DEF Init, Counted, CountedOf, CountedTo, Stored, Idle, Copying, Writing

LEMMA CNext == CInv /\ [Next]_vars => CInv'
<1>. SUFFICES ASSUME CInv, [Next]_vars, InTime' PROVE Counted'
    BY LNext DEF CInv, Counted
<1>1. InTime
    BY InTimeBefore DEF CInv, LInv
<1>. QED BY <1>1, LossCounted, TurnCounted, ChooseCounted, SendCounted, WriteCounted, RetryCounted,
            PlainCounted, TimeCounted DEF Next, Step, Accident, Poll

(* The calls of send() that returned, and all calls, agree with what is    *)
(* stored but for those whose end an accident lost.                        *)
THEOREM CountInvariant == Spec => []CInv
BY CInit, CNext, PTL DEF Spec

(* Within the lease the send to a recipient returns a second time only by  *)
(* a crash or a failed call of Mongo, and once more for each.              *)
THEOREM ReturnsOnce == Spec => []ReturnedOnce
<1>1. CInv => ReturnedOnce
  <2>. SUFFICES ASSUME CInv, InTime, NEW r \in Recipients
                PROVE  returned[r] <= 1 + Spent("crash") + Spent("mongo")
      BY DEF ReturnedOnce
  <2>1. returned[r] <= 1 + Unstored
      BY DEF CInv, Counted, CountedOf
  <2>2. \A a \in Accidents : Spent(a) \in Int
      BY DEF CInv, LInv, IInv, TypeOK, Spent
  <2>. QED BY <2>1, <2>2 DEF Unstored, Accidents
<1>. QED BY <1>1, CountInvariant, PTL

(* Within the lease the limit of attempts is exceeded only by attempts a   *)
(* crash or a failed call of Mongo left unrecorded.                        *)
THEOREM TriesAreBounded == Spec => []TriesBounded
<1>1. CInv => TriesBounded
  <2>. SUFFICES ASSUME CInv, InTime, NEW r \in Recipients
                PROVE  tried[r] <= MaxTries + Spent("crash") + Spent("mongo")
      BY DEF TriesBounded
  <2>1. tried[r] <= MaxTries + Unstored
      BY DEF CInv, Counted, CountedOf
  <2>2. \A a \in Accidents : Spent(a) \in Int
      BY DEF CInv, LInv, IInv, TypeOK, Spent
  <2>. QED BY <2>1, <2>2 DEF Unstored, Accidents
<1>. QED BY <1>1, CountInvariant, PTL

(* Both limits hold within the lease. *)
THEOREM SendsAreBounded == Spec => []SendsBounded
BY ReturnsOnce, TriesAreBounded, PTL DEF SendsBounded

(* The stored statuses are true whatever happens, lost leases included. *)
THEOREM CampaignIsSound == Spec => []CampaignSound
BY TypeCorrect, StatusesAreTrue, NobodyIsSkipped, PTL DEF CampaignSound
=============================================================================
