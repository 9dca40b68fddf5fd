----------------------------- MODULE SendsProofs -----------------------------
(***************************************************************************)
(* The orchestrator uses the limiter as it may be used: every step of      *)
(* Sends is a step of BaileysRateLimiter, or leaves it alone, so what is   *)
(* proved of the limiter holds of the sends.  On top of that comes an      *)
(* invariant of each send, which says how the tasks of its tries, the      *)
(* stage of the running one and the copies of its message go together.     *)
(*                                                                         *)
(* As in BaileysRateLimiterProofs the invariant is stated of any statuses, *)
(* because most actions edit one status and run processQueue() on it: each *)
(* action is shown to keep it up to there, and one lemma that starting a   *)
(* task keeps it.                                                          *)
(***************************************************************************)
EXTENDS Sends, BaileysRateLimiterProofs

USE DEF Stages

Running(s, st) == \E k \in 1..Tries : st[<<s, k>>] = "running"

(* The copies that are confirmed or out, and the one that may still come,   *)
(* are paid for by calls of the task: all of the tries before, and those of *)
(* this one.                                                                *)
Paid(s, at, n, sg, co, ou) ==
    co + ou + (IF sg \in {"typing", "sending"} THEN 1 ELSE 0)
        <= (n - 1) * (MaxRetries + 1) + at[<<s, n>>]

(* Send s, with the statuses st and the attempts at of its tasks: it is at  *)
(* try n and has the call c, the stage sg and the copies co and ou.         *)
Agree(s, st, at, n, c, sg, co, ou) ==
    /\ n \in 0..Tries /\ co \in Nat /\ ou \in Nat
    /\ c \in {"none", "limiter", "pause", "sent", "failed"}
    /\ sg \in Stages
    /\ \A k \in 1..Tries :
        /\ st[<<s, k>>] = "new" <=> k > n
        /\ k < n => st[<<s, k>>] = "rejected"
    /\ n = 0 => c \in {"none", "failed"} /\ sg = "idle" /\ co = 0 /\ ou = 0
    /\ n > 0 =>
        /\ c # "none"
        /\ c = "limiter" <=> st[<<s, n>>] \in {"queued", "running", "backoff"}
        /\ c = "sent" <=> st[<<s, n>>] = "resolved"
        /\ sg # "idle" <=> st[<<s, n>>] = "running"
        /\ c = "pause" => n < Tries
        /\ co = (IF sg = "after" \/ c = "sent" THEN 1 ELSE 0)
        /\ Paid(s, at, n, sg, co, ou)

Shaped ==
    /\ try \in [Sends -> 0..Tries]
    /\ call \in [Sends -> {"none", "limiter", "pause", "sent", "failed"}]
    /\ runtime \in [Sends -> Runtimes \cup {NoRuntime}]
    /\ confirmed \in [Sends -> Nat] /\ out \in [Sends -> Nat]
    /\ current \in Runtimes \cup {NoRuntime} /\ used \subseteq Runtimes
    /\ storing \subseteq {s \in Sends : confirmed[s] = 1}

SInv ==
    /\ Shaped
    /\ stage \in [Sends -> Stages]
    /\ \A s \in Sends : Agree(s, status, attempts, try[s], call[s], stage[s], confirmed[s], out[s])

(* A send whose task is on its way, or that is about to try again, is at a try. *)
LEMMA AtATry ==
    ASSUME SInv, NEW s \in Sends
    PROVE  /\ stage[s] # "idle" \/ call[s] \in {"limiter", "pause"} => try[s] \in 1..Tries /\ Task(s) \in Tasks
           /\ call[s] = "pause" => try[s] + 1 \in 1..Tries /\ <<s, try[s] + 1>> \in Tasks
           /\ <<s, 1>> \in Tasks
BY SendsAssumption DEF SInv, Shaped, Agree, Task

LEMMA StepUsesLimiter == SInv /\ [SendsNext]_allVars => [Next]_vars
<1>. SUFFICES ASSUME SInv, [SendsNext]_allVars PROVE [Next]_vars
    OBVIOUS
<1>1. ASSUME NEW s \in Sends, Send(s) PROVE Next
    BY <1>1, AtATry DEF Send, Next
<1>2. ASSUME NEW s \in Sends, TryAgain(s) PROVE Next
    BY <1>2, AtATry DEF TryAgain, Next
<1>3. ASSUME NEW s \in Sends, Misses(s) PROVE Next
    <2>1. Task(s) \in Tasks
        BY <1>3, AtATry DEF Misses
    <2>. QED BY <1>3, <2>1 DEF Misses, Next
<1>4. ASSUME NEW s \in Sends, Rested(s) PROVE Next
    <2>1. Task(s) \in Tasks
        BY <1>4, AtATry DEF Rested
    <2>. QED BY <1>4, <2>1 DEF Rested, Next
<1>5. ASSUME NEW s \in Sends, Unpause(s) PROVE Next
    <2>1. Task(s) \in Tasks
        BY <1>5, AtATry DEF Unpause
    <2>. QED BY <1>5, <2>1 DEF Unpause, Next
<1>6. Pump \/ Pass => Next
    BY DEF Pump, Pass, Next
<1>7. ASSUME NEW s \in Sends, SendNowhere(s) \/ Typed(s) \/ Confirm(s) \/ Stores(s) \/ StoreFails(s)
      PROVE  UNCHANGED vars
    BY <1>7 DEF SendNowhere, Typed, Confirm, Stores, StoreFails, vars
<1>8. Unregister \/ Register \/ UNCHANGED allVars => UNCHANGED vars
    BY DEF Unregister, Register, allVars, vars
<1>. QED BY <1>1, <1>2, <1>3, <1>4, <1>5, <1>6, <1>7, <1>8 DEF SendsNext
-----------------------------------------------------------------------------
(* processQueue() starts at most one task, and one that was queued. *)
Starts(st) ==
    \/ status' = st /\ attempts' = attempts
    \/ \E h \in Tasks :
        /\ st[h] = "queued"
        /\ status' = [st EXCEPT ![h] = "running"]
        /\ attempts' = [attempts EXCEPT ![h] = @ + 1]

LEMMA ProcessQueueStarts ==
    ASSUME NEW q, NEW r, NEW p, NEW st, Core(q, r, st), ProcessQueue(q, r, p, st)
    PROVE  Starts(st)
<1>1. CASE Return(q, r, p, st) \/ Suspend(q, r, p, st)
    BY <1>1 DEF Return, Suspend, Starts
<1>2. CASE Start(q, r, p, st)
    <2>1. /\ Head(q) \in Tasks /\ Head(q) = q[1] /\ 1 \in 1..Len(q)
        BY <1>2 DEF Start, Core
    <2>2. st[Head(q)] = "queued"
        BY <2>1 DEF Core, InQueue
    <2>. QED BY <1>2, <2>1, <2>2 DEF Start, Starts
<1>. QED BY <1>1, <1>2 DEF ProcessQueue

(* What a send agrees with before processQueue() starts a task, it agrees   *)
(* with afterwards: the task that starts begins to type.                    *)
LEMMA StartAgrees ==
    ASSUME NEW st \in [Tasks -> Status], Starts(st), StageAfter,
           attempts \in [Tasks -> Nat],
           \A x \in Tasks : /\ st[x] = "running" => status[x] = "running"
                            /\ st[x] = "queued" => status[x] # "running",
           NEW s \in Sends, NEW n, NEW c, NEW co, NEW ou,
           Agree(s, st, attempts, n, c, IF Running(s, st) THEN stage[s] ELSE "idle", co, ou)
    PROVE  Agree(s, status', attempts', n, c, stage'[s], co, ou)
<1>. DEFINE sg == IF Running(s, st) THEN stage[s] ELSE "idle"
<1>. USE SendsAssumption
<1>0. \A k \in 1..Tries : <<s, k>> \in Tasks
    OBVIOUS
<1>1. stage'[s] = IF \E k \in 1..Tries : status'[<<s, k>>] = "running" /\ status[<<s, k>>] # "running"
                  THEN "typing"
                  ELSE IF Running(s, status') THEN stage[s] ELSE "idle"
    BY DEF StageAfter, Running
<1>2. CASE status' = st /\ attempts' = attempts
    <2>1. stage'[s] = sg
        BY <1>0, <1>1, <1>2 DEF Running
    <2>. QED BY <1>2, <2>1
<1>3. ASSUME NEW h \in Tasks, st[h] = "queued", status' = [st EXCEPT ![h] = "running"],
             attempts' = [attempts EXCEPT ![h] = @ + 1],
             \A k \in 1..Tries : h # <<s, k>>
      PROVE  Agree(s, status', attempts', n, c, stage'[s], co, ou)
    <2>1. \A k \in 1..Tries : /\ status'[<<s, k>>] = st[<<s, k>>]
                              /\ attempts'[<<s, k>>] = attempts[<<s, k>>]
        BY <1>0, <1>3
    <2>2. stage'[s] = sg
        BY <1>0, <1>1, <2>1 DEF Running
    <2>. QED BY <2>1, <2>2 DEF Agree, Paid
<1>4. ASSUME NEW k \in 1..Tries, st[<<s, k>>] = "queued",
             status' = [st EXCEPT ![<<s, k>>] = "running"],
             attempts' = [attempts EXCEPT ![<<s, k>>] = @ + 1]
      PROVE  Agree(s, status', attempts', n, c, stage'[s], co, ou)
    <2>1. k = n /\ n > 0
        BY <1>4 DEF Agree
    <2>2. /\ \A j \in 1..Tries : j # n => status'[<<s, j>>] = st[<<s, j>>]
          /\ status'[<<s, n>>] = "running"
          /\ attempts'[<<s, n>>] = attempts[<<s, n>>] + 1 /\ attempts[<<s, n>>] \in Nat
        BY <1>0, <1>4, <2>1
    <2>3. status[<<s, n>>] # "running" /\ stage'[s] = "typing"
        BY <1>0, <1>1, <1>4, <2>1, <2>2
    <2>4. sg = "idle"
        BY <1>4, <2>1 DEF Agree
    <2>5. Paid(s, attempts, n, "idle", co, ou) /\ co \in Nat /\ ou \in Nat /\ n \in Int
        BY <2>1, <2>4 DEF Agree
    <2>6. Paid(s, attempts', n, "typing", co, ou)
        <3>1. (n - 1) * (MaxRetries + 1) \in Int
            BY <2>5, LimiterAssumption
        <3>. QED BY <2>2, <2>5, <3>1 DEF Paid
    <2>7. c = "limiter" /\ co = 0
        BY <1>4, <2>1, <2>4 DEF Agree
    <2>8. ASSUME NEW j \in 1..Tries
          PROVE  /\ status'[<<s, j>>] = "new" <=> j > n
                 /\ j < n => status'[<<s, j>>] = "rejected"
        BY <1>4, <2>1, <2>2, <2>8 DEF Agree
    <2>. QED BY <2>1, <2>2, <2>3, <2>5, <2>6, <2>7, <2>8 DEF Agree
<1>. QED BY <1>2, <1>3, <1>4 DEF Starts

(* An action that edits the status of one task of send s, whose tasks do    *)
(* not run then, and that leaves the other sends alone keeps the invariant  *)
(* if s still agrees with what was edited.                                  *)
LEMMA EditKeeps ==
    ASSUME SInv, TypeOK, Shaped', NEW s \in Sends, NEW k \in 1..Tries, NEW v \in Status \ {"running"},
           v = "queued" => status[<<s, k>>] # "running",
           \A j \in 1..Tries : j # k => status[<<s, j>>] # "running",
           Starts([status EXCEPT ![<<s, k>>] = v]), StageAfter,
           \A u \in Sends : u # s => /\ try'[u] = try[u] /\ call'[u] = call[u]
                                     /\ confirmed'[u] = confirmed[u] /\ out'[u] = out[u],
           Agree(s, [status EXCEPT ![<<s, k>>] = v], attempts, try'[s], call'[s], "idle",
                 confirmed'[s], out'[s])
    PROVE  SInv'
<1>. DEFINE st == [status EXCEPT ![<<s, k>>] = v]
<1>0. /\ status \in [Tasks -> Status] /\ attempts \in [Tasks -> Nat]
      /\ st \in [Tasks -> Status]
      /\ \A u \in Sends, j \in 1..Tries : <<u, j>> \in Tasks
    BY SendsAssumption DEF TypeOK
<1>1. \A x \in Tasks : /\ st[x] = "running" => status[x] = "running"
                       /\ st[x] = "queued" => status[x] # "running"
    BY <1>0
<1>2. ~Running(s, st)
    BY <1>0 DEF Running
<1>3. ASSUME NEW u \in Sends, u # s
      PROVE  Agree(u, st, attempts, try'[u], call'[u], IF Running(u, st) THEN stage[u] ELSE "idle",
                   confirmed'[u], out'[u])
    <2>1. \A j \in 1..Tries : st[<<u, j>>] = status[<<u, j>>]
        BY <1>0, <1>3
    <2>2. Agree(u, status, attempts, try[u], call[u], stage[u], confirmed[u], out[u])
        BY DEF SInv
    <2>3. Agree(u, st, attempts, try[u], call[u], stage[u], confirmed[u], out[u])
        BY <2>1, <2>2 DEF Agree
    <2>4. stage[u] # "idle" => Running(u, st)
        BY <2>3 DEF Agree, Running
    <2>5. stage[u] = IF Running(u, st) THEN stage[u] ELSE "idle"
        BY <2>4
    <2>. QED BY <1>3, <2>3, <2>5
<1>. HIDE DEF st
<1>4. \A u \in Sends : Agree(u, st, attempts, try'[u], call'[u],
                             IF Running(u, st) THEN stage[u] ELSE "idle", confirmed'[u], out'[u])
    <2>1. Agree(s, st, attempts, try'[s], call'[s], IF Running(s, st) THEN stage[s] ELSE "idle",
                confirmed'[s], out'[s])
        BY <1>2 DEF st
    <2>. QED BY <1>3, <2>1
<1>5. Starts(st)
    BY DEF st
<1>6. \A u \in Sends : Agree(u, status', attempts', try'[u], call'[u], stage'[u], confirmed'[u], out'[u])
    BY <1>0, <1>1, <1>4, <1>5, StartAgrees
<1>7. stage' \in [Sends -> Stages]
    BY <1>6 DEF StageAfter, Agree
<1>. QED BY <1>6, <1>7 DEF SInv
-----------------------------------------------------------------------------
(* What a try that was given up for good has used up. *)
LEMMA RejectedIsPaid ==
    ASSUME IInv, NEW s \in Sends, NEW k \in 1..Tries, status[<<s, k>>] = "rejected"
    PROVE  attempts[<<s, k>>] = MaxRetries + 1
BY SendsAssumption DEF IInv, Tried

LEMMA SendKeeps ==
    ASSUME SInv, IInv, NEW s \in Sends, Send(s) PROVE SInv'
<1>. DEFINE st == [status EXCEPT ![<<s, 1>>] = "queued"]
<1>. USE SendsAssumption
<1>0. /\ <<s, 1>> \in Tasks /\ 1 \in 1..Tries /\ TypeOK
      /\ status \in [Tasks -> Status] /\ attempts \in [Tasks -> Nat]
    BY AtATry DEF IInv, TypeOK
<1>1. /\ try[s] = 0 /\ confirmed[s] = 0 /\ out[s] = 0
      /\ \A j \in 1..Tries : status[<<s, j>>] = "new"
    <2>1. Agree(s, status, attempts, try[s], "none", stage[s], confirmed[s], out[s])
        BY DEF Send, SInv
    <2>2. try[s] = 0
        BY <2>1 DEF Agree
    <2>3. confirmed[s] = 0 /\ out[s] = 0
        BY <2>1, <2>2 DEF Agree
    <2>4. \A j \in 1..Tries : status[<<s, j>>] = "new" <=> j > 0
        BY <2>1, <2>2 DEF Agree
    <2>. QED BY <2>2, <2>3, <2>4
<1>2. Starts(st) /\ StageAfter
    <2>1. Run(<<s, 1>>) /\ StageAfter
        BY DEF Send
    <2>2. Core(Append(queue, <<s, 1>>), running, st)
        BY <1>0, <2>1, RunPrepares
    <2>3. ProcessQueue(Append(queue, <<s, 1>>), running, pumps, st)
        BY <2>1 DEF Run
    <2>. HIDE DEF st
    <2>. QED BY <2>1, <2>2, <2>3, ProcessQueueStarts
<1>3. /\ Shaped' /\ try'[s] = 1 /\ call'[s] = "limiter" /\ confirmed'[s] = 0 /\ out'[s] = 0
      /\ \A u \in Sends : u # s => /\ try'[u] = try[u] /\ call'[u] = call[u]
                                   /\ confirmed'[u] = confirmed[u] /\ out'[u] = out[u]
    BY <1>0, <1>1 DEF Send, SInv, Shaped
<1>4. Paid(s, attempts, 1, "idle", 0, 0)
    BY <1>0, LimiterAssumption DEF Paid
<1>5. Agree(s, st, attempts, 1, "limiter", "idle", 0, 0)
    BY <1>0, <1>1, <1>4 DEF Agree
<1>6. Agree(s, st, attempts, try'[s], call'[s], "idle", confirmed'[s], out'[s])
    BY <1>3, <1>5
<1>. QED BY <1>0, <1>1, <1>2, <1>3, <1>6, EditKeeps DEF Status

LEMMA TryAgainKeeps ==
    ASSUME SInv, IInv, NEW s \in Sends, TryAgain(s) PROVE SInv'
<1>. DEFINE n  == try[s]
            t  == <<s, n + 1>>
            st == [status EXCEPT ![t] = "queued"]
<1>. USE SendsAssumption
<1>0. /\ t \in Tasks /\ n \in 1..Tries /\ n + 1 \in 1..Tries /\ TypeOK
      /\ status \in [Tasks -> Status] /\ attempts \in [Tasks -> Nat]
    BY AtATry DEF IInv, TypeOK, TryAgain
<1>1. Agree(s, status, attempts, n, "pause", stage[s], confirmed[s], out[s])
    BY DEF SInv, TryAgain
<1>2. /\ status[<<s, n>>] = "rejected" /\ stage[s] = "idle" /\ confirmed[s] = 0 /\ out[s] \in Nat
      /\ Paid(s, attempts, n, "idle", 0, out[s])
      /\ \A j \in 1..Tries : /\ status[<<s, j>>] = "new" <=> j > n
                             /\ j < n + 1 => status[<<s, j>>] = "rejected"
    <2>1. status[<<s, n>>] = "rejected" /\ stage[s] = "idle"
        BY <1>0, <1>1 DEF Agree, Status
    <2>2. confirmed[s] = 0 /\ out[s] \in Nat /\ Paid(s, attempts, n, "idle", 0, out[s])
        BY <1>0, <1>1, <2>1 DEF Agree
    <2>3. \A j \in 1..Tries : /\ status[<<s, j>>] = "new" <=> j > n
                              /\ j < n => status[<<s, j>>] = "rejected"
        BY <1>1 DEF Agree
    <2>4. \A j \in 1..Tries : j < n + 1 => j < n \/ j = n
        BY <1>0
    <2>. HIDE DEF n
    <2>. QED BY <2>1, <2>2, <2>3, <2>4
<1>3. Starts(st) /\ StageAfter
    <2>1. Run(t) /\ StageAfter
        BY DEF TryAgain
    <2>2. Core(Append(queue, t), running, st)
        BY <1>0, <2>1, RunPrepares
    <2>3. ProcessQueue(Append(queue, t), running, pumps, st)
        BY <2>1 DEF Run
    <2>. HIDE DEF st
    <2>. QED BY <2>1, <2>2, <2>3, ProcessQueueStarts
<1>4. /\ Shaped' /\ try'[s] = n + 1 /\ call'[s] = "limiter" /\ confirmed'[s] = 0 /\ out'[s] = out[s]
      /\ \A u \in Sends : u # s => /\ try'[u] = try[u] /\ call'[u] = call[u]
                                   /\ confirmed'[u] = confirmed[u] /\ out'[u] = out[u]
    BY <1>0, <1>2 DEF TryAgain, SInv, Shaped
<1>5. Paid(s, attempts, n + 1, "idle", 0, out[s])
    <2>1. attempts[<<s, n>>] = MaxRetries + 1
        BY <1>0, <1>2, RejectedIsPaid
    <2>2. out[s] <= (n - 1) * (MaxRetries + 1) + (MaxRetries + 1)
        BY <1>2, <2>1 DEF Paid
    <2>3. (n - 1) * (MaxRetries + 1) + (MaxRetries + 1) = ((n + 1) - 1) * (MaxRetries + 1)
        BY <1>0, LimiterAssumption
    <2>4. attempts[t] \in Nat /\ ((n + 1) - 1) * (MaxRetries + 1) \in Int
        BY <1>0, LimiterAssumption
    <2>. QED BY <1>2, <2>2, <2>3, <2>4 DEF Paid
<1>6. Agree(s, st, attempts, n + 1, "limiter", "idle", 0, out[s])
    BY <1>0, <1>2, <1>5 DEF Agree
<1>7. Agree(s, st, attempts, try'[s], call'[s], "idle", confirmed'[s], out'[s])
    BY <1>4, <1>6
<1>8. \A j \in 1..Tries : status[<<s, j>>] # "running"
    BY <1>0, <1>2
<1>9. /\ "queued" \in Status \ {"running"}
      /\ status[<<s, n + 1>>] # "running"
    BY <1>0, <1>8 DEF Status
<1>10. PICK k \in 1..Tries : k = n + 1
    BY <1>0
<1>11. /\ Starts([status EXCEPT ![<<s, k>>] = "queued"]) /\ StageAfter
       /\ status[<<s, k>>] # "running"
       /\ Agree(s, [status EXCEPT ![<<s, k>>] = "queued"], attempts, try'[s], call'[s], "idle",
                confirmed'[s], out'[s])
    BY <1>3, <1>7, <1>9, <1>10
<1>12. /\ TypeOK /\ Shaped' /\ "queued" \in Status \ {"running"}
       /\ \A j \in 1..Tries : j # k => status[<<s, j>>] # "running"
       /\ \A u \in Sends : u # s => /\ try'[u] = try[u] /\ call'[u] = call[u]
                                    /\ confirmed'[u] = confirmed[u] /\ out'[u] = out[u]
    BY <1>0, <1>4, <1>8, <1>9
<1>. HIDE DEF n, t, st
<1>. QED BY <1>11, <1>12, EditKeeps
(* The task of a send that is in the limiter, and its other tasks. *)
LEMMA InTheLimiter ==
    ASSUME SInv, TypeOK, NEW s \in Sends, stage[s] # "idle" \/ call[s] = "limiter"
    PROVE  /\ try[s] \in 1..Tries /\ Task(s) = <<s, try[s]>> /\ Task(s) \in Tasks
           /\ call[s] = "limiter"
           /\ stage[s] # "idle" <=> status[Task(s)] = "running"
           /\ confirmed[s] = (IF stage[s] = "after" THEN 1 ELSE 0)
           /\ out[s] \in Nat /\ Paid(s, attempts, try[s], stage[s], confirmed[s], out[s])
           /\ \A j \in 1..Tries : /\ status[<<s, j>>] = "new" <=> j > try[s]
                                  /\ j < try[s] => status[<<s, j>>] = "rejected"
                                  /\ j # try[s] => status[<<s, j>>] # "running"
<1>1. Agree(s, status, attempts, try[s], call[s], stage[s], confirmed[s], out[s])
    BY DEF SInv
<1>2. try[s] \in 1..Tries /\ Task(s) = <<s, try[s]>> /\ Task(s) \in Tasks
    BY AtATry DEF Task
<1>3. call[s] = "limiter" /\ (stage[s] # "idle" <=> status[Task(s)] = "running")
    BY <1>1, <1>2 DEF Agree
<1>4. /\ confirmed[s] = (IF stage[s] = "after" THEN 1 ELSE 0)
      /\ out[s] \in Nat /\ Paid(s, attempts, try[s], stage[s], confirmed[s], out[s])
    BY <1>1, <1>2, <1>3 DEF Agree
<1>5. ASSUME NEW j \in 1..Tries
      PROVE  /\ status[<<s, j>>] = "new" <=> j > try[s]
             /\ j < try[s] => status[<<s, j>>] = "rejected"
             /\ j # try[s] => status[<<s, j>>] # "running"
    <2>1. /\ status[<<s, j>>] = "new" <=> j > try[s]
          /\ j < try[s] => status[<<s, j>>] = "rejected"
        BY <1>1 DEF Agree
    <2>. QED BY <1>2, <2>1, SendsAssumption
<1>. QED BY <1>2, <1>3, <1>4, <1>5

(* The step of the limiter that ends a stage or a pause of send s. *)
LEMMA LeaveKeeps ==
    ASSUME SInv, IInv, NEW s \in Sends, stage[s] # "idle" \/ call[s] = "limiter",
           NEW v \in {"queued", "backoff", "resolved", "rejected"},
           v = "queued" => stage[s] = "idle",
           Starts([status EXCEPT ![Task(s)] = v]), StageAfter,
           NEW c \in {"limiter", "pause", "sent", "failed"}, call' = [call EXCEPT ![s] = c],
           c = "limiter" <=> v \in {"queued", "backoff"}, c = "sent" <=> v = "resolved",
           c = "pause" => try[s] < Tries,
           NEW o \in Nat, out' = [out EXCEPT ![s] = o],
           o <= out[s] + (IF stage[s] = "sending" THEN 1 ELSE 0),
           stage[s] = "after" <=> c = "sent",
           UNCHANGED <<try, runtime, confirmed, storing, current, used>>
    PROVE  SInv'
<1>. DEFINE n  == try[s]
            st == [status EXCEPT ![<<s, n>>] = v]
<1>0. /\ TypeOK /\ status \in [Tasks -> Status] /\ attempts \in [Tasks -> Nat]
    BY DEF IInv, TypeOK
<1>1. /\ n \in 1..Tries /\ Task(s) = <<s, n>> /\ <<s, n>> \in Tasks
      /\ stage[s] # "idle" <=> status[<<s, n>>] = "running"
      /\ confirmed[s] = (IF stage[s] = "after" THEN 1 ELSE 0)
      /\ out[s] \in Nat /\ Paid(s, attempts, n, stage[s], confirmed[s], out[s])
      /\ \A j \in 1..Tries : /\ status[<<s, j>>] = "new" <=> j > n
                             /\ j < n => status[<<s, j>>] = "rejected"
                             /\ j # n => status[<<s, j>>] # "running"
    BY <1>0, InTheLimiter
<1>2. /\ Shaped' /\ try'[s] = n /\ call'[s] = c /\ confirmed'[s] = confirmed[s] /\ out'[s] = o
      /\ \A u \in Sends : u # s => /\ try'[u] = try[u] /\ call'[u] = call[u]
                                   /\ confirmed'[u] = confirmed[u] /\ out'[u] = out[u]
    BY DEF SInv, Shaped
<1>3. confirmed[s] = (IF c = "sent" THEN 1 ELSE 0)
    BY <1>1
<1>4. Paid(s, attempts, n, "idle", confirmed[s], o)
    <2>1. attempts[<<s, n>>] \in Nat /\ (n - 1) * (MaxRetries + 1) \in Int
        BY <1>0, <1>1, SendsAssumption, LimiterAssumption
    <2>2. confirmed[s] + out[s] + (IF stage[s] \in {"typing", "sending"} THEN 1 ELSE 0)
            <= (n - 1) * (MaxRetries + 1) + attempts[<<s, n>>]
        BY <1>1 DEF Paid
    <2>3. confirmed[s] + o <= (n - 1) * (MaxRetries + 1) + attempts[<<s, n>>]
        <3>. DEFINE p == (n - 1) * (MaxRetries + 1)
        <3>1. p \in Int
            BY <2>1
        <3>2. confirmed[s] \in Nat
            BY <1>3
        <3>3. confirmed[s] + out[s] + (IF stage[s] \in {"typing", "sending"} THEN 1 ELSE 0)
                <= p + attempts[<<s, n>>]
            BY <2>2
        <3>. HIDE DEF p
        <3>4. confirmed[s] + o <= p + attempts[<<s, n>>]
            BY <1>1, <2>1, <3>1, <3>2, <3>3
        <3>. QED BY <3>4 DEF p
    <2>. QED BY <1>3, <2>3 DEF Paid
<1>5. Agree(s, st, attempts, n, c, "idle", confirmed[s], o)
    <2>1. /\ st[<<s, n>>] = v
          /\ \A j \in 1..Tries : j # n => st[<<s, j>>] = status[<<s, j>>]
        BY <1>0, <1>1, SendsAssumption
    <2>2. ASSUME NEW j \in 1..Tries
          PROVE  /\ st[<<s, j>>] = "new" <=> j > n
                 /\ j < n => st[<<s, j>>] = "rejected"
        BY <1>1, <2>1, SendsAssumption
    <2>3. confirmed[s] \in Nat
        BY <1>3
    <2>. HIDE DEF st
    <2>. QED BY <1>1, <1>3, <1>4, <2>1, <2>2, <2>3, SendsAssumption DEF Agree
<1>6. Agree(s, st, attempts, try'[s], call'[s], "idle", confirmed'[s], out'[s])
    BY <1>2, <1>5
<1>7. PICK k \in 1..Tries : k = n
    BY <1>1
<1>8. /\ Starts([status EXCEPT ![<<s, k>>] = v]) /\ StageAfter
      /\ v \in Status \ {"running"}
      /\ v = "queued" => status[<<s, k>>] # "running"
      /\ \A j \in 1..Tries : j # k => status[<<s, j>>] # "running"
      /\ Agree(s, [status EXCEPT ![<<s, k>>] = v], attempts, try'[s], call'[s], "idle",
               confirmed'[s], out'[s])
    BY <1>1, <1>6, <1>7 DEF Status
<1>. HIDE DEF n, st
<1>. QED BY <1>0, <1>2, <1>8, EditKeeps

LEMMA MissesKeeps ==
    ASSUME SInv, IInv, NEW s \in Sends, Misses(s) PROVE SInv'
<1>0. /\ TypeOK /\ status \in [Tasks -> Status] /\ stage[s] \in {"sending", "closed"} /\ StageAfter
    BY DEF IInv, TypeOK, Misses
<1>1. /\ try[s] \in 1..Tries /\ Task(s) \in Tasks /\ call[s] = "limiter"
      /\ status[Task(s)] = "running"
    BY <1>0, InTheLimiter
<1>2. call \in [Sends -> {"none", "limiter", "pause", "sent", "failed"}] /\ out \in [Sends -> Nat]
    BY DEF SInv, Shaped
<1>3. PICK o \in Nat : /\ out' = [out EXCEPT ![s] = o]
                        /\ o <= out[s] + (IF stage[s] = "sending" THEN 1 ELSE 0)
    <2>1. out[s] \in Nat /\ out[s] + 1 \in Nat /\ out[s] <= out[s] + (IF stage[s] = "sending" THEN 1 ELSE 0)
        BY <1>2
    <2>2. \/ stage[s] = "sending" /\ out' = [out EXCEPT ![s] = out[s] + 1]
          \/ out' = out
        BY DEF Misses
    <2>3. out' = out => out' = [out EXCEPT ![s] = out[s]]
        BY <1>2
    <2>. QED BY <2>1, <2>2, <2>3
<1>4. CASE Pause(Task(s))
    <2>1. Starts([status EXCEPT ![Task(s)] = "backoff"])
        BY <1>4 DEF Pause, Starts
    <2>2. call' = [call EXCEPT ![s] = "limiter"]
        <3>1. status'[Task(s)] = "backoff"
            BY <1>0, <1>1, <1>4 DEF Pause
        <3>2. call' = call
            BY <3>1 DEF Misses
        <3>. QED BY <1>1, <1>2, <3>2
    <2>3. UNCHANGED <<try, runtime, confirmed, storing, current, used>>
        BY DEF Misses
    <2>. QED BY <1>0, <1>1, <1>3, <2>1, <2>2, <2>3, LeaveKeeps
<1>5. CASE Reject(Task(s))
    <2>1. Starts([status EXCEPT ![Task(s)] = "rejected"])
        <3>1. Core(queue, running - 1, [status EXCEPT ![Task(s)] = "rejected"])
            BY <1>1, <1>5, SettlePrepares DEF Reject
        <3>2. ProcessQueue(queue, running - 1, pumps, [status EXCEPT ![Task(s)] = "rejected"])
            BY <1>5 DEF Reject
        <3>. QED BY <3>1, <3>2, ProcessQueueStarts
    <2>2. status'[Task(s)] = "rejected"
        BY <1>0, <1>1, <2>1 DEF Starts
    <2>3. PICK c \in {"pause", "failed"} : /\ call' = [call EXCEPT ![s] = c]
                                           /\ c = "pause" => try[s] < Tries
        BY <2>2 DEF Misses, Fails
    <2>4. UNCHANGED <<try, runtime, confirmed, storing, current, used>>
        BY DEF Misses
    <2>. QED BY <1>0, <1>1, <1>3, <2>1, <2>3, <2>4, LeaveKeeps
<1>. QED BY <1>4, <1>5 DEF Misses

LEMMA RestedKeeps ==
    ASSUME SInv, IInv, NEW s \in Sends, Rested(s) PROVE SInv'
<1>0. /\ TypeOK /\ status \in [Tasks -> Status] /\ stage[s] = "after" /\ StageAfter
    BY DEF IInv, TypeOK, Rested
<1>1. /\ try[s] \in 1..Tries /\ Task(s) \in Tasks /\ status[Task(s)] = "running"
    BY <1>0, InTheLimiter
<1>2. Starts([status EXCEPT ![Task(s)] = "resolved"])
    <2>1. Core(queue, running - 1, [status EXCEPT ![Task(s)] = "resolved"])
        BY <1>1, SettlePrepares
    <2>2. ProcessQueue(queue, running - 1, pumps, [status EXCEPT ![Task(s)] = "resolved"])
        BY DEF Rested, Resolve
    <2>. QED BY <2>1, <2>2, ProcessQueueStarts
<1>3. out[s] \in Nat /\ out' = [out EXCEPT ![s] = out[s]]
    BY DEF SInv, Shaped, Rested
<1>4. /\ call' = [call EXCEPT ![s] = "sent"]
      /\ UNCHANGED <<try, runtime, confirmed, storing, current, used>>
    BY DEF Rested
<1>5. out[s] <= out[s] + (IF stage[s] = "sending" THEN 1 ELSE 0)
    BY <1>3
<1>. QED BY <1>0, <1>1, <1>2, <1>3, <1>4, <1>5, LeaveKeeps

LEMMA UnpauseKeeps ==
    ASSUME SInv, IInv, NEW s \in Sends, Unpause(s) PROVE SInv'
<1>0. /\ TypeOK /\ status \in [Tasks -> Status] /\ call[s] = "limiter" /\ StageAfter
      /\ status[Task(s)] = "backoff"
    BY DEF IInv, TypeOK, Unpause, Requeue
<1>1. /\ try[s] \in 1..Tries /\ Task(s) \in Tasks /\ stage[s] = "idle"
    BY <1>0, InTheLimiter
<1>2. Starts([status EXCEPT ![Task(s)] = "queued"])
    <2>1. Requeue(Task(s))
        BY DEF Unpause
    <2>2. Core(<<Task(s)>> \o queue, running - 1, [status EXCEPT ![Task(s)] = "queued"])
        BY <1>1, <2>1, RequeuePrepares
    <2>3. ProcessQueue(<<Task(s)>> \o queue, running - 1, pumps, [status EXCEPT ![Task(s)] = "queued"])
        BY <2>1 DEF Requeue
    <2>. QED BY <2>2, <2>3, ProcessQueueStarts
<1>3. out[s] \in Nat /\ out' = [out EXCEPT ![s] = out[s]] /\ call' = [call EXCEPT ![s] = "limiter"]
    BY <1>0 DEF SInv, Shaped, Unpause
<1>4. UNCHANGED <<try, runtime, confirmed, storing, current, used>>
    BY DEF Unpause
<1>5. out[s] <= out[s] + (IF stage[s] = "sending" THEN 1 ELSE 0)
    BY <1>3
<1>. QED BY <1>0, <1>1, <1>2, <1>3, <1>4, <1>5, LeaveKeeps

LEMMA PumpKeeps ==
    ASSUME SInv, IInv, Pump PROVE SInv'
<1>0. /\ status \in [Tasks -> Status] /\ attempts \in [Tasks -> Nat] /\ StageAfter
      /\ UNCHANGED <<call, try, runtime, confirmed, out, storing, current, used>>
    BY DEF IInv, TypeOK, Pump
<1>1. Starts(status)
    <2>1. Core(queue, running, status) /\ ProcessQueue(queue, running, pumps - 1, status)
        BY DEF IInv, Pump, Wake
    <2>. QED BY <2>1, ProcessQueueStarts
<1>2. ASSUME NEW u \in Sends
      PROVE  Agree(u, status, attempts, try[u], call[u],
                   IF Running(u, status) THEN stage[u] ELSE "idle", confirmed[u], out[u])
    <2>1. Agree(u, status, attempts, try[u], call[u], stage[u], confirmed[u], out[u])
        BY DEF SInv
    <2>2. stage[u] # "idle" => Running(u, status)
        BY <2>1 DEF Agree, Running
    <2>3. stage[u] = IF Running(u, status) THEN stage[u] ELSE "idle"
        BY <2>2
    <2>. QED BY <2>1, <2>3
<1>3. \A u \in Sends : Agree(u, status', attempts', try[u], call[u], stage'[u], confirmed[u], out[u])
    <2>1. \A x \in Tasks : /\ status[x] = "running" => status[x] = "running"
                           /\ status[x] = "queued" => status[x] # "running"
        OBVIOUS
    <2>. QED BY <1>0, <1>1, <1>2, <2>1, StartAgrees
<1>4. stage' \in [Sends -> Stages]
    BY <1>0, <1>3 DEF StageAfter, Agree
<1>. QED BY <1>0, <1>3, <1>4 DEF SInv, Shaped

(* An action of one send that leaves the limiter alone. *)
LEMMA LocalKeeps ==
    ASSUME SInv, UNCHANGED vars, Shaped', NEW s \in Sends,
           stage' \in [Sends -> Stages],
           \A u \in Sends : u # s => /\ try'[u] = try[u] /\ call'[u] = call[u] /\ stage'[u] = stage[u]
                                     /\ confirmed'[u] = confirmed[u] /\ out'[u] = out[u],
           Agree(s, status, attempts, try'[s], call'[s], stage'[s], confirmed'[s], out'[s])
    PROVE  SInv'
<1>1. status' = status /\ attempts' = attempts
    BY DEF vars
<1>2. \A u \in Sends : Agree(u, status, attempts, try'[u], call'[u], stage'[u], confirmed'[u], out'[u])
    <2>1. ASSUME NEW u \in Sends, u # s
          PROVE  Agree(u, status, attempts, try'[u], call'[u], stage'[u], confirmed'[u], out'[u])
        <3>1. Agree(u, status, attempts, try[u], call[u], stage[u], confirmed[u], out[u])
            BY DEF SInv
        <3>2. /\ try'[u] = try[u] /\ call'[u] = call[u] /\ stage'[u] = stage[u]
              /\ confirmed'[u] = confirmed[u] /\ out'[u] = out[u]
            BY <2>1
        <3>. QED BY <3>1, <3>2
    <2>. QED BY <2>1
<1>. QED BY <1>1, <1>2 DEF SInv

LEMMA SendNowhereKeeps ==
    ASSUME SInv, NEW s \in Sends, SendNowhere(s) PROVE SInv'
<1>1. Agree(s, status, attempts, try[s], "none", stage[s], confirmed[s], out[s])
    BY DEF SInv, SendNowhere
<1>2. Agree(s, status, attempts, try[s], "failed", stage[s], confirmed[s], out[s])
    BY <1>1 DEF Agree
<1>3. /\ UNCHANGED vars /\ call' = [call EXCEPT ![s] = "failed"]
      /\ UNCHANGED <<try, runtime, stage, confirmed, out, storing, current, used>>
    BY DEF SendNowhere, Fails
<1>4. /\ Shaped' /\ call'[s] = "failed" /\ \A u \in Sends : u # s => call'[u] = call[u]
      /\ stage' \in [Sends -> Stages]
    BY <1>3 DEF SInv, Shaped
<1>5. Agree(s, status, attempts, try'[s], call'[s], stage'[s], confirmed'[s], out'[s])
    BY <1>2, <1>3, <1>4
<1>. QED BY <1>3, <1>4, <1>5, LocalKeeps

LEMMA TypedKeeps ==
    ASSUME SInv, IInv, NEW s \in Sends, Typed(s) PROVE SInv'
<1>. DEFINE g == IF runtime[s] = current THEN "sending" ELSE "closed"
<1>1. Agree(s, status, attempts, try[s], call[s], "typing", confirmed[s], out[s])
    BY DEF SInv, Typed
<1>2. /\ Agree(s, status, attempts, try[s], call[s], "sending", confirmed[s], out[s])
      /\ Agree(s, status, attempts, try[s], call[s], "closed", confirmed[s], out[s])
    <2>1. /\ Paid(s, attempts, try[s], "typing", confirmed[s], out[s])
                => Paid(s, attempts, try[s], "sending", confirmed[s], out[s])
        BY DEF Paid
    <2>2. try[s] > 0 /\ confirmed[s] \in Nat /\ out[s] \in Nat
        BY <1>1 DEF Agree
    <2>3. Paid(s, attempts, try[s], "closed", confirmed[s], out[s])
        <3>1. Paid(s, attempts, try[s], "typing", confirmed[s], out[s])
            BY <1>1, <2>2 DEF Agree
        <3>2. (try[s] - 1) * (MaxRetries + 1) + attempts[<<s, try[s]>>] \in Int
            BY <1>1, <2>2, SendsAssumption, LimiterAssumption DEF Agree, IInv, TypeOK
        <3>. QED BY <2>2, <3>1, <3>2 DEF Paid
    <2>. QED BY <1>1, <2>1, <2>3 DEF Agree, Stages
<1>3. /\ UNCHANGED vars /\ stage' = [stage EXCEPT ![s] = g]
      /\ UNCHANGED <<call, try, runtime, confirmed, out, storing, current, used>>
    BY DEF Typed
<1>4. /\ Shaped' /\ stage'[s] = g /\ \A u \in Sends : u # s => stage'[u] = stage[u]
      /\ stage' \in [Sends -> Stages]
    BY <1>3 DEF SInv, Shaped, Stages
<1>5. Agree(s, status, attempts, try'[s], call'[s], stage'[s], confirmed'[s], out'[s])
    BY <1>2, <1>3, <1>4
<1>. QED BY <1>3, <1>4, <1>5, LocalKeeps

LEMMA ConfirmKeeps ==
    ASSUME SInv, IInv, NEW s \in Sends, Confirm(s) PROVE SInv'
<1>0. stage[s] = "sending" /\ TypeOK /\ confirmed[s] \in Nat
    BY DEF SInv, Shaped, IInv, Confirm
<1>1. /\ Agree(s, status, attempts, try[s], call[s], stage[s], confirmed[s], out[s])
      /\ confirmed[s] = 0 /\ try[s] \in 1..Tries /\ call[s] = "limiter" /\ out[s] \in Nat
      /\ Paid(s, attempts, try[s], stage[s], confirmed[s], out[s])
    BY <1>0, InTheLimiter DEF SInv
<1>2. Paid(s, attempts, try[s], "after", 1, out[s])
    <2>1. confirmed[s] + out[s] + 1 = 1 + out[s] + 0
        BY <1>1
    <2>. QED BY <1>0, <1>1, <2>1 DEF Paid
<1>3. Agree(s, status, attempts, try[s], call[s], "after", 1, out[s])
    BY <1>0, <1>1, <1>2 DEF Agree, Stages
<1>4. /\ UNCHANGED vars /\ stage' = [stage EXCEPT ![s] = "after"]
      /\ confirmed' = [confirmed EXCEPT ![s] = @ + 1]
      /\ UNCHANGED <<call, try, runtime, out, current, used>>
      /\ storing' = storing \cup {s}
    BY DEF Confirm
<1>5. /\ Shaped' /\ stage'[s] = "after" /\ confirmed'[s] = 1
      /\ \A u \in Sends : u # s => stage'[u] = stage[u] /\ confirmed'[u] = confirmed[u]
      /\ stage' \in [Sends -> Stages]
    BY <1>0, <1>1, <1>4 DEF SInv, Shaped, Stages
<1>6. Agree(s, status, attempts, try'[s], call'[s], stage'[s], confirmed'[s], out'[s])
    BY <1>3, <1>4, <1>5
<1>. QED BY <1>4, <1>5, <1>6, LocalKeeps

(* The other steps change nothing the invariant speaks of but the runtimes  *)
(* and what is being stored.                                                *)
LEMMA OtherKeeps ==
    ASSUME SInv,
           (\E s \in Sends : Stores(s) \/ StoreFails(s)) \/ Pass \/ Unregister \/ Register \/ UNCHANGED allVars
    PROVE  SInv'
<1>1. /\ UNCHANGED <<status, attempts, call, try, runtime, stage, confirmed, out>>
      /\ current' \in Runtimes \cup {NoRuntime} /\ used' \subseteq Runtimes
      /\ storing' \subseteq {s \in Sends : confirmed[s] = 1}
    BY DEF SInv, Shaped, Stores, StoreFails, Pass, Tick, Unregister, Register, allVars, sendVars, vars
<1>. QED BY <1>1 DEF SInv, Shaped
-----------------------------------------------------------------------------
LEMMA InitSInv == SendsInit => SInv
<1>. SUFFICES ASSUME SendsInit PROVE SInv
    OBVIOUS
<1>1. \A s \in Sends, k \in 1..Tries : <<s, k>> \in Tasks
    BY SendsAssumption
<1>2. \A s \in Sends : Agree(s, status, attempts, try[s], call[s], stage[s], confirmed[s], out[s])
    BY <1>1, SendsAssumption DEF SendsInit, Init, Agree
<1>3. Shaped /\ stage \in [Sends -> Stages]
    BY SendsAssumption DEF SendsInit, Shaped
<1>. QED BY <1>2, <1>3 DEF SInv

LEMMA StepSInv == SInv /\ IInv /\ [SendsNext]_allVars => SInv'
<1>. SUFFICES ASSUME SInv, IInv, [SendsNext]_allVars PROVE SInv'
    OBVIOUS
<1>1. ASSUME NEW s \in Sends,
             \/ SendNowhere(s) \/ Send(s) \/ Typed(s) \/ Confirm(s)
             \/ Misses(s) \/ Rested(s) \/ TryAgain(s) \/ Unpause(s)
      PROVE  SInv'
    BY <1>1, SendNowhereKeeps, SendKeeps, TypedKeeps, ConfirmKeeps, MissesKeeps, RestedKeeps,
       TryAgainKeeps, UnpauseKeeps
<1>2. CASE Pump
    BY <1>2, PumpKeeps
<1>. QED BY <1>1, <1>2, OtherKeeps DEF SendsNext

(* The invariant of the limiter and that of the sends hold together. *)
THEOREM SendsInvariant == SendsSpec => [](IInv /\ SInv)
<1>1. SendsInit => IInv /\ SInv
    BY InitIInv, InitSInv DEF SendsInit
<1>2. IInv /\ SInv /\ [SendsNext]_allVars => (IInv /\ SInv)'
    BY StepUsesLimiter, StepIInv, StepSInv
<1>. QED BY <1>1, <1>2, PTL DEF SendsSpec

(* The orchestrator uses the limiter of the instance as any caller may:    *)
(* whatever the runtimes do, the limiter behaves as BaileysRateLimiter says. *)
THEOREM SendsUseLimiter == SendsSpec => Spec
<1>1. SendsInit => Init
    BY DEF SendsInit
<1>2. SInv /\ [SendsNext]_allVars => [Next]_vars
    BY StepUsesLimiter
<1>. QED BY <1>1, <1>2, SendsInvariant, PTL DEF SendsSpec, Spec

(* So its slots, queue, suspended calls, attempts and order agree under it, *)
(* and its starts are spaced.                                               *)
THEOREM LimiterSoundUnderSends == SendsSpec => []LimiterSound /\ Spaced
BY SendsUseLimiter, LimiterIsSound, StartsAreSpaced, PTL

(* A send is in the limiter exactly while the task of its try has not settled. *)
THEOREM SendsAreSound == SendsSpec => []SendsSound
<1>1. SInv => SendsSound
    <2>. SUFFICES ASSUME SInv PROVE SendsSound
        OBVIOUS
    <2>1. ASSUME NEW s \in Sends, NEW k \in 1..Tries
          PROVE  /\ status[<<s, k>>] = "new" <=> k > try[s]
                 /\ k < try[s] => status[<<s, k>>] = "rejected"
                 /\ k = try[s] => (call[s] = "limiter" <=>
                                      status[<<s, k>>] \in {"queued", "running", "backoff"})
        <3>1. Agree(s, status, attempts, try[s], call[s], stage[s], confirmed[s], out[s])
            BY DEF SInv
        <3>. QED BY <3>1, SendsAssumption DEF Agree
    <2>. QED BY <2>1 DEF SInv, Shaped, SendsSound
<1>. QED BY <1>1, SendsInvariant, PTL

LEMMA AttemptsPaid ==
    ASSUME NEW n \in 1..Tries, NEW a \in 0..(MaxRetries + 1)
    PROVE  (n - 1) * (MaxRetries + 1) + a <= Tries * (MaxRetries + 1)
<1>1. Tries \in Nat /\ MaxRetries + 1 \in Nat
    BY SendsAssumption, LimiterAssumption
<1>2. PICK d \in Nat : Tries = n + d
    <2>1. Tries - n \in Nat /\ Tries = n + (Tries - n)
        BY <1>1
    <2>. QED BY <2>1
<1>. DEFINE m == MaxRetries + 1
<1>3. (n + d) * m = (n - 1) * m + m + d * m
    BY <1>1, <1>2
<1>4. d * m \in Nat /\ (n - 1) * m \in Int
    BY <1>1, <1>2
<1>5. a <= m /\ a \in Nat /\ m \in Nat
    BY <1>1
<1>. HIDE DEF m
<1>6. (n - 1) * m + a <= Tries * m
    BY <1>2, <1>3, <1>4, <1>5
<1>. QED BY <1>6 DEF m

(* A message is confirmed once at most, its copies are no more than the    *)
(* calls of its tasks, a send that returns was confirmed and one that fails *)
(* was not.                                                                 *)
THEOREM CopiesAreExplained == SendsSpec => []CopiesExplained
<1>1. IInv /\ SInv => CopiesExplained
    <2>. SUFFICES ASSUME IInv, SInv, NEW s \in Sends
                  PROVE  /\ confirmed[s] <= 1
                         /\ confirmed[s] + out[s] <= Tries * (MaxRetries + 1)
                         /\ call[s] = "sent" => confirmed[s] = 1
                         /\ call[s] = "failed" => confirmed[s] = 0
        BY DEF CopiesExplained
    <2>. DEFINE n == try[s]
                m == Tries * (MaxRetries + 1)
    <2>1. Agree(s, status, attempts, n, call[s], stage[s], confirmed[s], out[s])
        BY DEF SInv
    <2>2. m \in Nat
        BY SendsAssumption, LimiterAssumption
    <2>3. CASE n = 0
        <3>1. call[s] \in {"none", "failed"} /\ confirmed[s] = 0 /\ out[s] = 0
            BY <2>1, <2>3 DEF Agree
        <3>. QED BY <2>2, <3>1
    <2>4. CASE n > 0
        <3>1. /\ n \in 1..Tries /\ <<s, n>> \in Tasks
              /\ confirmed[s] \in Nat /\ out[s] \in Nat
              /\ confirmed[s] = (IF stage[s] = "after" \/ call[s] = "sent" THEN 1 ELSE 0)
              /\ call[s] = "limiter" <=> status[<<s, n>>] \in {"queued", "running", "backoff"}
              /\ stage[s] # "idle" <=> status[<<s, n>>] = "running"
              /\ Paid(s, attempts, n, stage[s], confirmed[s], out[s])
            BY <2>1, <2>4, SendsAssumption DEF Agree
        <3>2. attempts[<<s, n>>] \in 0..(MaxRetries + 1)
            BY <3>1, LimiterAssumption DEF IInv, TypeOK, Tried
        <3>3. (n - 1) * (MaxRetries + 1) + attempts[<<s, n>>] <= m
            BY <3>1, <3>2, AttemptsPaid
        <3>4. (n - 1) * (MaxRetries + 1) + attempts[<<s, n>>] \in Int
            BY <3>1, <3>2, SendsAssumption, LimiterAssumption
        <3>5. confirmed[s] + out[s] <= m
            <4>. DEFINE p == (n - 1) * (MaxRetries + 1) + attempts[<<s, n>>]
            <4>1. confirmed[s] + out[s] + (IF stage[s] \in {"typing", "sending"} THEN 1 ELSE 0) <= p
                BY <3>1 DEF Paid
            <4>2. p \in Int /\ p <= m
                BY <3>3, <3>4
            <4>. HIDE DEF p, m
            <4>. QED BY <2>2, <3>1, <4>1, <4>2
        <3>6. call[s] = "failed" => stage[s] = "idle"
            BY <3>1
        <3>. QED BY <3>1, <3>5, <3>6
    <2>5. n \in Nat
        BY <2>1, SendsAssumption DEF Agree
    <2>. QED BY <2>3, <2>4, <2>5
<1>. QED BY <1>1, SendsInvariant, PTL

(* With one slot a later send returns first only if a whole task of the     *)
(* earlier one was given up.                                                *)
THEOREM OvertakingExplained == SendsSpec => []OvertakenOnlyByRetry
<1>1. SInv /\ InOrder => OvertakenOnlyByRetry
    <2>. SUFFICES ASSUME SInv, InOrder, Concurrency = 1, NEW s \in Sends, NEW u \in Sends,
                         try[s] > 0, try[u] > 0,
                         ticket[<<s, 1>>] < ticket[<<u, 1>>], call[u] = "sent"
                  PROVE  call[s] = "sent" \/ status[<<s, 1>>] = "rejected"
        BY DEF OvertakenOnlyByRetry
    <2>1. /\ Agree(s, status, attempts, try[s], call[s], stage[s], confirmed[s], out[s])
          /\ Agree(u, status, attempts, try[u], call[u], stage[u], confirmed[u], out[u])
        BY DEF SInv
    <2>2. /\ 1 \in 1..Tries /\ <<s, 1>> \in Tasks /\ <<u, 1>> \in Tasks
          /\ try[s] \in 1..Tries /\ try[u] \in 1..Tries
        BY <2>1, SendsAssumption DEF Agree
    <2>3. status[<<s, 1>>] # "new" /\ status[<<u, 1>>] # "new"
        BY <2>1, <2>2 DEF Agree
    <2>4. status[<<u, 1>>] \in {"resolved", "rejected"}
        <3>1. try[u] = 1 \/ 1 < try[u]
            BY <2>2
        <3>. QED BY <2>1, <2>2, <3>1 DEF Agree
    <2>5. status[<<s, 1>>] \in {"resolved", "rejected"}
        BY <2>2, <2>3, <2>4 DEF InOrder, Submitted, Settled
    <2>6. status[<<s, 1>>] = "resolved" => try[s] = 1
        BY <2>1, <2>2 DEF Agree
    <2>7. status[<<s, 1>>] = "resolved" => call[s] = "sent"
        BY <2>1, <2>2, <2>6 DEF Agree
    <2>. QED BY <2>5, <2>7
<1>2. SendsSpec => []InOrder
    BY SendsUseLimiter, SettlesInOrder, PTL
<1>. QED BY <1>1, <1>2, SendsInvariant, PTL

(* The process dies of a confirmed message whose storing failed, whenever   *)
(* that is, or of a text nobody awaits, after every try of every task or    *)
(* without a runtime.                                                       *)
THEOREM DeathsAreExplained == SendsSpec => DeathsExplained
<1>. DEFINE Why == \E s \in Sends :
                    \/ s \in storing /\ confirmed[s] = 1
                    \/ s \in Texts /\ call[s] = "none" /\ current = NoRuntime
                    \/ s \in Texts /\ \A k \in 1..Tries : attempts[<<s, k>>] = MaxRetries + 1
<1>1. IInv /\ SInv /\ [SendsNext]_allVars => [(alive /\ ~alive') => Why]_allVars
    <2>. SUFFICES ASSUME IInv, SInv, [SendsNext]_allVars, alive, ~alive' PROVE Why
        OBVIOUS
    <2>1. ASSUME NEW s \in Sends, SendNowhere(s) PROVE Why
        BY <2>1 DEF SendNowhere, Fails
    <2>2. ASSUME NEW s \in Sends, StoreFails(s) PROVE Why
        BY <2>2 DEF StoreFails, SInv, Shaped
    <2>3. ASSUME NEW s \in Sends, Misses(s) PROVE Why
        <3>1. /\ stage[s] \in {"sending", "closed"} /\ TypeOK /\ ~(try[s] < Tries) /\ s \in Texts
              /\ Pause(Task(s)) \/ Reject(Task(s))
              /\ status'[Task(s)] = "rejected"
            BY <2>3 DEF Misses, Fails, IInv
        <3>2. /\ try[s] \in 1..Tries /\ Task(s) = <<s, try[s]>> /\ Task(s) \in Tasks
              /\ \A j \in 1..Tries : j < try[s] => status[<<s, j>>] = "rejected"
            BY <3>1, InTheLimiter
        <3>3. status[Task(s)] = "running" /\ retries[Task(s)] >= MaxRetries
            BY <2>3, <3>1, <3>2 DEF Misses, Fails, Pause, Reject, TypeOK
        <3>4. attempts[Task(s)] = MaxRetries + 1
            BY <3>2, <3>3, LimiterAssumption DEF IInv, Tried, TypeOK
        <3>5. try[s] = Tries
            BY <3>1, <3>2, SendsAssumption
        <3>6. ASSUME NEW k \in 1..Tries PROVE attempts[<<s, k>>] = MaxRetries + 1
            <4>1. CASE k = Tries
                BY <3>2, <3>4, <3>5, <4>1
            <4>2. CASE k < Tries
                BY <3>2, <3>5, <4>2, RejectedIsPaid
            <4>. QED BY <4>1, <4>2, SendsAssumption
        <3>. QED BY <3>1, <3>6
    <2>4. ASSUME NEW s \in Sends,
                 Send(s) \/ Typed(s) \/ Confirm(s) \/ Stores(s) \/ Rested(s) \/ TryAgain(s) \/ Unpause(s)
          PROVE  FALSE
        BY <2>4 DEF Send, Typed, Confirm, Stores, Rested, TryAgain, Unpause
    <2>5. Pump \/ Pass \/ Unregister \/ Register \/ UNCHANGED allVars => FALSE
        BY DEF Pump, Pass, Unregister, Register, allVars, sendVars
    <2>. HIDE DEF Why
    <2>. QED BY <2>1, <2>2, <2>3, <2>4, <2>5 DEF SendsNext
<1>. QED BY <1>1, SendsInvariant, PTL DEF SendsSpec, DeathsExplained
=============================================================================
