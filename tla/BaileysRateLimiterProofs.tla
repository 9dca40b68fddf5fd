---------------------- MODULE BaileysRateLimiterProofs ----------------------
(***************************************************************************)
(* Proofs about BaileysRateLimiter for every value of its constants.       *)
(*                                                                         *)
(* Every action but Pause and Tick first edits the queue, the counter and  *)
(* one status, and then runs processQueue() on the edited values.  The     *)
(* invariant is therefore stated of any such values (Core, Tried, Lined),  *)
(* each action is shown to establish it of the values it hands to          *)
(* processQueue(), and one lemma shows that processQueue() keeps it.       *)
(***************************************************************************)
EXTENDS BaileysRateLimiter, FiniteSetTheorems, SequenceTheorems, TLAPS

ActiveIn(st)  == {t \in Tasks : st[t] \in {"running", "backoff"}}
InQueue(q, t) == \E i \in 1..Len(q) : q[i] = t

Core(q, r, st) ==
    /\ q \in Seq(Tasks)
    /\ r \in Int
    /\ st \in [Tasks -> Status]
    /\ r = Cardinality(ActiveIn(st))
    /\ r <= Concurrency
    /\ \A t \in Tasks : st[t] = "queued" <=> InQueue(q, t)
    /\ \A i, j \in 1..Len(q) : q[i] = q[j] => i = j

Pumped(q, r, p) == p \in Int /\ (p >= Len(q) \/ p + r >= Concurrency)

Tried(st, rt, at) ==
    /\ at \in [Tasks -> Nat]
    /\ rt \in [Tasks -> Nat]
    /\ \A t \in Tasks :
        /\ rt[t] <= MaxRetries
        /\ at[t] = rt[t] + (IF st[t] \in {"running", "resolved", "rejected"}
                                  THEN 1 ELSE 0)
        /\ st[t] = "rejected" => at[t] = MaxRetries + 1

(* The inductive invariant behind the first four safety properties. *)
IInv ==
    /\ TypeOK
    /\ Core(queue, running, status)
    /\ Pumped(queue, running, pumps)
    /\ Tried(status, retries, attempts)

(* A task that takes or leaves a slot moves the number of active tasks by one. *)
LEMMA ActiveGrows ==
    ASSUME NEW st \in [Tasks -> Status], NEW t \in Tasks, NEW s \in {"running", "backoff"},
           st[t] \notin {"running", "backoff"}
    PROVE  Cardinality(ActiveIn([st EXCEPT ![t] = s])) = Cardinality(ActiveIn(st)) + 1
<1>1. IsFiniteSet(ActiveIn(st))
    BY LimiterAssumption, FS_Subset DEF ActiveIn
<1>2. ActiveIn([st EXCEPT ![t] = s]) = ActiveIn(st) \cup {t} /\ t \notin ActiveIn(st)
    BY DEF ActiveIn
<1>. QED BY <1>1, <1>2, FS_AddElement

LEMMA ActiveShrinks ==
    ASSUME NEW st \in [Tasks -> Status], NEW t \in Tasks,
           NEW s \in Status \ {"running", "backoff"},
           st[t] \in {"running", "backoff"}
    PROVE  Cardinality(ActiveIn([st EXCEPT ![t] = s])) = Cardinality(ActiveIn(st)) - 1
<1>1. IsFiniteSet(ActiveIn(st))
    BY LimiterAssumption, FS_Subset DEF ActiveIn
<1>2. ActiveIn([st EXCEPT ![t] = s]) = ActiveIn(st) \ {t} /\ t \in ActiveIn(st)
    BY DEF ActiveIn
<1>. QED BY <1>1, <1>2, FS_RemoveElement

LEMMA ActiveSame ==
    ASSUME NEW st \in [Tasks -> Status], NEW t \in Tasks, NEW s \in Status,
           st[t] \in {"running", "backoff"} <=> s \in {"running", "backoff"}
    PROVE  Cardinality(ActiveIn([st EXCEPT ![t] = s])) = Cardinality(ActiveIn(st))
<1>1. ActiveIn([st EXCEPT ![t] = s]) = ActiveIn(st)
    BY DEF ActiveIn
<1>. QED BY <1>1

(* processQueue() keeps the slots, the queue, the pumps and the tries in order; *)
(* the running call itself counts as a pump.                                   *)
LEMMA ProcessQueueKeepsCore ==
    ASSUME NEW q, NEW r, NEW p \in Nat, NEW st, NEW rt,
           sinceLast \in 0..MinDelay,
           Core(q, r, st), Pumped(q, r, p + 1), Tried(st, rt, attempts),
           ProcessQueue(q, r, p, st)
    PROVE  /\ Core(queue', running', status')
           /\ Pumped(queue', running', pumps')
           /\ Tried(status', rt, attempts')
           /\ pumps' \in Nat
           /\ sinceLast' \in 0..MinDelay
<1>. USE LimiterAssumption
<1>1. CASE Return(q, r, p, st)
    BY <1>1 DEF Return, Core, Pumped, Tried
<1>2. CASE Suspend(q, r, p, st)
    BY <1>2 DEF Suspend, Core, Pumped, Tried
<1>3. CASE Start(q, r, p, st)
    <2>. DEFINE h == Head(q)
    <2>1. /\ q \in Seq(Tasks) /\ q # <<>> /\ Len(q) \in Nat \ {0}
          /\ h \in Tasks /\ h = q[1]
          /\ Tail(q) \in Seq(Tasks) /\ Len(Tail(q)) = Len(q) - 1
          /\ \A i \in 1..Len(Tail(q)) : Tail(q)[i] = q[i + 1]
        BY <1>3 DEF Start, Core
    <2>2. st[h] = "queued"
        BY <2>1 DEF Core, InQueue
    <2>3. /\ status' = [st EXCEPT ![h] = "running"] /\ queue' = Tail(q)
          /\ running' = r + 1 /\ pumps' = p /\ r < Concurrency /\ sinceLast' = 0
          /\ attempts' = [attempts EXCEPT ![h] = @ + 1]
        BY <1>3 DEF Start
    <2>4. Core(queue', running', status')
        <3>1. status' \in [Tasks -> Status]
            BY <2>1, <2>3 DEF Core, Status
        <3>2. running' = Cardinality(ActiveIn(status'))
            BY <2>1, <2>2, <2>3, ActiveGrows DEF Core
        <3>3. \A t \in Tasks : status'[t] = "queued" <=> InQueue(queue', t)
            <4>. SUFFICES ASSUME NEW t \in Tasks
                          PROVE  status'[t] = "queued" <=> InQueue(queue', t)
                OBVIOUS
            <4>1. CASE t = h
                <5>1. status'[t] = "running"
                    BY <4>1, <2>1, <2>3 DEF Core
                <5>2. ~InQueue(queue', t)
                    BY <4>1, <2>1, <2>3 DEF Core, InQueue
                <5>. QED BY <5>1, <5>2
            <4>2. CASE t # h
                <5>1. status'[t] = st[t]
                    BY <4>2, <2>1, <2>3 DEF Core
                <5>2. InQueue(q, t) => InQueue(queue', t)
                    <6>. SUFFICES ASSUME NEW i \in 1..Len(q), q[i] = t
                                  PROVE  InQueue(queue', t)
                        BY DEF InQueue
                    <6>1. i # 1
                        BY <2>1, <4>2
                    <6>2. i - 1 \in 1..Len(Tail(q)) /\ Tail(q)[i - 1] = q[i]
                        BY <6>1, <2>1
                    <6>. QED BY <6>2, <2>3 DEF InQueue
                <5>3. InQueue(queue', t) => InQueue(q, t)
                    <6>. SUFFICES ASSUME NEW i \in 1..Len(queue'), queue'[i] = t
                                  PROVE  InQueue(q, t)
                        BY DEF InQueue
                    <6>1. i + 1 \in 1..Len(q) /\ q[i + 1] = t
                        BY <2>1, <2>3
                    <6>. QED BY <6>1 DEF InQueue
                <5>. QED BY <5>1, <5>2, <5>3 DEF Core
            <4>. QED BY <4>1, <4>2
        <3>4. \A i, j \in 1..Len(queue') : queue'[i] = queue'[j] => i = j
            <4>. SUFFICES ASSUME NEW i \in 1..Len(queue'), NEW j \in 1..Len(queue'),
                                 queue'[i] = queue'[j]
                          PROVE  i = j
                OBVIOUS
            <4>1. /\ i + 1 \in 1..Len(q) /\ j + 1 \in 1..Len(q) /\ q[i + 1] = q[j + 1]
                BY <2>1, <2>3
            <4>. QED BY <4>1 DEF Core
        <3>. QED BY <2>1, <2>3, <3>1, <3>2, <3>3, <3>4 DEF Core
    <2>5. Pumped(queue', running', pumps')
        BY <2>1, <2>3 DEF Pumped, Core
    <2>6. Tried(status', rt, attempts')
        BY <2>1, <2>2, <2>3 DEF Tried, Core
    <2>. QED BY <2>3, <2>4, <2>5, <2>6
<1>. QED BY <1>1, <1>2, <1>3 DEF ProcessQueue

(* What each action hands to processQueue() satisfies the invariant. *)
LEMMA RunPrepares ==
    ASSUME NEW t \in Tasks, IInv, Run(t)
    PROVE  /\ Core(Append(queue, t), running, [status EXCEPT ![t] = "queued"])
           /\ Pumped(Append(queue, t), running, pumps + 1)
           /\ Tried([status EXCEPT ![t] = "queued"], retries, attempts)
<1>. DEFINE q  == Append(queue, t)
            st == [status EXCEPT ![t] = "queued"]
<1>. USE LimiterAssumption
<1>1. /\ queue \in Seq(Tasks) /\ Len(queue) \in Nat
      /\ q \in Seq(Tasks) /\ Len(q) = Len(queue) + 1 /\ q[Len(q)] = t
      /\ \A i \in 1..Len(queue) : q[i] = queue[i]
    BY DEF IInv, TypeOK
<1>2. status[t] = "new" /\ status \in [Tasks -> Status] /\ st \in [Tasks -> Status]
    BY DEF IInv, TypeOK, Run, Status
<1>3. ~InQueue(queue, t)
    BY <1>2 DEF IInv, Core
<1>4. \A u \in Tasks : st[u] = "queued" <=> InQueue(q, u)
    <2>. SUFFICES ASSUME NEW u \in Tasks
                  PROVE  st[u] = "queued" <=> InQueue(q, u)
        OBVIOUS
    <2>1. CASE u = t
        BY <2>1, <1>1, <1>2 DEF InQueue
    <2>2. CASE u # t
        <3>1. InQueue(q, u) <=> InQueue(queue, u)
            BY <2>2, <1>1 DEF InQueue
        <3>. QED BY <2>2, <3>1, <1>2 DEF IInv, Core
    <2>. QED BY <2>1, <2>2
<1>5. \A i, j \in 1..Len(q) : q[i] = q[j] => i = j
    BY <1>1, <1>3 DEF IInv, Core, InQueue
<1>6. running = Cardinality(ActiveIn(st))
    BY <1>2, ActiveSame DEF IInv, Core, Status
<1>7. Tried(st, retries, attempts)
    BY <1>2 DEF IInv, Tried
<1>8. Core(q, running, st)
    <2>. HIDE DEF q, st
    <2>. QED BY <1>1, <1>2, <1>4, <1>5, <1>6 DEF IInv, Core
<1>9. Pumped(q, running, pumps + 1)
    <2>. HIDE DEF q
    <2>. QED BY <1>1 DEF IInv, Core, Pumped, TypeOK
<1>. QED BY <1>7, <1>8, <1>9

LEMMA SettlePrepares ==
    ASSUME NEW t \in Tasks, IInv, status[t] = "running",
           NEW s \in {"resolved", "rejected"},
           s = "rejected" => retries[t] >= MaxRetries
    PROVE  /\ Core(queue, running - 1, [status EXCEPT ![t] = s])
           /\ Pumped(queue, running - 1, pumps + 1)
           /\ Tried([status EXCEPT ![t] = s], retries, attempts)
<1>. DEFINE st == [status EXCEPT ![t] = s]
<1>. USE LimiterAssumption
<1>1. status \in [Tasks -> Status] /\ st \in [Tasks -> Status] /\ st[t] = s
    BY DEF IInv, TypeOK, Status
<1>2. Cardinality(ActiveIn(st)) = running - 1
    BY <1>1, ActiveShrinks DEF IInv, Core, Status
<1>3. Core(queue, running - 1, st)
    BY <1>1, <1>2 DEF IInv, Core
<1>4. Tried(st, retries, attempts)
    BY <1>1 DEF IInv, Tried
<1>5. Pumped(queue, running - 1, pumps + 1)
    <2>. queue \in Seq(Tasks) /\ Len(queue) \in Nat /\ pumps \in Nat /\ running \in Int
        BY DEF IInv, TypeOK
    <2>. QED BY DEF IInv, Pumped
<1>. QED BY <1>3, <1>4, <1>5

LEMMA RequeuePrepares ==
    ASSUME NEW t \in Tasks, IInv, Requeue(t)
    PROVE  /\ Core(<<t>> \o queue, running - 1, [status EXCEPT ![t] = "queued"])
           /\ Pumped(<<t>> \o queue, running - 1, pumps + 1)
           /\ Tried([status EXCEPT ![t] = "queued"], retries, attempts)
<1>. DEFINE q  == <<t>> \o queue
            st == [status EXCEPT ![t] = "queued"]
<1>. USE LimiterAssumption
<1>1. /\ queue \in Seq(Tasks) /\ Len(queue) \in Nat
      /\ q \in Seq(Tasks) /\ Len(q) = Len(queue) + 1 /\ q[1] = t
      /\ \A i \in 1..Len(queue) : q[i + 1] = queue[i]
      /\ \A i \in 2..Len(q) : i - 1 \in 1..Len(queue) /\ q[i] = queue[i - 1]
    <2>1. queue \in Seq(Tasks) /\ <<t>> \in Seq(Tasks) /\ Len(<<t>>) = 1 /\ <<t>>[1] = t
        BY DEF IInv, TypeOK
    <2>. HIDE DEF q
    <2>2. /\ q \in Seq(Tasks) /\ Len(q) = 1 + Len(queue) /\ Len(queue) \in Nat
          /\ \A i \in 1..Len(q) : q[i] = IF i <= 1 THEN <<t>>[i] ELSE queue[i - 1]
        BY <2>1, ConcatProperties DEF q
    <2>. QED BY <2>1, <2>2
<1>2. status[t] = "backoff" /\ status \in [Tasks -> Status] /\ st \in [Tasks -> Status]
    BY DEF IInv, TypeOK, Requeue, Status
<1>3. ~InQueue(queue, t)
    BY <1>2 DEF IInv, Core
<1>4. \A u \in Tasks : st[u] = "queued" <=> InQueue(q, u)
    <2>. SUFFICES ASSUME NEW u \in Tasks
                  PROVE  st[u] = "queued" <=> InQueue(q, u)
        OBVIOUS
    <2>1. CASE u = t
        BY <2>1, <1>1, <1>2 DEF InQueue
    <2>2. CASE u # t
        <3>1. InQueue(q, u) => InQueue(queue, u)
            <4>. SUFFICES ASSUME NEW i \in 1..Len(q), q[i] = u
                          PROVE  InQueue(queue, u)
                BY DEF InQueue
            <4>1. i # 1
                BY <1>1, <2>2
            <4>. QED BY <4>1, <1>1 DEF InQueue
        <3>2. InQueue(queue, u) => InQueue(q, u)
            <4>. SUFFICES ASSUME NEW i \in 1..Len(queue), queue[i] = u
                          PROVE  InQueue(q, u)
                BY DEF InQueue
            <4>1. i + 1 \in 1..Len(q) /\ q[i + 1] = u
                BY <1>1
            <4>. QED BY <4>1 DEF InQueue
        <3>. QED BY <2>2, <3>1, <3>2, <1>2 DEF IInv, Core
    <2>. QED BY <2>1, <2>2
<1>5. \A i, j \in 1..Len(q) : q[i] = q[j] => i = j
    <2>. SUFFICES ASSUME NEW i \in 1..Len(q), NEW j \in 1..Len(q), q[i] = q[j]
                  PROVE  i = j
        OBVIOUS
    <2>1. CASE i = 1 \/ j = 1
        BY <2>1, <1>1, <1>3 DEF InQueue
    <2>2. CASE i # 1 /\ j # 1
        <3>1. /\ i - 1 \in 1..Len(queue) /\ j - 1 \in 1..Len(queue)
              /\ queue[i - 1] = queue[j - 1]
            BY <2>2, <1>1
        <3>. QED BY <3>1 DEF IInv, Core
    <2>. QED BY <2>1, <2>2
<1>6. Cardinality(ActiveIn(st)) = running - 1
    BY <1>2, ActiveShrinks DEF IInv, Core, Status
<1>7. Tried(st, retries, attempts)
    BY <1>2 DEF IInv, Tried
<1>8. Core(q, running - 1, st)
    <2>. HIDE DEF q, st
    <2>. QED BY <1>1, <1>2, <1>4, <1>5, <1>6 DEF IInv, Core
<1>9. Pumped(q, running - 1, pumps + 1)
    <2>. HIDE DEF q
    <2>. QED BY <1>1 DEF IInv, Core, Pumped, TypeOK
<1>. QED BY <1>7, <1>8, <1>9

LEMMA InitIInv == Init => IInv
<1>. SUFFICES ASSUME Init PROVE IInv
    OBVIOUS
<1>. USE LimiterAssumption
<1>1. ActiveIn(status) = {} /\ Cardinality(ActiveIn(status)) = 0
    BY FS_EmptySet DEF Init, ActiveIn
<1>2. queue = <<>> /\ Len(queue) = 0 /\ queue \in Seq(Tasks)
    BY DEF Init
<1>3. TypeOK
    BY <1>2 DEF Init, TypeOK, Status
<1>4. Core(queue, running, status)
    BY <1>1, <1>2, <1>3 DEF Init, Core, InQueue, TypeOK
<1>. QED BY <1>2, <1>3, <1>4 DEF Init, IInv, Pumped, Tried, TypeOK

LEMMA StepIInv == IInv /\ [Next]_vars => IInv'
<1>. SUFFICES ASSUME IInv, [Next]_vars PROVE IInv'
    OBVIOUS
<1>. USE LimiterAssumption
<1>0. /\ sinceLast \in 0..MinDelay /\ pumps \in Nat
      /\ retries \in [Tasks -> Nat] /\ wait \in [Tasks -> Nat]
    BY DEF IInv, TypeOK
<1>1. ASSUME NEW t \in Tasks, Run(t) PROVE IInv'
    <2>. DEFINE st == [status EXCEPT ![t] = "queued"]
    <2>1. ProcessQueue(Append(queue, t), running, pumps, st)
        BY <1>1 DEF Run
    <2>2. /\ Core(Append(queue, t), running, st)
          /\ Pumped(Append(queue, t), running, pumps + 1)
          /\ Tried(st, retries, attempts)
        BY <1>1, RunPrepares
    <2>3. /\ Core(queue', running', status') /\ Pumped(queue', running', pumps')
          /\ Tried(status', retries, attempts') /\ pumps' \in Nat
          /\ sinceLast' \in 0..MinDelay
        <3>. HIDE DEF st
        <3>. QED BY <2>1, <2>2, <1>0, ProcessQueueKeepsCore
    <2>4. retries' = retries /\ wait' = wait /\ ticket' \in [Tasks -> Nat]
        <3>1. IsFiniteSet(Submitted)
            BY FS_Subset DEF Submitted
        <3>2. Cardinality(Submitted) + 1 \in Nat
            BY <3>1, FS_CardinalityType
        <3>. QED BY <3>2, <1>1 DEF Run, IInv, TypeOK
    <2>. QED BY <2>3, <2>4, <1>0 DEF IInv, TypeOK, Core, Tried
<1>2. ASSUME Wake PROVE IInv'
    <2>1. ProcessQueue(queue, running, pumps - 1, status) /\ pumps - 1 \in Nat
        BY <1>2, <1>0 DEF Wake
    <2>2. /\ Core(queue, running, status)
          /\ Pumped(queue, running, (pumps - 1) + 1)
          /\ Tried(status, retries, attempts)
        <3>1. (pumps - 1) + 1 = pumps
            BY <1>0
        <3>. QED BY <3>1 DEF IInv
    <2>3. /\ Core(queue', running', status') /\ Pumped(queue', running', pumps')
          /\ Tried(status', retries, attempts') /\ pumps' \in Nat
          /\ sinceLast' \in 0..MinDelay
        BY <2>1, <2>2, <1>0, ProcessQueueKeepsCore
    <2>. QED BY <2>3, <1>0, <1>2 DEF Wake, IInv, TypeOK, Core, Tried
<1>3. ASSUME NEW t \in Tasks, Resolve(t) \/ Reject(t) PROVE IInv'
    <2>1. PICK s \in {"resolved", "rejected"} :
              /\ status[t] = "running"
              /\ ProcessQueue(queue, running - 1, pumps, [status EXCEPT ![t] = s])
              /\ s = "rejected" => retries[t] >= MaxRetries
              /\ UNCHANGED <<retries, wait, ticket>>
        BY <1>3 DEF Resolve, Reject
    <2>. DEFINE st == [status EXCEPT ![t] = s]
    <2>2. /\ Core(queue, running - 1, st)
          /\ Pumped(queue, running - 1, pumps + 1)
          /\ Tried(st, retries, attempts)
        BY <2>1, SettlePrepares
    <2>3. /\ Core(queue', running', status') /\ Pumped(queue', running', pumps')
          /\ Tried(status', retries, attempts') /\ pumps' \in Nat
          /\ sinceLast' \in 0..MinDelay
        <3>1. ProcessQueue(queue, running - 1, pumps, st)
            BY <2>1
        <3>. HIDE DEF st
        <3>. QED BY <3>1, <2>2, <1>0, ProcessQueueKeepsCore
    <2>. QED BY <2>1, <2>3, <1>0 DEF IInv, TypeOK, Core, Tried
<1>4. ASSUME NEW t \in Tasks, Requeue(t) PROVE IInv'
    <2>. DEFINE st == [status EXCEPT ![t] = "queued"]
                q  == <<t>> \o queue
    <2>1. ProcessQueue(q, running - 1, pumps, st)
        BY <1>4 DEF Requeue
    <2>2. /\ Core(q, running - 1, st)
          /\ Pumped(q, running - 1, pumps + 1)
          /\ Tried(st, retries, attempts)
        BY <1>4, RequeuePrepares
    <2>3. /\ Core(queue', running', status') /\ Pumped(queue', running', pumps')
          /\ Tried(status', retries, attempts') /\ pumps' \in Nat
          /\ sinceLast' \in 0..MinDelay
        <3>. HIDE DEF st, q
        <3>. QED BY <2>1, <2>2, <1>0, ProcessQueueKeepsCore
    <2>. QED BY <1>4, <2>3, <1>0 DEF Requeue, IInv, TypeOK, Core, Tried
<1>5. ASSUME NEW t \in Tasks, Pause(t) PROVE IInv'
    <2>1. status \in [Tasks -> Status] /\ status' \in [Tasks -> Status] /\ status[t] = "running"
        BY <1>5 DEF Pause, IInv, TypeOK, Status
    <2>2. status' = [status EXCEPT ![t] = "backoff"]
        BY <1>5 DEF Pause
    <2>3. Cardinality(ActiveIn(status')) = Cardinality(ActiveIn(status))
        BY <2>1, <2>2, ActiveSame DEF Status
    <2>4. Core(queue', running', status')
        BY <1>5, <2>1, <2>2, <2>3 DEF Pause, IInv, Core
    <2>5. /\ wait' \in [Tasks -> Nat] /\ retries' \in [Tasks -> Nat]
          /\ Tried(status', retries', attempts')
        BY <1>5, <1>0, <2>1, <2>2 DEF Pause, IInv, Tried
    <2>. QED BY <1>5, <1>0, <2>1, <2>4, <2>5 DEF Pause, IInv, TypeOK, Pumped
<1>6. ASSUME Tick PROVE IInv'
    BY <1>6, <1>0 DEF Tick, IInv, TypeOK, Core, Pumped, Tried
<1>7. ASSUME UNCHANGED vars PROVE IInv'
    BY <1>7 DEF vars, IInv, TypeOK, Core, Pumped, Tried
<1>. QED BY <1>1, <1>2, <1>3, <1>4, <1>5, <1>6, <1>7 DEF Next, AtRest

(* The inductive invariant holds throughout. *)
THEOREM LimiterInvariant == Spec => []IInv
<1>1. Init => IInv
    BY InitIInv
<1>2. IInv /\ [Next]_vars => IInv'
    BY StepIInv
<1>. QED BY <1>1, <1>2, PTL DEF Spec

(* The variables keep their types, for any number of tasks, slots, retries *)
(* and any delays.                                                         *)
THEOREM TypeCorrect == Spec => []TypeOK
<1>1. IInv => TypeOK
    BY DEF IInv
<1>. QED BY <1>1, LimiterInvariant, PTL

(* The counter _running counts the slots in use and stays within the bound. *)
THEOREM SlotsAreAccounted == Spec => []SlotsAccounted
<1>1. IInv => SlotsAccounted
    <2>1. ActiveIn(status) = Active
        BY DEF ActiveIn, Active
    <2>. QED BY <2>1 DEF IInv, Core, SlotsAccounted
<1>. QED BY <1>1, LimiterInvariant, PTL

(* Every waiting task is in the queue exactly once. *)
THEOREM QueueIsExact == Spec => []QueueExact
<1>1. IInv => QueueExact
    BY DEF IInv, Core, QueueExact, InQueue
<1>. QED BY <1>1, LimiterInvariant, PTL

(* No free slot is left unattended while work is queued. *)
THEOREM NoWorkForgotten == Spec => []WorkConserving
<1>1. IInv => WorkConserving
    BY DEF IInv, Pumped, WorkConserving
<1>. QED BY <1>1, LimiterInvariant, PTL

(* No task is tried more than MaxRetries + 1 times. *)
THEOREM TriesAreBounded == Spec => []AttemptsBounded
<1>1. IInv => AttemptsBounded
    BY DEF IInv, Tried, AttemptsBounded
<1>. QED BY <1>1, LimiterInvariant, PTL

(* Starts are MinDelay apart, however many suspended calls wake together. *)
THEOREM StartsAreSpaced == Spec => Spaced
<1>. DEFINE Gap == \A t \in Tasks : attempts'[t] # attempts[t] =>
                       /\ sinceLast = MinDelay /\ sinceLast' = 0
                       /\ \A u \in Tasks \ {t} : attempts'[u] = attempts[u]
<1>1. TypeOK /\ [Next]_vars => [Gap]_vars
    <2>. SUFFICES ASSUME TypeOK, Next PROVE Gap
        OBVIOUS
    <2>1. ASSUME NEW q, NEW r, NEW p, NEW st, ProcessQueue(q, r, p, st) PROVE Gap
        <3>1. CASE attempts' = attempts
            BY <3>1
        <3>2. CASE Start(q, r, p, st)
            BY <3>2, LimiterAssumption DEF Start, TypeOK
        <3>. QED BY <2>1, <3>1, <3>2 DEF ProcessQueue, Return, Suspend
    <2>2. CASE attempts' = attempts
        BY <2>2
    <2>. QED BY <2>1, <2>2
             DEF Next, Run, Wake, Resolve, Reject, Requeue, Pause, Tick, AtRest, vars
<1>. QED BY <1>1, TypeCorrect, PTL DEF Spec, Spaced

-----------------------------------------------------------------------------
(***************************************************************************)
(* Order of settlement with one slot.  InOrder alone is not inductive: the *)
(* queue must be sorted by ticket and the task in the slot must be older   *)
(* than every queued one, which unshift() restores after a retry.          *)
(***************************************************************************)
SettledIn(st)   == {t \in Tasks : st[t] \in {"resolved", "rejected"}}
SubmittedIn(st) == {t \in Tasks : st[t] # "new"}

Lined(q, st, tk) ==
    /\ \A i, j \in 1..Len(q) : i < j => tk[q[i]] < tk[q[j]]
    /\ \A t \in ActiveIn(st) : \A i \in 1..Len(q) : tk[t] < tk[q[i]]
    /\ \A t, u \in SubmittedIn(st) :
           (tk[t] < tk[u] /\ u \in SettledIn(st)) => t \in SettledIn(st)

Ticketed == \A t \in Tasks : ticket[t] <= Cardinality(Submitted)

FifoInv == (Concurrency = 1 => Lined(queue, status, ticket)) /\ Ticketed

(* A counter of zero means that no task is active. *)
LEMMA NoneActive ==
    ASSUME NEW q, NEW r, NEW st, Core(q, r, st), r < 1
    PROVE  ActiveIn(st) = {}
<1>1. IsFiniteSet(ActiveIn(st))
    BY LimiterAssumption, FS_Subset DEF ActiveIn
<1>2. Cardinality(ActiveIn(st)) = 0
    BY <1>1, FS_CardinalityType DEF Core
<1>. QED BY <1>1, <1>2, FS_EmptySet

(* With one slot, two active tasks are the same one. *)
LEMMA OneActive ==
    ASSUME NEW q, NEW r, NEW st, Core(q, r, st), Concurrency = 1,
           NEW t \in ActiveIn(st), NEW u \in ActiveIn(st)
    PROVE  t = u
<1>. SUFFICES ASSUME t # u PROVE FALSE
    OBVIOUS
<1>1. IsFiniteSet(ActiveIn(st))
    BY LimiterAssumption, FS_Subset DEF ActiveIn
<1>2. IsFiniteSet(ActiveIn(st) \ {t}) /\ Cardinality(ActiveIn(st) \ {t}) = Cardinality(ActiveIn(st)) - 1
    BY <1>1, FS_RemoveElement
<1>3. Cardinality(ActiveIn(st) \ {t}) = 0
    BY <1>1, <1>2, FS_CardinalityType DEF Core
<1>. QED BY <1>2, <1>3, FS_EmptySet

LEMMA ProcessQueueKeepsLine ==
    ASSUME NEW q, NEW r, NEW p, NEW st, NEW tk \in [Tasks -> Nat],
           Concurrency = 1, Core(q, r, st), Lined(q, st, tk),
           ProcessQueue(q, r, p, st)
    PROVE  Lined(queue', status', tk) /\ SubmittedIn(status') = SubmittedIn(st)
<1>1. CASE Return(q, r, p, st) \/ Suspend(q, r, p, st)
    BY <1>1 DEF Return, Suspend
<1>2. CASE Start(q, r, p, st)
    <2>. DEFINE h == Head(q)
    <2>1. /\ q \in Seq(Tasks) /\ q # <<>> /\ Len(q) \in Nat \ {0}
          /\ h \in Tasks /\ h = q[1]
          /\ Tail(q) \in Seq(Tasks) /\ Len(Tail(q)) = Len(q) - 1
          /\ \A i \in 1..Len(Tail(q)) : Tail(q)[i] = q[i + 1]
        BY <1>2 DEF Start, Core
    <2>2. st[h] = "queued" /\ st \in [Tasks -> Status]
        BY <2>1 DEF Core, InQueue
    <2>3. ActiveIn(st) = {}
        BY <1>2, NoneActive DEF Start
    <2>4. status' = [st EXCEPT ![h] = "running"] /\ queue' = Tail(q)
        BY <1>2 DEF Start
    <2>5. /\ SettledIn(status') = SettledIn(st) /\ SubmittedIn(status') = SubmittedIn(st)
          /\ ActiveIn(status') = {h}
        BY <2>1, <2>2, <2>3, <2>4 DEF SettledIn, SubmittedIn, ActiveIn
    <2>6. \A i, j \in 1..Len(queue') : i < j => tk[queue'[i]] < tk[queue'[j]]
        <3>. SUFFICES ASSUME NEW i \in 1..Len(queue'), NEW j \in 1..Len(queue'), i < j
                      PROVE  tk[queue'[i]] < tk[queue'[j]]
            OBVIOUS
        <3>1. i + 1 \in 1..Len(q) /\ j + 1 \in 1..Len(q) /\ i + 1 < j + 1
            BY <2>1, <2>4
        <3>. QED BY <3>1, <2>1, <2>4 DEF Lined
    <2>7. \A i \in 1..Len(queue') : tk[h] < tk[queue'[i]]
        <3>. SUFFICES ASSUME NEW i \in 1..Len(queue')
                      PROVE  tk[h] < tk[queue'[i]]
            OBVIOUS
        <3>1. 1 \in 1..Len(q) /\ i + 1 \in 1..Len(q) /\ 1 < i + 1
            BY <2>1, <2>4
        <3>. QED BY <3>1, <2>1, <2>4 DEF Lined
    <2>. QED BY <2>5, <2>6, <2>7 DEF Lined
<1>. QED BY <1>1, <1>2 DEF ProcessQueue

LEMMA InitFifo == Init => FifoInv
<1>. SUFFICES ASSUME Init PROVE FifoInv
    OBVIOUS
<1>1. Submitted = {} /\ Cardinality(Submitted) = 0
    BY FS_EmptySet DEF Init, Submitted
<1>2. SubmittedIn(status) = {} /\ ActiveIn(status) = {} /\ Len(queue) = 0
    BY DEF Init, SubmittedIn, ActiveIn
<1>3. Ticketed
    BY <1>1 DEF Init, Ticketed
<1>4. Lined(queue, status, ticket)
    BY <1>2 DEF Lined
<1>. QED BY <1>3, <1>4 DEF FifoInv

(* run() hands out a ticket larger than all the others. *)
LEMMA RunTakesTicket ==
    ASSUME NEW t \in Tasks, IInv, FifoInv, Run(t)
    PROVE  /\ ticket' = [ticket EXCEPT ![t] = Cardinality(Submitted) + 1]
           /\ Cardinality(Submitted) + 1 \in Nat
           /\ \A u \in Submitted : ticket[u] < Cardinality(Submitted) + 1
           /\ Submitted' = Submitted \cup {t}
           /\ Ticketed'
<1>1. status[t] = "new" /\ status \in [Tasks -> Status]
    BY DEF Run, IInv, TypeOK
<1>2. IsFiniteSet(Submitted) /\ Cardinality(Submitted) \in Nat
    BY LimiterAssumption, FS_Subset, FS_CardinalityType DEF Submitted
<1>3. Submitted' = Submitted \cup {t} /\ t \notin Submitted
    <2>. DEFINE st == [status EXCEPT ![t] = "queued"]
    <2>1. Core(Append(queue, t), running, st)
        BY RunPrepares
    <2>2. ProcessQueue(Append(queue, t), running, pumps, st)
        BY DEF Run
    <2>3. SubmittedIn(status') = SubmittedIn(st)
        <3>1. CASE status' = st
            BY <3>1
        <3>2. CASE Start(Append(queue, t), running, pumps, st)
            <4>1. Append(queue, t) \in Seq(Tasks) /\ Append(queue, t) # <<>>
                BY <3>2, <2>1 DEF Core, Start
            <4>2. Head(Append(queue, t)) \in Tasks /\ Head(Append(queue, t)) = Append(queue, t)[1]
                  /\ 1 \in 1..Len(Append(queue, t))
                BY <4>1
            <4>3. st[Head(Append(queue, t))] = "queued"
                BY <4>2, <2>1 DEF Core, InQueue
            <4>4. st \in [Tasks -> Status]
                BY <2>1 DEF Core
            <4>. HIDE DEF st
            <4>. QED BY <3>2, <4>2, <4>3, <4>4 DEF Start, SubmittedIn
        <3>. QED BY <2>2, <3>1, <3>2 DEF ProcessQueue, Return, Suspend
    <2>. QED BY <2>3, <1>1 DEF Submitted, SubmittedIn, Status
<1>4. Cardinality(Submitted') = Cardinality(Submitted) + 1
    BY <1>2, <1>3, FS_AddElement
<1>5. ticket' = [ticket EXCEPT ![t] = Cardinality(Submitted) + 1] /\ ticket \in [Tasks -> Nat]
    BY DEF Run, IInv, TypeOK
<1>6. Ticketed'
    BY <1>2, <1>4, <1>5 DEF FifoInv, Ticketed
<1>. QED BY <1>2, <1>3, <1>5, <1>6 DEF FifoInv, Ticketed, Submitted

LEMMA RunLinesUp ==
    ASSUME NEW t \in Tasks, IInv, FifoInv, Run(t), Concurrency = 1
    PROVE  Lined(Append(queue, t), [status EXCEPT ![t] = "queued"], ticket')
<1>. DEFINE q  == Append(queue, t)
            st == [status EXCEPT ![t] = "queued"]
            n  == Cardinality(Submitted) + 1
<1>1. /\ queue \in Seq(Tasks) /\ Len(queue) \in Nat
      /\ q \in Seq(Tasks) /\ Len(q) = Len(queue) + 1 /\ q[Len(q)] = t
      /\ \A i \in 1..Len(queue) : q[i] = queue[i] /\ queue[i] \in Tasks
    BY DEF IInv, TypeOK
<1>2. status[t] = "new" /\ status \in [Tasks -> Status] /\ ticket \in [Tasks -> Nat]
    BY DEF IInv, TypeOK, Run
<1>3. \A i \in 1..Len(queue) : queue[i] \in Submitted /\ queue[i] # t
    <2>. SUFFICES ASSUME NEW i \in 1..Len(queue)
                  PROVE  queue[i] \in Submitted /\ queue[i] # t
        OBVIOUS
    <2>1. status[queue[i]] = "queued" /\ queue[i] \in Tasks
        BY <1>1 DEF IInv, Core, InQueue
    <2>. QED BY <2>1, <1>2 DEF Submitted
<1>4. /\ ticket' = [ticket EXCEPT ![t] = n] /\ n \in Nat
      /\ \A u \in Submitted : ticket[u] < n
    BY RunTakesTicket
<1>5. /\ ActiveIn(st) = ActiveIn(status) /\ SettledIn(st) = SettledIn(status)
      /\ SubmittedIn(st) = Submitted \cup {t} /\ t \notin Submitted
      /\ SubmittedIn(status) = Submitted
      /\ ActiveIn(status) \subseteq Submitted /\ SettledIn(status) \subseteq Submitted
      /\ Submitted \subseteq Tasks
    BY <1>2 DEF ActiveIn, SettledIn, SubmittedIn, Submitted, Status
<1>6. \A u \in Submitted : ticket'[u] = ticket[u] /\ ticket'[u] < ticket'[t] /\ ticket'[t] \in Nat
    BY <1>2, <1>4, <1>5
<1>7. Lined(queue, status, ticket)
    BY DEF FifoInv
<1>. HIDE DEF q, st, n
<1>8. \A i, j \in 1..Len(q) : i < j => ticket'[q[i]] < ticket'[q[j]]
    <2>. SUFFICES ASSUME NEW i \in 1..Len(q), NEW j \in 1..Len(q), i < j
                  PROVE  ticket'[q[i]] < ticket'[q[j]]
        OBVIOUS
    <2>1. i \in 1..Len(queue) /\ q[i] = queue[i] /\ queue[i] \in Submitted
        BY <1>1, <1>3
    <2>2. CASE j = Len(q)
        BY <2>1, <2>2, <1>1, <1>6
    <2>3. CASE j # Len(q)
        <3>1. j \in 1..Len(queue) /\ q[j] = queue[j] /\ queue[j] \in Submitted
            BY <2>3, <1>1, <1>3
        <3>. QED BY <2>1, <3>1, <1>6, <1>7 DEF Lined
    <2>. QED BY <2>2, <2>3
<1>9. \A u \in ActiveIn(st) : \A i \in 1..Len(q) : ticket'[u] < ticket'[q[i]]
    <2>. SUFFICES ASSUME NEW u \in ActiveIn(st), NEW i \in 1..Len(q)
                  PROVE  ticket'[u] < ticket'[q[i]]
        OBVIOUS
    <2>1. CASE i = Len(q)
        BY <2>1, <1>1, <1>5, <1>6
    <2>2. CASE i # Len(q)
        <3>1. i \in 1..Len(queue) /\ q[i] = queue[i] /\ queue[i] \in Submitted
            BY <2>2, <1>1, <1>3
        <3>. QED BY <3>1, <1>5, <1>6, <1>7 DEF Lined
    <2>. QED BY <2>1, <2>2
<1>10. \A v, u \in SubmittedIn(st) :
           (ticket'[v] < ticket'[u] /\ u \in SettledIn(st)) => v \in SettledIn(st)
    <2>. SUFFICES ASSUME NEW v \in SubmittedIn(st), NEW u \in SettledIn(st),
                         ticket'[v] < ticket'[u]
                  PROVE  v \in SettledIn(st)
        OBVIOUS
    <2>1. u \in Submitted
        BY <1>5
    <2>2. v \in Submitted
        <3>. SUFFICES ASSUME v = t PROVE FALSE
            BY <1>5
        <3>1. ticket'[u] \in Nat /\ ticket'[t] \in Nat
            BY <2>1, <1>2, <1>5, <1>6
        <3>. QED BY <2>1, <3>1, <1>6
    <2>. QED BY <2>1, <2>2, <1>5, <1>6, <1>7 DEF Lined
<1>. QED BY <1>8, <1>9, <1>10 DEF Lined, q, st

LEMMA SettleKeepsLine ==
    ASSUME NEW t \in Tasks, IInv, FifoInv, status[t] = "running", Concurrency = 1,
           NEW s \in {"resolved", "rejected"},
           Core(queue, running - 1, [status EXCEPT ![t] = s])
    PROVE  /\ Lined(queue, [status EXCEPT ![t] = s], ticket)
           /\ SubmittedIn([status EXCEPT ![t] = s]) = Submitted
<1>. DEFINE st == [status EXCEPT ![t] = s]
<1>1. status \in [Tasks -> Status] /\ ticket \in [Tasks -> Nat] /\ t \in ActiveIn(status)
    BY DEF IInv, TypeOK, ActiveIn
<1>2. Lined(queue, status, ticket)
    BY DEF FifoInv
<1>3. ActiveIn(st) = {}
    <2>1. running \in Int /\ running <= 1
        BY DEF IInv, Core
    <2>. QED BY <2>1, NoneActive
<1>4. /\ SettledIn(st) = SettledIn(status) \cup {t}
      /\ SubmittedIn(st) = SubmittedIn(status) /\ SubmittedIn(status) = Submitted
      /\ \A u \in SubmittedIn(st) : u \in SettledIn(st) \/ u \in ActiveIn(st) \/ status[u] = "queued"
    BY <1>1 DEF SettledIn, SubmittedIn, ActiveIn, Submitted, Status
<1>5. \A v, u \in SubmittedIn(st) :
           (ticket[v] < ticket[u] /\ u \in SettledIn(st)) => v \in SettledIn(st)
    <2>. SUFFICES ASSUME NEW v \in SubmittedIn(st), NEW u \in SettledIn(st),
                         ticket[v] < ticket[u], v \notin SettledIn(st)
                  PROVE  FALSE
        OBVIOUS
    <2>1. status[v] = "queued" /\ v \in Tasks
        BY <1>3, <1>4 DEF SubmittedIn
    <2>2. PICK i \in 1..Len(queue) : queue[i] = v
        BY <2>1 DEF IInv, Core, InQueue
    <2>3. ticket[t] < ticket[v]
        BY <2>2, <1>1, <1>2 DEF Lined
    <2>4. ticket[t] \in Nat /\ ticket[v] \in Nat
        BY <1>1, <2>1
    <2>5. u # t
        BY <2>3, <2>4
    <2>7. u \in SettledIn(status)
        <3>. HIDE DEF st
        <3>. QED BY <2>5, <1>4
    <2>6. v \in SettledIn(status)
        BY <2>7, <1>2, <1>4 DEF Lined, SettledIn, SubmittedIn
    <2>. QED BY <2>6, <1>4
<1>. QED BY <1>2, <1>3, <1>4, <1>5 DEF Lined

LEMMA RequeueKeepsLine ==
    ASSUME NEW t \in Tasks, IInv, FifoInv, Requeue(t), Concurrency = 1,
           Core(<<t>> \o queue, running - 1, [status EXCEPT ![t] = "queued"])
    PROVE  /\ Lined(<<t>> \o queue, [status EXCEPT ![t] = "queued"], ticket)
           /\ SubmittedIn([status EXCEPT ![t] = "queued"]) = Submitted
<1>. DEFINE st == [status EXCEPT ![t] = "queued"]
            q  == <<t>> \o queue
<1>1. /\ status \in [Tasks -> Status] /\ ticket \in [Tasks -> Nat]
      /\ status[t] = "backoff" /\ t \in ActiveIn(status)
    BY DEF IInv, TypeOK, ActiveIn, Requeue
<1>2. Lined(queue, status, ticket)
    BY DEF FifoInv
<1>3. ActiveIn(st) = {}
    <2>1. running \in Int /\ running <= 1
        BY DEF IInv, Core
    <2>. QED BY <2>1, NoneActive
<1>4. /\ SettledIn(st) = SettledIn(status)
      /\ SubmittedIn(st) = SubmittedIn(status) /\ SubmittedIn(status) = Submitted
    BY <1>1 DEF SettledIn, SubmittedIn, ActiveIn, Submitted, Status
<1>5. \A i, j \in 1..Len(q) : i < j => ticket[q[i]] < ticket[q[j]]
    <2>1. queue \in Seq(Tasks) /\ <<t>> \in Seq(Tasks) /\ Len(<<t>>) = 1 /\ <<t>>[1] = t
        BY DEF IInv, TypeOK
    <2>. HIDE DEF q
    <2>2. /\ q \in Seq(Tasks) /\ Len(q) = 1 + Len(queue) /\ Len(queue) \in Nat
          /\ \A i \in 1..Len(q) : q[i] = IF i <= 1 THEN <<t>>[i] ELSE queue[i - 1]
        BY <2>1, ConcatProperties DEF q
    <2>. SUFFICES ASSUME NEW i \in 1..Len(q), NEW j \in 1..Len(q), i < j
                  PROVE  ticket[q[i]] < ticket[q[j]]
        OBVIOUS
    <2>3. j - 1 \in 1..Len(queue) /\ q[j] = queue[j - 1]
        BY <2>2
    <2>4. CASE i = 1
        BY <2>1, <2>2, <2>3, <2>4, <1>1, <1>2 DEF Lined
    <2>5. CASE i # 1
        <3>1. i - 1 \in 1..Len(queue) /\ q[i] = queue[i - 1] /\ i - 1 < j - 1
            BY <2>2, <2>5
        <3>. QED BY <2>3, <3>1, <1>2 DEF Lined
    <2>. QED BY <2>4, <2>5
<1>. HIDE DEF q
<1>6. Lined(q, st, ticket)
    BY <1>2, <1>3, <1>4, <1>5 DEF Lined
<1>. QED BY <1>4, <1>6 DEF q

LEMMA StepFifo == IInv /\ IInv' /\ FifoInv /\ [Next]_vars => FifoInv'
<1>. SUFFICES ASSUME IInv, IInv', FifoInv, [Next]_vars PROVE FifoInv'
    OBVIOUS
<1>0. ticket \in [Tasks -> Nat] /\ ticket' \in [Tasks -> Nat]
    BY DEF IInv, TypeOK
<1>1. ASSUME NEW t \in Tasks, Run(t) PROVE FifoInv'
    <2>. DEFINE st == [status EXCEPT ![t] = "queued"]
    <2>1. Ticketed'
        BY <1>1, RunTakesTicket
    <2>2. ASSUME Concurrency = 1 PROVE Lined(queue', status', ticket')
        <3>1. Lined(Append(queue, t), st, ticket')
            BY <1>1, <2>2, RunLinesUp
        <3>2. Core(Append(queue, t), running, st)
            BY <1>1, RunPrepares
        <3>3. ProcessQueue(Append(queue, t), running, pumps, st)
            BY <1>1 DEF Run
        <3>. HIDE DEF st
        <3>. QED BY <1>0, <2>2, <3>1, <3>2, <3>3, ProcessQueueKeepsLine
    <2>. QED BY <2>1, <2>2 DEF FifoInv
<1>2. ASSUME NEW q, NEW r, NEW p, NEW st, ProcessQueue(q, r, p, st), Core(q, r, st),
             Concurrency = 1 => Lined(q, st, ticket),
             SubmittedIn(st) = Submitted, ticket' = ticket
      PROVE  FifoInv'
    <2>1. SubmittedIn(status') = SubmittedIn(st)
        <3>1. CASE Return(q, r, p, st) \/ Suspend(q, r, p, st)
            BY <3>1 DEF Return, Suspend
        <3>2. CASE Start(q, r, p, st)
            <4>1. q \in Seq(Tasks) /\ q # <<>> /\ Head(q) = q[1] /\ Len(q) \in Nat \ {0}
                BY <3>2, <1>2 DEF Start, Core
            <4>2. Head(q) \in Tasks /\ st[Head(q)] = "queued" /\ st \in [Tasks -> Status]
                BY <4>1, <1>2 DEF Core, InQueue
            <4>. QED BY <3>2, <4>2 DEF Start, SubmittedIn
        <3>. QED BY <1>2, <3>1, <3>2 DEF ProcessQueue
    <2>2. Submitted' = Submitted
        BY <2>1, <1>2 DEF Submitted, SubmittedIn
    <2>3. Ticketed'
        BY <2>2, <1>2 DEF FifoInv, Ticketed
    <2>4. Concurrency = 1 => Lined(queue', status', ticket')
        BY <1>0, <1>2, ProcessQueueKeepsLine
    <2>. QED BY <2>3, <2>4 DEF FifoInv
<1>3. ASSUME Wake PROVE FifoInv'
    <2>1. SubmittedIn(status) = Submitted
        BY DEF SubmittedIn, Submitted
    <2>. QED BY <1>2, <1>3, <2>1 DEF Wake, IInv, FifoInv
<1>4. ASSUME NEW t \in Tasks, Resolve(t) \/ Reject(t) PROVE FifoInv'
    <2>1. PICK s \in {"resolved", "rejected"} :
              /\ status[t] = "running"
              /\ ProcessQueue(queue, running - 1, pumps, [status EXCEPT ![t] = s])
              /\ s = "rejected" => retries[t] >= MaxRetries
              /\ ticket' = ticket
        BY <1>4 DEF Resolve, Reject
    <2>. DEFINE st == [status EXCEPT ![t] = s]
    <2>2. Core(queue, running - 1, st)
        BY <2>1, SettlePrepares
    <2>3. Concurrency = 1 => Lined(queue, st, ticket)
        BY <2>1, <2>2, SettleKeepsLine
    <2>4. SubmittedIn(st) = Submitted
        BY <2>1 DEF IInv, TypeOK, SubmittedIn, Submitted
    <2>5. ProcessQueue(queue, running - 1, pumps, st) /\ ticket' = ticket
        BY <2>1
    <2>. HIDE DEF st
    <2>. QED BY <1>2, <2>2, <2>3, <2>4, <2>5
<1>5. ASSUME NEW t \in Tasks, Requeue(t) PROVE FifoInv'
    <2>. DEFINE st == [status EXCEPT ![t] = "queued"]
                q  == <<t>> \o queue
    <2>1. Core(q, running - 1, st)
        BY <1>5, RequeuePrepares
    <2>2. Concurrency = 1 => Lined(q, st, ticket)
        BY <1>5, <2>1, RequeueKeepsLine
    <2>3. SubmittedIn(st) = Submitted
        BY <1>5 DEF Requeue, IInv, TypeOK, SubmittedIn, Submitted
    <2>4. ProcessQueue(q, running - 1, pumps, st) /\ ticket' = ticket
        BY <1>5 DEF Requeue
    <2>. HIDE DEF st, q
    <2>. QED BY <1>2, <2>1, <2>2, <2>3, <2>4
<1>6. ASSUME NEW t \in Tasks, Pause(t) PROVE FifoInv'
    <2>1. /\ status[t] = "running" /\ status' = [status EXCEPT ![t] = "backoff"]
          /\ status \in [Tasks -> Status] /\ ticket' = ticket /\ queue' = queue
        BY <1>6 DEF Pause, IInv, TypeOK
    <2>2. /\ ActiveIn(status') = ActiveIn(status) /\ SettledIn(status') = SettledIn(status)
          /\ SubmittedIn(status') = SubmittedIn(status) /\ Submitted' = Submitted
        BY <2>1 DEF ActiveIn, SettledIn, SubmittedIn, Submitted
    <2>. QED BY <2>1, <2>2 DEF FifoInv, Lined, Ticketed
<1>7. ASSUME Tick \/ UNCHANGED vars PROVE FifoInv'
    BY <1>7 DEF Tick, vars, FifoInv, Lined, Ticketed, ActiveIn, SettledIn, SubmittedIn, Submitted
<1>. QED BY <1>1, <1>3, <1>4, <1>5, <1>6, <1>7 DEF Next, AtRest

(* With one slot, the promises settle in the order of the calls of run(), *)
(* whatever fails and is retried in between.                              *)
THEOREM SettlesInOrder == Spec => []InOrder
<1>1. Init => FifoInv
    BY InitFifo
<1>2. IInv /\ IInv' /\ FifoInv /\ [Next]_vars => FifoInv'
    BY StepFifo
<1>3. FifoInv => InOrder
    BY DEF FifoInv, Lined, InOrder, Submitted, Settled, SubmittedIn, SettledIn
<1>. QED BY <1>1, <1>2, <1>3, LimiterInvariant, PTL DEF Spec

-----------------------------------------------------------------------------
(***************************************************************************)
(* BaileysRateLimiter implements TaskPool.                                 *)
(***************************************************************************)
LEMMA InitImplements == Init => Pool!PoolInit
    BY DEF Init, Pool!PoolInit, PhaseOf

LEMMA StepImplements == IInv /\ IInv' /\ [Next]_vars => [Pool!PoolNext]_(Pool!poolVars)
<1>. SUFFICES ASSUME IInv, IInv', [Next]_vars
              PROVE  Pool!PoolNext \/ UNCHANGED Pool!poolVars
    OBVIOUS
<1>. DEFINE Moves(t) == \/ Pool!Rest(t) \/ Pool!Accept(t) \/ Pool!Drop(t)
                        \/ Pool!Begin(t) \/ Pool!Yield(t) \/ Pool!Settle(t)
<1>0. /\ status \in [Tasks -> Status] /\ status' \in [Tasks -> Status]
      /\ attempts \in [Tasks -> Nat] /\ MaxRetries \in Nat
    BY LimiterAssumption DEF IInv, TypeOK
<1>1. Cardinality({t \in Tasks : [u \in Tasks |-> PhaseOf(status[u])]'[t] = "active"})
          <= Concurrency
    <2>1. {t \in Tasks : [u \in Tasks |-> PhaseOf(status[u])]'[t] = "active"} = ActiveIn(status')
        BY <1>0 DEF PhaseOf, ActiveIn, Status
    <2>. QED BY <2>1 DEF IInv, Core
<1>2. ASSUME NEW q, NEW r, NEW p, NEW st, ProcessQueue(q, r, p, st), Core(q, r, st),
             Tried(st, retries, attempts),
             \A u \in Tasks : \/ st[u] = status[u]
                              \/ st[u] = "queued" /\ status[u] \in {"new", "backoff"}
                              \/ st[u] \in {"resolved", "rejected"} /\ status[u] = "running"
      PROVE  \A u \in Tasks : Moves(u)
    <2>. TAKE u \in Tasks
    <2>1. ASSUME status'[u] = st[u], attempts'[u] = attempts[u] PROVE Moves(u)
        <3>1. CASE st[u] = status[u]
            BY <2>1, <3>1 DEF Pool!Rest
        <3>2. CASE st[u] = "queued" /\ status[u] = "new"
            BY <2>1, <3>2 DEF Pool!Accept, PhaseOf
        <3>3. CASE st[u] = "queued" /\ status[u] = "backoff"
            BY <1>0, <1>2, <2>1, <3>3 DEF Pool!Yield, PhaseOf, Tried
        <3>4. CASE st[u] \in {"resolved", "rejected"} /\ status[u] = "running"
            BY <2>1, <3>4 DEF Pool!Settle, PhaseOf
        <3>. QED BY <1>2, <3>1, <3>2, <3>3, <3>4
    <2>2. CASE Return(q, r, p, st) \/ Suspend(q, r, p, st)
        BY <2>1, <2>2 DEF Return, Suspend
    <2>3. CASE Start(q, r, p, st)
        <3>1. q \in Seq(Tasks) /\ q # <<>> /\ Head(q) = q[1] /\ Len(q) \in Nat \ {0}
            BY <2>3, <1>2 DEF Start, Core
        <3>2. Head(q) \in Tasks /\ st[Head(q)] = "queued" /\ st \in [Tasks -> Status]
            BY <3>1, <1>2 DEF Core, InQueue
        <3>3. CASE u = Head(q)
            <4>1. status[u] \in {"queued", "new", "backoff"}
                BY <1>2, <3>2, <3>3
            <4>2. status'[u] = "running" /\ attempts'[u] = attempts[u] + 1
                BY <1>0, <2>3, <3>2, <3>3 DEF Start
            <4>3. attempts[u] < MaxRetries + 1
                BY <1>0, <1>2, <3>2, <3>3 DEF Tried
            <4>. QED BY <4>1, <4>2, <4>3 DEF Pool!Begin, PhaseOf
        <3>4. CASE u # Head(q)
            BY <1>0, <2>1, <2>3, <3>2, <3>4 DEF Start
        <3>. QED BY <3>3, <3>4
    <2>. QED BY <1>2, <2>2, <2>3 DEF ProcessQueue
<1>3. ASSUME \A u \in Tasks : Moves(u) PROVE Pool!PoolNext
    <2>1. \A S : Pool!Cardinality(S) = Cardinality(S)
        BY Zenon DEF Pool!Cardinality, Cardinality
    <2>. QED BY <1>1, <1>3, <2>1, Zenon DEF Pool!PoolNext
<1>4. ASSUME NEW t \in Tasks, Run(t) PROVE Pool!PoolNext
    <2>1. status[t] = "new" /\ ProcessQueue(Append(queue, t), running, pumps, [status EXCEPT ![t] = "queued"])
        BY <1>4 DEF Run
    <2>. DEFINE q  == Append(queue, t)
                st == [status EXCEPT ![t] = "queued"]
    <2>2. Core(q, running, st) /\ Tried(st, retries, attempts)
        BY <1>4, RunPrepares
    <2>3. \A u \in Tasks : st[u] = status[u] \/ (st[u] = "queued" /\ status[u] = "new")
        BY <1>0, <2>1
    <2>. HIDE DEF q, st
    <2>4. \A u \in Tasks : Moves(u)
        <3>1. ProcessQueue(q, running, pumps, st)
            BY <2>1 DEF q, st
        <3>. HIDE DEF Moves
        <3>. QED BY <1>2, <2>2, <2>3, <3>1
    <2>. QED BY <1>3, <2>4
<1>5. ASSUME Wake PROVE Pool!PoolNext
    BY <1>2, <1>3, <1>5 DEF Wake, IInv
<1>6. ASSUME NEW t \in Tasks, Resolve(t) \/ Reject(t) PROVE Pool!PoolNext
    <2>1. PICK s \in {"resolved", "rejected"} :
              /\ status[t] = "running"
              /\ ProcessQueue(queue, running - 1, pumps, [status EXCEPT ![t] = s])
              /\ s = "rejected" => retries[t] >= MaxRetries
        BY <1>6 DEF Resolve, Reject
    <2>. DEFINE st == [status EXCEPT ![t] = s]
    <2>2. Core(queue, running - 1, st) /\ Tried(st, retries, attempts)
        BY <2>1, SettlePrepares
    <2>3. \A u \in Tasks : \/ st[u] = status[u]
                           \/ st[u] \in {"resolved", "rejected"} /\ status[u] = "running"
        BY <1>0, <2>1
    <2>. HIDE DEF st
    <2>4. \A u \in Tasks : Moves(u)
        <3>1. ProcessQueue(queue, running - 1, pumps, st)
            BY <2>1 DEF st
        <3>. HIDE DEF Moves
        <3>. QED BY <1>2, <2>2, <2>3, <3>1
    <2>. QED BY <1>3, <2>4
<1>7. ASSUME NEW t \in Tasks, Requeue(t) PROVE Pool!PoolNext
    <2>1. /\ status[t] = "backoff"
          /\ ProcessQueue(<<t>> \o queue, running - 1, pumps, [status EXCEPT ![t] = "queued"])
        BY <1>7 DEF Requeue
    <2>. DEFINE q  == <<t>> \o queue
                st == [status EXCEPT ![t] = "queued"]
    <2>2. Core(q, running - 1, st) /\ Tried(st, retries, attempts)
        BY <1>7, RequeuePrepares
    <2>3. \A u \in Tasks : st[u] = status[u] \/ (st[u] = "queued" /\ status[u] = "backoff")
        BY <1>0, <2>1
    <2>. HIDE DEF q, st
    <2>4. \A u \in Tasks : Moves(u)
        <3>1. ProcessQueue(q, running - 1, pumps, st)
            BY <2>1 DEF q, st
        <3>. HIDE DEF Moves
        <3>. QED BY <1>2, <2>2, <2>3, <3>1
    <2>. QED BY <1>3, <2>4
<1>8. ASSUME NEW t \in Tasks, Pause(t) PROVE UNCHANGED Pool!poolVars
    <2>1. attempts' = attempts
        BY <1>8 DEF Pause
    <2>2. \A u \in Tasks : PhaseOf(status'[u]) = PhaseOf(status[u])
        BY <1>0, <1>8 DEF Pause, PhaseOf
    <2>. QED BY <2>1, <2>2 DEF Pool!poolVars
<1>9. ASSUME Tick \/ UNCHANGED vars PROVE UNCHANGED Pool!poolVars
    BY <1>9 DEF Tick, vars, Pool!poolVars
<1>. QED BY <1>4, <1>5, <1>6, <1>7, <1>8, <1>9 DEF Next, AtRest

(* Every behaviour of the limiter is one a task pool may show: bounded *)
(* slots, bounded tries, and a promise that settles once and for good.  *)
THEOREM LimiterImplementsPool == Spec => ImplementsPool
<1>1. Init => Pool!PoolInit
    BY InitImplements
<1>2. IInv /\ IInv' /\ [Next]_vars => [Pool!PoolNext]_(Pool!poolVars)
    BY StepImplements
<1>. QED BY <1>1, <1>2, LimiterInvariant, PTL DEF Spec, ImplementsPool, Pool!PoolSpec

(* Slots, queue, suspended calls, attempts and order agree at every moment. *)
THEOREM LimiterIsSound == Spec => []LimiterSound
BY TypeCorrect, SlotsAreAccounted, QueueIsExact, NoWorkForgotten, TriesAreBounded,
   SettlesInOrder, PTL DEF LimiterSound
=============================================================================
