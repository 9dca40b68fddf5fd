------------------------ MODULE HttpBackpressureProofs ------------------------
(***************************************************************************)
(* First the queue, for every use of it and every value of its constants.  *)
(* The point of the argument: when process() is entered, either the queue  *)
(* holds one task or at most one slot is free, so its loop starts at most  *)
(* one task and leaves no slot idle next to a waiting task.                *)
(*                                                                         *)
(* Then the middleware, which uses the queue as it may be used: every step *)
(* of HttpBackpressure is a step of BoundedQueue, or leaves it alone.      *)
(* What is proved of the queue then holds of the requests.                 *)
(***************************************************************************)
EXTENDS HttpBackpressure, FiniteSetTheorems, FunctionTheorems,
        SequenceTheorems, TLAPS

RunningIn(st) == {t \in Tasks : st[t] = "running"}
InQueue(q, t) == \E i \in 1..Len(q) : q[i] = t

Core(q, r, st) ==
    /\ q \in Seq(Tasks)
    /\ r \in Int
    /\ st \in [Tasks -> Status]
    /\ r = Cardinality(RunningIn(st))
    /\ r <= Concurrency
    /\ \A t \in Tasks : st[t] = "waiting" <=> InQueue(q, t)
    /\ \A i, j \in 1..Len(q) : q[i] = q[j] => i = j
    /\ Len(q) <= MaxSize

Executed(st, ex) ==
    /\ ex \in [Tasks -> Nat]
    /\ \A t \in Tasks : st[t] \in {"new", "waiting"} => ex[t] = 0

IInv ==
    /\ Core(queue, running, status)
    /\ WorkConserving
    /\ Executed(status, executed)

LEMMA LesserIsAtMostOne ==
    ASSUME NEW a \in Nat, NEW b \in Nat, a >= 1, a = 1 \/ b <= 1
    PROVE  Lesser(a, b) \in {0, 1}
BY DEF Lesser

LEMMA RunningGrows ==
    ASSUME NEW st \in [Tasks -> Status], NEW t \in Tasks, st[t] # "running"
    PROVE  Cardinality(RunningIn([st EXCEPT ![t] = "running"])) = Cardinality(RunningIn(st)) + 1
<1>1. IsFiniteSet(RunningIn(st))
    BY QueueAssumption, FS_Subset DEF RunningIn
<1>2. RunningIn([st EXCEPT ![t] = "running"]) = RunningIn(st) \cup {t} /\ t \notin RunningIn(st)
    BY DEF RunningIn
<1>. QED BY <1>1, <1>2, FS_AddElement

LEMMA RunningShrinks ==
    ASSUME NEW st \in [Tasks -> Status], NEW t \in Tasks, st[t] = "running",
           NEW s \in Status \ {"running"}
    PROVE  Cardinality(RunningIn([st EXCEPT ![t] = s])) = Cardinality(RunningIn(st)) - 1
<1>1. IsFiniteSet(RunningIn(st))
    BY QueueAssumption, FS_Subset DEF RunningIn
<1>2. RunningIn([st EXCEPT ![t] = s]) = RunningIn(st) \ {t} /\ t \in RunningIn(st)
    BY DEF RunningIn
<1>. QED BY <1>1, <1>2, FS_RemoveElement

(* What the loop of process() amounts to when it can start at most one task. *)
LEMMA ProcessStartsAtMostOne ==
    ASSUME NEW q \in Seq(Tasks), NEW r \in Int, NEW st \in [Tasks -> Status],
           executed \in [Tasks -> Nat],
           r <= Concurrency, Len(q) <= 1 \/ r >= Concurrency - 1,
           Process(q, r, st)
    PROVE  \/ /\ q = <<>> \/ r = Concurrency
              /\ queue' = q /\ running' = r /\ status' = st /\ executed' = executed
           \/ /\ q # <<>> /\ r < Concurrency /\ q[1] \in Tasks
              /\ queue' = Tail(q) /\ running' = r + 1
              /\ status' = [st EXCEPT ![q[1]] = "running"]
              /\ executed' = [executed EXCEPT ![q[1]] = @ + 1]
              /\ Len(q) = 1 \/ r + 1 = Concurrency
<1>. USE QueueAssumption
<1>. DEFINE n == Starts(q, r)
            started == {q[i] : i \in 1..n}
<1>1. Len(q) \in Nat /\ (q = <<>> <=> Len(q) = 0)
    BY EmptySeq
<1>2. n = 0 \/ n = 1
    <2>1. CASE r >= Concurrency
        BY <2>1 DEF Starts
    <2>2. CASE r < Concurrency
        <3>1. n = Lesser(Concurrency - r, Len(q))
            BY <2>2 DEF Starts
        <3>2. Concurrency - r \in Nat /\ Concurrency - r >= 1
            BY <2>2
        <3>3. Concurrency - r = 1 \/ Len(q) <= 1
            BY <2>2
        <3>. QED BY <1>1, <3>1, <3>2, <3>3, LesserIsAtMostOne
    <2>. QED BY <2>1, <2>2
<1>3. /\ queue' = SubSeq(q, n + 1, Len(q)) /\ running' = r + n
      /\ status' = [t \in Tasks |-> IF t \in started THEN "running" ELSE st[t]]
      /\ executed' = [t \in Tasks |-> IF t \in started THEN executed[t] + 1 ELSE executed[t]]
    BY DEF Process
<1>4. CASE n = 0
    <2>1. q = <<>> \/ r = Concurrency
        BY <1>1, <1>4 DEF Starts, Lesser
    <2>2. started = {}
        BY <1>4
    <2>3. SubSeq(q, 1, Len(q)) = q
        BY SubSeqFull
    <2>4. status' = st /\ executed' = executed
        <3>. HIDE DEF n, started
        <3>. QED BY <1>3, <2>2
    <2>5. queue' = q /\ running' = r
        <3>. HIDE DEF n, started
        <3>. QED BY <1>3, <1>4, <2>3
    <2>. QED BY <2>1, <2>4, <2>5
<1>5. CASE n = 1
    <2>1. /\ q # <<>> /\ r < Concurrency /\ 1 \in 1..Len(q)
          /\ Len(q) = 1 \/ r + 1 = Concurrency
        BY <1>1, <1>5 DEF Starts, Lesser
    <2>2. started = {q[1]} /\ q[1] \in Tasks
        BY <1>5, <2>1
    <2>3. SubSeq(q, 2, Len(q)) = Tail(q)
        BY <1>1, <2>1, TailIsSubSeq
    <2>4. /\ status' = [st EXCEPT ![q[1]] = "running"]
          /\ executed' = [executed EXCEPT ![q[1]] = @ + 1]
        <3>. HIDE DEF n, started
        <3>. QED BY <1>3, <2>2
    <2>5. queue' = Tail(q) /\ running' = r + 1
        <3>. HIDE DEF n, started
        <3>. QED BY <1>3, <1>5, <2>3
    <2>. QED BY <2>1, <2>2, <2>4, <2>5
<1>. QED BY <1>2, <1>4, <1>5

LEMMA ProcessKeepsCore ==
    ASSUME NEW q, NEW r, NEW st, Core(q, r, st), Executed(st, executed),
           Len(q) <= 1 \/ r >= Concurrency - 1,
           Process(q, r, st)
    PROVE  IInv'
<1>. USE QueueAssumption
<1>1. q \in Seq(Tasks) /\ r \in Int /\ st \in [Tasks -> Status] /\ executed \in [Tasks -> Nat]
      /\ Len(q) \in Nat /\ r <= Concurrency
    BY DEF Core, Executed
<1>2. CASE /\ q = <<>> \/ r = Concurrency
           /\ queue' = q /\ running' = r /\ status' = st /\ executed' = executed
    BY <1>2 DEF IInv, WorkConserving, Core, Executed
<1>3. CASE /\ q # <<>> /\ r < Concurrency /\ q[1] \in Tasks
           /\ queue' = Tail(q) /\ running' = r + 1
           /\ status' = [st EXCEPT ![q[1]] = "running"]
           /\ executed' = [executed EXCEPT ![q[1]] = @ + 1]
           /\ Len(q) = 1 \/ r + 1 = Concurrency
    <2>. DEFINE h == q[1]
    <2>1. /\ Len(q) \in Nat \ {0} /\ h \in Tasks
          /\ Tail(q) \in Seq(Tasks) /\ Len(Tail(q)) = Len(q) - 1
          /\ \A i \in 1..Len(Tail(q)) : Tail(q)[i] = q[i + 1]
        BY <1>1, <1>3
    <2>2. st[h] = "waiting"
        BY <2>1 DEF Core, InQueue
    <2>3. running' = Cardinality(RunningIn(status'))
        BY <1>1, <1>3, <2>1, <2>2, RunningGrows DEF Core
    <2>4. \A t \in Tasks : status'[t] = "waiting" <=> InQueue(queue', t)
        <3>. SUFFICES ASSUME NEW t \in Tasks
                      PROVE  status'[t] = "waiting" <=> InQueue(queue', t)
            OBVIOUS
        <3>1. CASE t = h
            <4>1. ~InQueue(queue', t)
                BY <3>1, <1>3, <2>1 DEF Core, InQueue
            <4>. QED BY <4>1, <3>1, <1>1, <1>3
        <3>2. CASE t # h
            <4>1. InQueue(q, t) => InQueue(queue', t)
                <5>. SUFFICES ASSUME NEW i \in 1..Len(q), q[i] = t
                              PROVE  InQueue(queue', t)
                    BY DEF InQueue
                <5>1. i # 1
                    BY <3>2
                <5>2. i - 1 \in 1..Len(Tail(q)) /\ Tail(q)[i - 1] = q[i]
                    BY <5>1, <2>1
                <5>. QED BY <5>2, <1>3 DEF InQueue
            <4>2. InQueue(queue', t) => InQueue(q, t)
                <5>. SUFFICES ASSUME NEW i \in 1..Len(queue'), queue'[i] = t
                              PROVE  InQueue(q, t)
                    BY DEF InQueue
                <5>1. i + 1 \in 1..Len(q) /\ q[i + 1] = t
                    BY <2>1, <1>3
                <5>. QED BY <5>1 DEF InQueue
            <4>. QED BY <3>2, <4>1, <4>2, <1>1, <1>3 DEF Core
        <3>. QED BY <3>1, <3>2
    <2>5. \A i, j \in 1..Len(queue') : queue'[i] = queue'[j] => i = j
        <3>. SUFFICES ASSUME NEW i \in 1..Len(queue'), NEW j \in 1..Len(queue'),
                             queue'[i] = queue'[j]
                      PROVE  i = j
            OBVIOUS
        <3>1. i + 1 \in 1..Len(q) /\ j + 1 \in 1..Len(q) /\ q[i + 1] = q[j + 1]
            BY <2>1, <1>3
        <3>. QED BY <3>1 DEF Core
    <2>6. status' \in [Tasks -> Status] /\ executed' \in [Tasks -> Nat]
        BY <1>1, <1>3 DEF Status
    <2>7. Core(queue', running', status')
        BY <1>1, <1>3, <2>1, <2>3, <2>4, <2>5, <2>6 DEF Core
    <2>8. WorkConserving'
        BY <1>1, <1>3, <2>1, EmptySeq DEF WorkConserving
    <2>9. Executed(status', executed')
        BY <1>1, <1>3, <2>6 DEF Executed
    <2>. QED BY <2>7, <2>8, <2>9 DEF IInv
<1>. QED BY <1>1, <1>2, <1>3, ProcessStartsAtMostOne

LEMMA InitIInv == QueueInit => IInv
<1>. SUFFICES ASSUME QueueInit PROVE IInv
    OBVIOUS
<1>1. RunningIn(status) = {} /\ Cardinality(RunningIn(status)) = 0
    BY FS_EmptySet DEF QueueInit, RunningIn
<1>2. queue = <<>> /\ Len(queue) = 0 /\ queue \in Seq(Tasks)
    BY DEF QueueInit
<1>3. Core(queue, running, status)
    BY <1>1, <1>2, QueueAssumption DEF QueueInit, Core, InQueue, Status
<1>. QED BY <1>2, <1>3 DEF QueueInit, IInv, WorkConserving, Executed

LEMMA AddPrepares ==
    ASSUME NEW t \in Tasks, IInv, Add(t)
    PROVE  LET q  == Append(queue, t)
               st == [status EXCEPT ![t] = "waiting"]
           IN /\ Core(q, running, st) /\ Executed(st, executed)
              /\ Len(q) <= 1 \/ running >= Concurrency - 1
<1>. DEFINE q  == Append(queue, t)
            st == [status EXCEPT ![t] = "waiting"]
<1>. USE QueueAssumption
<1>1. /\ queue \in Seq(Tasks) /\ Len(queue) \in Nat
      /\ q \in Seq(Tasks) /\ Len(q) = Len(queue) + 1 /\ q[Len(q)] = t
      /\ \A i \in 1..Len(queue) : q[i] = queue[i]
    BY DEF IInv, Core
<1>2. /\ status[t] = "new" /\ Len(queue) < MaxSize
      /\ status \in [Tasks -> Status] /\ st \in [Tasks -> Status]
    BY DEF IInv, Core, Add, Status
<1>3. ~InQueue(queue, t)
    BY <1>2 DEF IInv, Core
<1>4. \A u \in Tasks : st[u] = "waiting" <=> InQueue(q, u)
    <2>. SUFFICES ASSUME NEW u \in Tasks
                  PROVE  st[u] = "waiting" <=> InQueue(q, u)
        OBVIOUS
    <2>1. CASE u = t
        BY <2>1, <1>1, <1>2 DEF InQueue
    <2>2. CASE u # t
        <3>1. InQueue(q, u) <=> InQueue(queue, u)
            BY <2>2, <1>1 DEF InQueue
        <3>. QED BY <2>2, <3>1, <1>2 DEF IInv, Core
    <2>. QED BY <2>1, <2>2
<1>5. \A i, j \in 1..Len(q) : q[i] = q[j] => i = j
    BY <1>1, <1>3 DEF IInv, Core, InQueue
<1>6. running = Cardinality(RunningIn(st)) /\ running <= Concurrency
    <2>1. RunningIn(st) = RunningIn(status)
        BY <1>2 DEF RunningIn
    <2>. QED BY <2>1 DEF IInv, Core
<1>7. Executed(st, executed)
    BY <1>2 DEF IInv, Executed
<1>8. Len(q) <= 1 \/ running >= Concurrency - 1
    BY <1>1, EmptySeq DEF IInv, WorkConserving
<1>9. Len(q) <= MaxSize /\ running \in Int
    BY <1>1, <1>2 DEF IInv, Core
<1>. HIDE DEF q, st
<1>10. Core(q, running, st)
    BY <1>1, <1>2, <1>4, <1>5, <1>6, <1>9 DEF Core
<1>. QED BY <1>7, <1>8, <1>10 DEF q, st

LEMMA CompletePrepares ==
    ASSUME NEW t \in Tasks, NEW s \in {"fulfilled", "failed"}, IInv, status[t] = "running"
    PROVE  LET st == [status EXCEPT ![t] = s]
           IN /\ Core(queue, running - 1, st) /\ Executed(st, executed)
              /\ Len(queue) <= 1 \/ running - 1 >= Concurrency - 1
<1>. DEFINE st == [status EXCEPT ![t] = s]
<1>. USE QueueAssumption
<1>1. /\ status \in [Tasks -> Status] /\ st \in [Tasks -> Status] /\ running \in Int
      /\ queue \in Seq(Tasks) /\ Len(queue) \in Nat
    BY DEF IInv, Core, Status
<1>2. Cardinality(RunningIn(st)) = running - 1
    BY <1>1, RunningShrinks DEF IInv, Core, Status
<1>3. Core(queue, running - 1, st)
    BY <1>1, <1>2 DEF IInv, Core
<1>4. Executed(st, executed)
    BY <1>1 DEF IInv, Executed
<1>5. Len(queue) <= 1 \/ running - 1 >= Concurrency - 1
    BY <1>1, EmptySeq DEF IInv, WorkConserving
<1>. QED BY <1>3, <1>4, <1>5

LEMMA StepIInv == IInv /\ [QueueNext]_queueVars => IInv'
<1>. SUFFICES ASSUME IInv, [QueueNext]_queueVars PROVE IInv'
    OBVIOUS
<1>1. ASSUME NEW t \in Tasks, Add(t) PROVE IInv'
    <2>1. Process(Append(queue, t), running, [status EXCEPT ![t] = "waiting"])
        BY <1>1 DEF Add
    <2>. QED BY <1>1, <2>1, AddPrepares, ProcessKeepsCore
<1>2. ASSUME NEW t \in Tasks, NEW s \in {"fulfilled", "failed"}, Complete(t, s) PROVE IInv'
    <2>1. /\ status[t] = "running"
          /\ Process(queue, running - 1, [status EXCEPT ![t] = s])
        BY <1>2 DEF Complete
    <2>. QED BY <2>1, CompletePrepares, ProcessKeepsCore
<1>3. ASSUME NEW t \in Tasks, Refuse(t) PROVE IInv'
    <2>1. /\ status' = [status EXCEPT ![t] = "refused"] /\ status[t] = "new"
          /\ status \in [Tasks -> Status] /\ status' \in [Tasks -> Status]
        BY <1>3 DEF Refuse, IInv, Core, Status
    <2>2. RunningIn(status') = RunningIn(status)
        BY <2>1 DEF RunningIn
    <2>3. Core(queue', running', status')
        BY <1>3, <2>1, <2>2 DEF Refuse, IInv, Core
    <2>. QED BY <1>3, <2>1, <2>3 DEF Refuse, IInv, WorkConserving, Executed
<1>4. ASSUME Clear PROVE IInv'
    <2>1. /\ status' = [t \in Tasks |-> IF InQueue(queue, t) THEN "cleared" ELSE status[t]]
          /\ status \in [Tasks -> Status] /\ queue' = <<>> /\ running' = running
        BY <1>4 DEF Clear, IInv, Core, InQueue
    <2>2. RunningIn(status') = RunningIn(status) /\ status' \in [Tasks -> Status]
        BY <2>1 DEF RunningIn, IInv, Core, Status
    <2>3. Len(queue') = 0 /\ queue' \in Seq(Tasks)
        BY <2>1
    <2>4. Core(queue', running', status')
        BY <2>1, <2>2, <2>3, QueueAssumption DEF IInv, Core, InQueue
    <2>. QED BY <1>4, <2>1, <2>2, <2>4 DEF Clear, IInv, WorkConserving, Executed
<1>5. ASSUME UNCHANGED queueVars PROVE IInv'
    BY <1>5 DEF queueVars, IInv, WorkConserving, Core, Executed
<1>. QED BY <1>1, <1>2, <1>3, <1>4, <1>5 DEF QueueNext, AtRest

(* The inductive invariant holds throughout. *)
THEOREM QueueInvariant == QueueSpec => []IInv
<1>1. QueueInit => IInv
    BY InitIInv
<1>2. IInv /\ [QueueNext]_queueVars => IInv'
    BY StepIInv
<1>. QED BY <1>1, <1>2, PTL DEF QueueSpec

(* The variables keep their types, for any number of tasks and any sizes. *)
THEOREM TypeCorrect == QueueSpec => []QueueTypeOK
<1>1. ASSUME IInv PROVE QueueTypeOK
    <2>1. running = Cardinality(RunningIn(status)) /\ RunningIn(status) \subseteq Tasks
        BY <1>1 DEF IInv, Core, RunningIn
    <2>2. running \in Nat
        BY <2>1, QueueAssumption, FS_Subset, FS_CardinalityType
    <2>. QED BY <1>1, <2>2 DEF IInv, Core, Executed, QueueTypeOK
<1>. QED BY <1>1, QueueInvariant, PTL

(* The counter _running counts the running tasks and stays in its bound. *)
THEOREM SlotsAreAccounted == QueueSpec => []SlotsAccounted
<1>1. IInv => SlotsAccounted
    BY DEF IInv, Core, SlotsAccounted, Running, RunningIn
<1>. QED BY <1>1, QueueInvariant, PTL

(* The queue holds each waiting task exactly once and stays in its bound. *)
THEOREM QueueIsExact == QueueSpec => []QueueExact
<1>1. IInv => QueueExact
    BY DEF IInv, Core, QueueExact, InQueue, Waiting
<1>. QED BY <1>1, QueueInvariant, PTL

(* No slot idles next to a waiting task. *)
THEOREM NoSlotIdles == QueueSpec => []WorkConserving
<1>1. IInv => WorkConserving
    BY DEF IInv
<1>. QED BY <1>1, QueueInvariant, PTL

(* The queue has as many entries as there are waiting tasks. *)
LEMMA WaitingCounted == ASSUME IInv PROVE Cardinality(Waiting) = Len(queue)
<1>1. /\ queue \in Seq(Tasks) /\ Len(queue) \in Nat
      /\ queue \in [1..Len(queue) -> Tasks]
    BY LenProperties DEF IInv, Core
<1>2. \A i \in 1..Len(queue) : queue[i] \in Waiting
    BY <1>1 DEF IInv, Core, InQueue, Waiting
<1>3. queue \in [1..Len(queue) -> Waiting]
    BY <1>1, <1>2
<1>4. \A i, j \in 1..Len(queue) : queue[i] = queue[j] => i = j
    BY DEF IInv, Core
<1>5. \A t \in Waiting : \E i \in 1..Len(queue) : queue[i] = t
    BY DEF IInv, Core, InQueue, Waiting
<1>6. queue \in Bijection(1..Len(queue), Waiting)
    BY <1>3, <1>4, <1>5, Fun_IsBij
<1>7. ExistsBijection(1..Len(queue), Waiting)
    BY <1>6 DEF ExistsBijection
<1>. QED BY <1>1, <1>7, FS_CountingElements

(* A task is refused only when every slot is taken and MaxSize tasks wait. *)
THEOREM RefusalMeansFull == QueueSpec => RefusedOnlyWhenFull
<1>. DEFINE OnlyFull == \A t \in Tasks : (status[t] # "refused" /\ status'[t] = "refused") =>
                            /\ Cardinality(Running) = Concurrency
                            /\ Cardinality(Waiting) = MaxSize
<1>1. IInv /\ [QueueNext]_queueVars => [OnlyFull]_queueVars
    <2>. SUFFICES ASSUME IInv, QueueNext,
                         NEW t \in Tasks, status[t] # "refused", status'[t] = "refused"
                  PROVE  /\ Cardinality(Running) = Concurrency
                         /\ Cardinality(Waiting) = MaxSize
        OBVIOUS
    <2>0. status \in [Tasks -> Status]
        BY DEF IInv, Core
    <2>1. ASSUME NEW q, NEW r, NEW st, Process(q, r, st), st[t] # "refused" PROVE FALSE
        BY <2>1 DEF Process
    <2>2. PICK u \in Tasks : Refuse(u)
        <3>1. ASSUME NEW u \in Tasks, Add(u) PROVE FALSE
            <4>. DEFINE st == [status EXCEPT ![u] = "waiting"]
            <4>1. st[t] # "refused" /\ Process(Append(queue, u), running, st)
                BY <2>0, <3>1 DEF Add
            <4>. HIDE DEF st
            <4>. QED BY <2>1, <4>1
        <3>2. ASSUME NEW u \in Tasks, NEW s \in {"fulfilled", "failed"}, Complete(u, s) PROVE FALSE
            <4>. DEFINE st == [status EXCEPT ![u] = s]
            <4>1. st[t] # "refused" /\ Process(queue, running - 1, st)
                BY <2>0, <3>2 DEF Complete
            <4>. HIDE DEF st
            <4>. QED BY <2>1, <4>1
        <3>3. ASSUME Clear PROVE FALSE
            BY <3>3 DEF Clear
        <3>4. ~AtRest
            BY DEF AtRest, queueVars
        <3>. QED BY <3>1, <3>2, <3>3, <3>4 DEF QueueNext
    <2>3. Len(queue) >= MaxSize /\ queue \in Seq(Tasks) /\ Len(queue) \in Nat /\ Len(queue) <= MaxSize
        BY <2>2 DEF Refuse, IInv, Core
    <2>4. queue # <<>>
        BY <2>3, EmptySeq, QueueAssumption
    <2>5. Cardinality(Running) = Concurrency
        BY <2>4 DEF IInv, WorkConserving, Core, Running, RunningIn
    <2>. QED BY <2>3, <2>5, WaitingCounted, QueueAssumption
<1>. QED BY <1>1, QueueInvariant, PTL DEF QueueSpec, RefusedOnlyWhenFull

(* The loop of process() passes nobody in the queue but the head. *)
LEMMA OnlyHeadStarts ==
    ASSUME NEW q, NEW r, NEW st, Core(q, r, st), Executed(st, executed),
           Len(q) <= 1 \/ r >= Concurrency - 1,
           Process(q, r, st), NEW j \in 2..Len(q)
    PROVE  status'[q[j]] # "running"
<1>1. /\ q \in Seq(Tasks) /\ r \in Int /\ st \in [Tasks -> Status]
      /\ executed \in [Tasks -> Nat] /\ r <= Concurrency /\ Len(q) \in Nat
    BY DEF Core, Executed
<1>2. /\ 1 \in 1..Len(q) /\ j \in 1..Len(q) /\ q[j] \in Tasks
      /\ q[j] # q[1] /\ st[q[j]] = "waiting"
    BY <1>1 DEF Core, InQueue
<1>3. \/ status' = st
      \/ q[1] \in Tasks /\ status' = [st EXCEPT ![q[1]] = "running"]
    BY <1>1, ProcessStartsAtMostOne
<1>. QED BY <1>1, <1>2, <1>3

(* BoundedQueue.process: tasks start in the order they were added, whichever *)
(* of the running ones ends first.                                           *)
THEOREM TasksStartInOrder == QueueSpec => StartsInOrder
<1>. DEFINE HeadFirst == \A i, j \in 1..Len(queue) :
                (i < j /\ status'[queue[j]] = "running") => status'[queue[i]] = "running"
<1>1. IInv /\ [QueueNext]_queueVars => [HeadFirst]_queueVars
    <2>. SUFFICES ASSUME IInv, QueueNext, NEW j \in 2..Len(queue), status'[queue[j]] = "running"
                  PROVE  FALSE
        BY DEF IInv, Core
    <2>0. /\ queue \in Seq(Tasks) /\ Len(queue) \in Nat /\ status \in [Tasks -> Status]
          /\ queue[j] \in Tasks /\ status[queue[j]] = "waiting"
        BY DEF IInv, Core, InQueue
    <2>1. ASSUME NEW u \in Tasks, Add(u) PROVE FALSE
        <3>. DEFINE q  == Append(queue, u)
                    st == [status EXCEPT ![u] = "waiting"]
        <3>1. /\ Process(q, running, st) /\ Core(q, running, st) /\ Executed(st, executed)
              /\ Len(q) <= 1 \/ running >= Concurrency - 1
            BY <2>1, AddPrepares DEF Add
        <3>2. j \in 2..Len(q) /\ q[j] = queue[j]
            BY <2>0
        <3>. HIDE DEF q, st
        <3>. QED BY <3>1, <3>2, OnlyHeadStarts
    <2>2. ASSUME NEW u \in Tasks, NEW s \in {"fulfilled", "failed"}, Complete(u, s) PROVE FALSE
        <3>. DEFINE st == [status EXCEPT ![u] = s]
        <3>1. /\ Process(queue, running - 1, st) /\ Core(queue, running - 1, st)
              /\ Executed(st, executed)
              /\ Len(queue) <= 1 \/ running - 1 >= Concurrency - 1
            BY <2>2, CompletePrepares DEF Complete
        <3>. HIDE DEF st
        <3>. QED BY <3>1, OnlyHeadStarts
    <2>3. ASSUME NEW u \in Tasks, Refuse(u) PROVE FALSE
        BY <2>0, <2>3 DEF Refuse
    <2>4. ASSUME Clear PROVE FALSE
        BY <2>0, <2>4 DEF Clear
    <2>5. ~AtRest
        BY <2>0 DEF AtRest, queueVars
    <2>. QED BY <2>1, <2>2, <2>3, <2>4, <2>5 DEF QueueNext
<1>. QED BY <1>1, QueueInvariant, PTL DEF QueueSpec, StartsInOrder

-----------------------------------------------------------------------------
(***************************************************************************)
(* BoundedQueue implements TaskPool.                                       *)
(***************************************************************************)
LEMMA StepImplements == IInv /\ IInv' /\ [QueueNext]_queueVars => [Pool!PoolNext]_(Pool!poolVars)
<1>. SUFFICES ASSUME IInv, IInv', [QueueNext]_queueVars
              PROVE  Pool!PoolNext \/ UNCHANGED Pool!poolVars
    OBVIOUS
<1>. DEFINE Moves(t) == \/ Pool!Rest(t) \/ Pool!Accept(t) \/ Pool!Drop(t)
                        \/ Pool!Begin(t) \/ Pool!Yield(t) \/ Pool!Settle(t)
<1>0. /\ status \in [Tasks -> Status] /\ status' \in [Tasks -> Status]
      /\ executed \in [Tasks -> Nat]
      /\ \A u \in Tasks : status[u] \in {"new", "waiting"} => executed[u] = 0
    BY DEF IInv, Core, Executed
<1>1. Cardinality({t \in Tasks : [u \in Tasks |-> PhaseOf(status[u])]'[t] = "active"})
          <= Concurrency
    <2>1. {t \in Tasks : [u \in Tasks |-> PhaseOf(status[u])]'[t] = "active"} = RunningIn(status')
        BY <1>0 DEF PhaseOf, RunningIn, Status
    <2>. QED BY <2>1 DEF IInv, Core
<1>2. ASSUME \A u \in Tasks : Moves(u) PROVE Pool!PoolNext
    <2>1. \A S : Pool!Cardinality(S) = Cardinality(S)
        BY Zenon DEF Pool!Cardinality, Cardinality
    <2>. QED BY <1>1, <1>2, <2>1, Zenon DEF Pool!PoolNext
<1>3. ASSUME NEW q, NEW r, NEW st, Process(q, r, st), Core(q, r, st),
             Len(q) <= 1 \/ r >= Concurrency - 1,
             \A u \in Tasks : \/ st[u] = status[u]
                              \/ (st[u] = "waiting" /\ status[u] = "new")
                              \/ (st[u] \in {"fulfilled", "failed"} /\ status[u] = "running")
      PROVE  \A u \in Tasks : Moves(u)
    <2>. TAKE u \in Tasks
    <2>0. q \in Seq(Tasks) /\ r \in Int /\ st \in [Tasks -> Status] /\ r <= Concurrency
        BY <1>3 DEF Core
    <2>1. ASSUME status'[u] = st[u], executed'[u] = executed[u] PROVE Moves(u)
        <3>1. CASE st[u] = status[u]
            BY <2>1, <3>1 DEF Pool!Rest
        <3>2. CASE st[u] = "waiting" /\ status[u] = "new"
            BY <2>1, <3>2 DEF Pool!Accept, PhaseOf
        <3>3. CASE st[u] \in {"fulfilled", "failed"} /\ status[u] = "running"
            BY <2>1, <3>3 DEF Pool!Settle, PhaseOf
        <3>. QED BY <1>3, <3>1, <3>2, <3>3
    <2>2. CASE status' = st /\ executed' = executed
        BY <2>1, <2>2
    <2>3. CASE /\ q # <<>> /\ q[1] \in Tasks
               /\ status' = [st EXCEPT ![q[1]] = "running"]
               /\ executed' = [executed EXCEPT ![q[1]] = @ + 1]
        <3>1. CASE u = q[1]
            <4>1. 1 \in 1..Len(q)
                BY <2>0, <2>3, EmptySeq
            <4>2. st[u] = "waiting"
                BY <1>3, <3>1, <4>1 DEF Core, InQueue
            <4>3. status[u] \in {"new", "waiting"}
                BY <1>3, <4>2
            <4>4. status'[u] = "running" /\ executed[u] = 0 /\ executed'[u] = 1
                BY <1>0, <2>0, <2>3, <3>1, <4>3
            <4>. QED BY <4>3, <4>4 DEF Pool!Begin, PhaseOf
        <3>2. CASE u # q[1]
            BY <1>0, <2>0, <2>1, <2>3, <3>2
        <3>. QED BY <3>1, <3>2
    <2>. QED BY <1>0, <1>3, <2>0, <2>2, <2>3, ProcessStartsAtMostOne
<1>4. ASSUME NEW t \in Tasks, Add(t) PROVE Pool!PoolNext
    <2>. DEFINE q  == Append(queue, t)
                st == [status EXCEPT ![t] = "waiting"]
    <2>1. Process(q, running, st)
        BY <1>4 DEF Add
    <2>2. Core(q, running, st) /\ (Len(q) <= 1 \/ running >= Concurrency - 1)
        BY <1>4, AddPrepares
    <2>3. \A u \in Tasks : st[u] = status[u] \/ (st[u] = "waiting" /\ status[u] = "new")
        BY <1>0, <1>4 DEF Add
    <2>4. \A u \in Tasks : Moves(u)
        <3>. HIDE DEF q, st, Moves
        <3>. QED BY <1>3, <2>1, <2>2, <2>3
    <2>. QED BY <1>2, <2>4
<1>5. ASSUME NEW t \in Tasks, NEW s \in {"fulfilled", "failed"}, Complete(t, s) PROVE Pool!PoolNext
    <2>. DEFINE st == [status EXCEPT ![t] = s]
    <2>1. status[t] = "running" /\ Process(queue, running - 1, st)
        BY <1>5 DEF Complete
    <2>2. Core(queue, running - 1, st) /\ (Len(queue) <= 1 \/ running - 1 >= Concurrency - 1)
        BY <2>1, CompletePrepares
    <2>3. \A u \in Tasks : \/ st[u] = status[u]
                           \/ (st[u] \in {"fulfilled", "failed"} /\ status[u] = "running")
        BY <1>0, <2>1
    <2>4. \A u \in Tasks : Moves(u)
        <3>. HIDE DEF st, Moves
        <3>. QED BY <1>3, <2>1, <2>2, <2>3
    <2>. QED BY <1>2, <2>4
<1>6. ASSUME NEW t \in Tasks, Refuse(t) PROVE Pool!PoolNext
    <2>1. ASSUME NEW u \in Tasks PROVE Moves(u)
        <3>1. executed'[u] = executed[u]
            BY <1>6 DEF Refuse
        <3>2. CASE u = t
            <4>1. status[u] = "new" /\ status'[u] = "refused"
                BY <1>0, <1>6, <3>2 DEF Refuse
            <4>. QED BY <3>1, <4>1 DEF Pool!Drop, PhaseOf
        <3>3. CASE u # t
            <4>1. status'[u] = status[u]
                BY <1>0, <1>6, <3>3 DEF Refuse
            <4>. QED BY <3>1, <4>1 DEF Pool!Rest
        <3>. QED BY <3>2, <3>3
    <2>. QED BY <1>2, <2>1
<1>7. ASSUME Clear PROVE Pool!PoolNext
    <2>1. ASSUME NEW u \in Tasks PROVE Moves(u)
        <3>1. executed'[u] = executed[u]
            BY <1>7 DEF Clear
        <3>2. CASE InQueue(queue, u)
            <4>1. status[u] = "waiting" /\ status'[u] = "cleared"
                BY <1>7, <3>2 DEF Clear, InQueue, IInv, Core
            <4>. QED BY <3>1, <4>1 DEF Pool!Drop, PhaseOf
        <3>3. CASE ~InQueue(queue, u)
            <4>1. status'[u] = status[u]
                BY <1>7, <3>3 DEF Clear, InQueue
            <4>. QED BY <3>1, <4>1 DEF Pool!Rest
        <3>. QED BY <3>2, <3>3
    <2>. QED BY <1>2, <2>1
<1>8. ASSUME UNCHANGED queueVars PROVE UNCHANGED Pool!poolVars
    BY <1>8 DEF queueVars, Pool!poolVars
<1>. QED BY <1>4, <1>5, <1>6, <1>7, <1>8 DEF QueueNext, AtRest

(* Every behaviour of the queue is one a task pool may show: bounded slots, *)
(* at most one call per task, and a promise that settles once and for good. *)
THEOREM QueueImplementsPool == QueueSpec => ImplementsPool
<1>1. QueueInit => Pool!PoolInit
    BY DEF QueueInit, Pool!PoolInit, PhaseOf
<1>2. IInv /\ IInv' /\ [QueueNext]_queueVars => [Pool!PoolNext]_(Pool!poolVars)
    BY StepImplements
<1>. QED BY <1>1, <1>2, QueueInvariant, PTL DEF QueueSpec, ImplementsPool, Pool!PoolSpec

(* The count, the list and the statuses of the tasks agree at every moment. *)
THEOREM QueueIsSound == QueueSpec => []QueueSound
BY TypeCorrect, SlotsAreAccounted, QueueIsExact, NoSlotIdles, PTL DEF QueueSound

-----------------------------------------------------------------------------
(* The middleware. *)

LEMMA StepUsesQueue == [Next]_vars => [QueueNext]_queueVars
<1>1. ASSUME NEW r \in Tasks, Admit(r) PROVE QueueNext
    BY <1>1 DEF Admit, QueueNext
<1>2. ASSUME NEW r \in Tasks, Overloaded(r) PROVE QueueNext
    BY <1>2 DEF Overloaded, QueueNext
<1>3. ASSUME NEW r \in Tasks, Answer(r) \/ LeaveRunning(r) PROVE QueueNext
    BY <1>3 DEF Answer, LeaveRunning, QueueNext
<1>4. ASSUME NEW r \in Tasks, AnswerNobody(r) \/ LeaveWaiting(r) PROVE UNCHANGED queueVars
    BY <1>4 DEF AnswerNobody, LeaveWaiting, queueVars
<1>5. Quiet \/ UNCHANGED vars => UNCHANGED queueVars
    BY DEF Quiet, vars, queueVars
<1>. QED BY <1>1, <1>2, <1>3, <1>4, <1>5 DEF Next

(* BackpressureMiddleware.concurrencyLimiter is a client of BoundedQueue    *)
(* that keeps to add() and to the end of its tasks.                         *)
THEOREM MiddlewareUsesQueue == Spec => QueueSpec
<1>1. Init => QueueInit
    BY DEF Init
<1>. QED BY <1>1, StepUsesQueue, PTL DEF Spec, QueueSpec

(* So the slots, the list and the statuses agree under HTTP requests that   *)
(* come, are answered, and whose clients leave, in any order.               *)
THEOREM RequestsAreAccounted == Spec => []QueueSound
BY MiddlewareUsesQueue, QueueIsSound, PTL

(* A request is answered with 503 only under full load. *)
THEOREM OverloadMeansFull == Spec => RefusedOnlyWhenFull
BY MiddlewareUsesQueue, RefusalMeansFull, PTL

(* Requests that wait are started in the order they came. *)
THEOREM RequestsStartInOrder == Spec => StartsInOrder
BY MiddlewareUsesQueue, TasksStartInOrder, PTL

(* The queue under the middleware is a task pool. *)
THEOREM MiddlewareImplementsPool == Spec => ImplementsPool
BY MiddlewareUsesQueue, QueueImplementsPool, PTL
-----------------------------------------------------------------------------
(* What a status of the queue says of the response and the handlers. *)
Agrees(r) ==
    /\ conn[r] = "none" => status[r] = "new"
    /\ status[r] = "new" => conn[r] = "none" /\ handler[r] = "idle"
    /\ status[r] = "waiting" => /\ conn[r] = "open" \/ (conn[r] = "closed" /\ r \in Impatient)
                                /\ handler[r] = "idle"
    /\ status[r] = "running" =>
           \/ conn[r] = "open" /\ handler[r] = "executing"
           \/ conn[r] = "closed" /\ r \in Impatient /\ handler[r] \in {"executing", "done"}
    /\ status[r] = "fulfilled" =>
           \/ conn[r] = "answered" /\ handler[r] = "done"
           \/ conn[r] = "closed" /\ handler[r] \in {"executing", "done"}
    /\ status[r] = "refused" => conn[r] = "answered" /\ handler[r] = "idle"
    /\ status[r] \notin {"failed", "cleared"}

HInv ==
    /\ conn \in [Tasks -> {"none", "open", "answered", "closed"}]
    /\ handler \in [Tasks -> {"idle", "executing", "done"}]
    /\ \A r \in Tasks : Agrees(r)

(* process() changes nothing of a status but that waiting tasks start. *)
LEMMA OnlyWaitingStart ==
    ASSUME NEW q, NEW r, NEW st, Core(q, r, st), Executed(st, executed),
           Len(q) <= 1 \/ r >= Concurrency - 1,
           Process(q, r, st), NEW u \in Tasks
    PROVE  status'[u] = st[u] \/ (st[u] = "waiting" /\ status'[u] = "running")
<1>1. /\ q \in Seq(Tasks) /\ r \in Int /\ st \in [Tasks -> Status]
      /\ executed \in [Tasks -> Nat] /\ r <= Concurrency /\ Len(q) \in Nat
    BY DEF Core, Executed
<1>2. \/ status' = st
      \/ q # <<>> /\ q[1] \in Tasks /\ status' = [st EXCEPT ![q[1]] = "running"]
    BY <1>1, ProcessStartsAtMostOne
<1>3. q # <<>> /\ q[1] \in Tasks => st[q[1]] = "waiting"
    <2>. SUFFICES ASSUME q # <<>>, q[1] \in Tasks PROVE st[q[1]] = "waiting"
        OBVIOUS
    <2>1. 1 \in 1..Len(q)
        BY <1>1
    <2>. QED BY <2>1 DEF Core, InQueue
<1>. QED BY <1>1, <1>2, <1>3

LEMMA AdmitAgrees ==
    ASSUME IInv, HInv, NEW r \in Tasks, Admit(r) PROVE HInv'
<1>. DEFINE st == [status EXCEPT ![r] = "waiting"]
<1>1. \A u \in Tasks : status'[u] = st[u] \/ (st[u] = "waiting" /\ status'[u] = "running")
    <2>. DEFINE q == Append(queue, r)
    <2>1. Add(r) /\ Process(q, running, st)
        BY DEF Admit, Add
    <2>2. /\ Core(q, running, st) /\ Executed(st, executed)
          /\ Len(q) <= 1 \/ running >= Concurrency - 1
        BY <2>1, AddPrepares
    <2>. HIDE DEF st, q
    <2>. QED BY <2>1, <2>2, OnlyWaitingStart
<1>2. status \in [Tasks -> Status] /\ status[r] = "new"
    BY DEF IInv, Core, Admit, Add
<1>3. /\ conn' = [conn EXCEPT ![r] = "open"]
      /\ handler' = [u \in Tasks |-> IF status[u] # "running" /\ status'[u] = "running"
                                     THEN "executing" ELSE handler[u]]
    BY DEF Admit, HandlersAfter
<1>4. ASSUME NEW u \in Tasks PROVE Agrees(u)'
    BY <1>1, <1>2, <1>3 DEF HInv, Agrees
<1>. QED BY <1>3, <1>4 DEF HInv

LEMMA EndAgrees ==
    ASSUME IInv, HInv, NEW r \in Tasks, Answer(r) \/ LeaveRunning(r) PROVE HInv'
<1>. DEFINE st == [status EXCEPT ![r] = "fulfilled"]
<1>0. Complete(r, "fulfilled") /\ status[r] = "running"
    BY DEF Answer, LeaveRunning, Complete
<1>1. \A u \in Tasks : status'[u] = st[u] \/ (st[u] = "waiting" /\ status'[u] = "running")
    <2>1. Process(queue, running - 1, st)
        BY <1>0 DEF Complete
    <2>2. /\ Core(queue, running - 1, st) /\ Executed(st, executed)
          /\ Len(queue) <= 1 \/ running - 1 >= Concurrency - 1
        BY <1>0, CompletePrepares
    <2>. HIDE DEF st
    <2>. QED BY <2>1, <2>2, OnlyWaitingStart
<1>2. status \in [Tasks -> Status]
    BY DEF IInv, Core
<1>3. ASSUME NEW D, D \subseteq {r}, handler' = HandlersAfter(D), conn[r] = "open",
             \/ conn' = [conn EXCEPT ![r] = "answered"] /\ D = {r}
             \/ conn' = [conn EXCEPT ![r] = "closed"] /\ D = {}
      PROVE  HInv'
    <2>1. handler' = [u \in Tasks |-> IF u \in D THEN "done"
                                      ELSE IF status[u] # "running" /\ status'[u] = "running"
                                      THEN "executing" ELSE handler[u]]
        BY <1>3 DEF HandlersAfter
    <2>2. ASSUME NEW u \in Tasks, u # r PROVE Agrees(u)'
        BY <1>1, <1>2, <1>3, <2>1, <2>2 DEF HInv, Agrees
    <2>3. Agrees(r)'
        BY <1>0, <1>1, <1>2, <1>3, <2>1 DEF HInv, Agrees
    <2>. QED BY <1>3, <2>1, <2>2, <2>3 DEF HInv
<1>4. CASE Answer(r)
    <2>1. /\ handler' = HandlersAfter({r}) /\ conn[r] = "open"
          /\ conn' = [conn EXCEPT ![r] = "answered"]
        BY <1>4 DEF Answer
    <2>. HIDE DEF st
    <2>. QED BY <1>3, <2>1
<1>5. CASE LeaveRunning(r)
    <2>1. /\ handler' = HandlersAfter({}) /\ conn[r] = "open"
          /\ conn' = [conn EXCEPT ![r] = "closed"]
        BY <1>5 DEF LeaveRunning
    <2>. HIDE DEF st
    <2>. QED BY <1>3, <2>1
<1>. QED BY <1>4, <1>5

LEMMA HNext == IInv /\ HInv /\ [Next]_vars => HInv'
<1>. SUFFICES ASSUME IInv, HInv, [Next]_vars PROVE HInv'
    OBVIOUS
<1>0. status \in [Tasks -> Status]
    BY DEF IInv, Core
<1>1. ASSUME NEW r \in Tasks, Overloaded(r) PROVE HInv'
    BY <1>0, <1>1 DEF Overloaded, Refuse, HInv, Agrees
<1>2. ASSUME NEW r \in Tasks, AnswerNobody(r) PROVE HInv'
    BY <1>0, <1>2 DEF AnswerNobody, queueVars, HInv, Agrees
<1>3. ASSUME NEW r \in Tasks, LeaveWaiting(r) PROVE HInv'
    BY <1>0, <1>3 DEF LeaveWaiting, queueVars, HInv, Agrees
<1>4. Quiet \/ UNCHANGED vars => HInv'
    BY DEF Quiet, vars, HInv, Agrees
<1>. QED BY <1>1, <1>2, <1>3, <1>4, AdmitAgrees, EndAgrees DEF Next

(* BackpressureMiddleware: a slot is lost only to a client that left while  *)
(* its request waited, 'finish' and 'close' free it once, and no more than  *)
(* Concurrency clients are served at a time.                                *)
THEOREM SlotsAreLostOnlyToLeavers == Spec => []SlotsLostOnlyToLeavers
<1>1. Init => HInv
    BY DEF Init, QueueInit, HInv, Agrees
<1>2. IInv /\ HInv /\ QueueSound => SlotsLostOnlyToLeavers
    <2>. SUFFICES ASSUME IInv, HInv, QueueSound PROVE SlotsLostOnlyToLeavers
        OBVIOUS
    <2>. DEFINE Served == {r \in Tasks : handler[r] = "executing" /\ conn[r] = "open"}
    <2>1. Served \subseteq Running
        BY DEF HInv, Agrees, Running, QueueSound, QueueTypeOK, Status
    <2>2. IsFiniteSet(Running)
        BY QueueAssumption, FS_Subset DEF Running
    <2>3. Cardinality(Served) <= Cardinality(Running) /\ Cardinality(Served) \in Nat
        BY <2>1, <2>2, FS_Subset, FS_CardinalityType
    <2>4. Cardinality(Served) <= Concurrency
        BY <2>2, <2>3, FS_CardinalityType, QueueAssumption DEF QueueSound, SlotsAccounted
    <2>. QED BY <2>4 DEF SlotsLostOnlyToLeavers, TypeOK, HInv, Agrees, QueueSound
<1>3. Spec => []IInv
    BY MiddlewareUsesQueue, QueueInvariant, PTL
<1>. QED BY <1>1, <1>2, <1>3, HNext, RequestsAreAccounted, PTL DEF Spec
=============================================================================
