-------------------------- MODULE DispatcherProofs --------------------------
(***************************************************************************)
(* What holds of the dispatcher for any number of threads, tasks and any   *)
(* delays: the type invariant, the exactness of scheduledTasksRef, that a  *)
(* stopped event never starts again, that serial events run alone, that    *)
(* every task is in one place, and that a serial event overtakes another   *)
(* within a batch only.                                                    *)
(***************************************************************************)
EXTENDS Dispatcher, ListsProofs, FiniteSetTheorems, SequenceTheorems, TLAPS

-----------------------------------------------------------------------------
(* Sequences. *)

\* A queue of tasks is also a queue of more tasks.
LEMMA SeqMonotone ==
    ASSUME NEW S, NEW T, S \subseteq T, NEW s \in Seq(S)
    PROVE  s \in Seq(T)
<1>1. \A k \in 1..Len(s) : s[k] \in T
  OBVIOUS
<1> QED BY <1>1

\* Taking a task out of a batch leaves a batch of its other tasks.
LEMMA RemoveAtType ==
    ASSUME NEW S, NEW s \in Seq(S), NEW k \in 1..Len(s)
    PROVE  /\ RemoveAt(s, k) \in Seq(S)
           /\ \A j \in DOMAIN RemoveAt(s, k) :
                 \E i \in DOMAIN s : RemoveAt(s, k)[j] = s[i]
<1> DEFINE a == SubSeq(s, 1, k - 1)
           b == SubSeq(s, k + 1, Len(s))
<1>1. RemoveAt(s, k) = a \o b
  BY DEF RemoveAt
<1>2. /\ a \in Seq(S) /\ Len(a) = k - 1 /\ \A j \in 1..Len(a) : a[j] = s[j]
  BY SubSeqProperties
<1>3. b \in Seq(S) /\ Len(b) = Len(s) - k /\ \A j \in 1..Len(b) : b[j] = s[k + j]
  BY SubSeqProperties
<1> HIDE DEF a, b
<1>4. a \o b \in Seq(S) /\ Len(a \o b) = Len(a) + Len(b)
  BY <1>2, <1>3, ConcatProperties
<1>5. \A j \in 1..(Len(a) + Len(b)) :
          (a \o b)[j] = IF j <= Len(a) THEN a[j] ELSE b[j - Len(a)]
  BY <1>2, <1>3, ConcatProperties
<1>6. DOMAIN (a \o b) = 1..Len(a \o b)
  BY <1>4, LenProperties
<1>7. \A j \in 1..Len(a \o b) : \E i \in DOMAIN s : (a \o b)[j] = s[i]
  <2> TAKE j \in 1..Len(a \o b)
  <2>1. CASE j <= Len(a)
    <3>1. (a \o b)[j] = s[j] /\ j \in 1..Len(s)
      BY <1>2, <1>3, <1>4, <1>5, <2>1
    <3> QED BY <3>1
  <2>2. CASE j > Len(a)
    <3> DEFINE i == j - Len(a)
    <3>1. i \in 1..Len(b) /\ (a \o b)[j] = b[i]
      BY <1>2, <1>3, <1>4, <1>5, <2>2
    <3> HIDE DEF i
    <3>2. k + i \in DOMAIN s
      BY <1>3, <3>1, LenProperties
    <3>3. b[i] = s[k + i]
      BY <1>3, <3>1
    <3> QED BY <3>1, <3>2, <3>3
  <2> QED BY <1>2, <1>3, <2>1, <2>2
<1> QED BY <1>1, <1>4, <1>6, <1>7

-----------------------------------------------------------------------------
(* Steps that create a task, and the type invariant. *)

LEMMA TaskType ==
    ASSUME NEW kind \in TaskGroup \cup {"Scheduled"}, NEW t \in Threads,
           NEW delay \in Nat, NEW cycle \in BOOLEAN, NEW ms \in Nat
    PROVE  Task(kind, t, delay, cycle, ms) \in TaskRecord
BY DEF Task, TaskRecord

\* A new task takes the next id and changes no other task.
LEMMA CreateStep ==
    ASSUME TypeOK, NEW r \in TaskRecord, Create(r)
    PROVE  /\ Ids = 1..Len(task) /\ NewId \in Nat \ {0} /\ NewId \notin Ids
           /\ task' \in Seq(TaskRecord) /\ Ids' = Ids \cup {NewId}
           /\ task'[NewId] = r
           /\ \A i \in Ids : task'[i] = task[i]
BY DEF TypeOK, Create, NewId, Ids

\* What is typed by the old ids is typed by more ids.
LEMMA MoreIds ==
    ASSUME TypeOK, Ids \subseteq Ids'
    PROVE  /\ done \subseteq Ids' /\ stopAsked \subseteq Ids' /\ ref \subseteq Ids'
           /\ posted \in [Threads -> [TaskGroup -> Seq(Ids')]]
           /\ postedSched \in [Threads -> SUBSET Ids']
           /\ mtasks \in [TaskGroup -> Seq(Ids')]
           /\ sched \subseteq Ids'
           /\ running \in [Threads -> Ids' \cup {0}]
<1>1. ASSUME NEW s \in Seq(Ids) PROVE s \in Seq(Ids')
  BY SeqMonotone
<1>2. posted \in [Threads -> [TaskGroup -> Seq(Ids')]]
  BY <1>1 DEF TypeOK
<1>3. mtasks \in [TaskGroup -> Seq(Ids')]
  BY <1>1 DEF TypeOK
<1> QED BY <1>2, <1>3 DEF TypeOK

LEMMA TypeInit == Init => TypeOK
<1> SUFFICES ASSUME Init PROVE TypeOK
  OBVIOUS
<1> USE ThreadsAssumption, TasksAssumption
<1>1. EmptyQueues \in [TaskGroup -> Seq(Ids)]
  BY DEF EmptyQueues
<1>2. task \in Seq(TaskRecord)
  <2> DEFINE beat == Task("Scheduled", Main, BeatDelay, TRUE, 0)
  <2>1. beat \in TaskRecord
    BY TaskType
  <2>2. task = [i \in 1..NumBeats |-> beat]
    BY DEF Init
  <2> HIDE DEF beat
  <2>3. task \in [1..NumBeats -> TaskRecord]
    BY <2>1, <2>2
  <2> QED BY <2>3
<1>3. Ids = 1..NumBeats
  BY DEF Init, Ids
<1>4. pc \in Phases
  BY DEF Init, Phases, After
<1>5. merging \in Threads
  BY DEF Init, Threads
<1>6. posted \in [Threads -> [TaskGroup -> Seq(Ids)]] /\ mtasks \in [TaskGroup -> Seq(Ids)]
  BY <1>1 DEF Init
<1>7. /\ done \subseteq Ids /\ stopAsked \subseteq Ids /\ ref \subseteq Ids /\ sched \subseteq Ids
      /\ postedSched \in [Threads -> SUBSET Ids]
  BY <1>3 DEF Init
<1>8. running \in [Threads -> Ids \cup {0}]
  BY DEF Init
<1>9. /\ own \in Int /\ inline \subseteq Threads
      /\ halt \in {"no", "notified", "closed", "stopped"}
  BY DEF Init
<1>10. hasPending \in BOOLEAN /\ signalled \in BOOLEAN
  <2>1. (hasPending = FALSE) /\ (signalled = FALSE)
    BY DEF Init
  <2> QED BY <2>1
<1> QED BY <1>2, <1>4, <1>5, <1>6, <1>7, <1>8, <1>9, <1>10 DEF TypeOK

LEMMA TypePost ==
    ASSUME TypeOK, NEW t \in Threads, NEW g \in TaskGroup, NEW ms \in Nat,
           Post(t, g, ms)
    PROVE  TypeOK'
<1> DEFINE r == Task(g, t, 0, FALSE, ms)
<1>1. r \in TaskRecord
  BY TaskType
<1>2. Create(r)
  BY DEF Post
<1> HIDE DEF r
<1>3. NewId \in Ids' /\ Ids \subseteq Ids' /\ task' \in Seq(TaskRecord)
  BY <1>1, <1>2, CreateStep
<1>4. Append(posted[t][g], NewId) \in Seq(Ids')
  BY <1>3, MoreIds
<1>5. posted' \in [Threads -> [TaskGroup -> Seq(Ids')]]
  BY <1>3, <1>4, MoreIds DEF Post
<1> QED BY <1>3, <1>5, MoreIds DEF Post, Notify, TypeOK

LEMMA TypeSchedule ==
    ASSUME TypeOK, NEW t \in Threads, NEW d \in Nat, NEW c \in BOOLEAN,
           scheduleEvent(t, d, c)
    PROVE  TypeOK'
<1> DEFINE r == Task("Scheduled", t, d, c, 0)
<1>1. r \in TaskRecord
  BY TaskType
<1>2. Create(r)
  BY DEF scheduleEvent
<1> HIDE DEF r
<1>3. NewId \in Ids' /\ Ids \subseteq Ids' /\ task' \in Seq(TaskRecord)
  BY <1>1, <1>2, CreateStep
<1> QED BY <1>3, MoreIds DEF scheduleEvent, Notify, TypeOK

LEMMA TypeStop ==
    ASSUME TypeOK, NEW i \in Ids, stopEvent(i)
    PROVE  TypeOK'
<1>1. /\ [task EXCEPT ![i].live = FALSE] \in Seq(TaskRecord)
      /\ DOMAIN [task EXCEPT ![i].live = FALSE] = Ids
  <2>1. [task[i] EXCEPT !.live = FALSE] \in TaskRecord
    <3>1. task[i] \in TaskRecord
      BY DEF TypeOK, Ids
    <3> QED BY <3>1 DEF TaskRecord
  <2> QED BY <2>1 DEF TypeOK, Ids
<1>2. task' \in Seq(TaskRecord) /\ Ids' = Ids
  BY <1>1 DEF stopEvent, Ids, TypeOK
<1> QED BY <1>2 DEF stopEvent, TypeOK

\* Any step of the caller t that creates no task, or one of the above.
LEMMA TypeCall ==
    ASSUME TypeOK, NEW t \in Threads, Call(t) \/ SafeCallReturns(t)
    PROVE  TypeOK'
<1> USE TasksAssumption
<1>1. CASE "Serial" \in Groups /\ \E ms \in Expiries : addEvent(t, ms)
  BY <1>1, TypePost DEF addEvent, TaskGroup, SerialGroups
<1>2. CASE "Walk" \in Groups /\ \E ms \in Expiries : addWalkEvent(t, ms)
  BY <1>2, TypePost DEF addWalkEvent, TaskGroup, SerialGroups
<1>3. CASE \E g \in Groups : asyncEvent(t, g)
  BY <1>3, TypePost DEF asyncEvent
<1>4. CASE \E d \in Delays, c \in Cycles : scheduleEvent(t, d, c)
  BY <1>4, TypeSchedule
<1>5. CASE safeCall(t)
  <2>1. CASE isAsync(t)
    BY <1>5, <2>1, TypePost DEF safeCall, addEvent, TaskGroup, SerialGroups
  <2>2. CASE ~isAsync(t)
    BY <1>5, <2>2 DEF safeCall, TypeOK, Ids
  <2> QED BY <2>1, <2>2
<1>6. CASE SafeCallReturns(t)
  BY <1>6 DEF SafeCallReturns, TypeOK, Ids
<1> QED BY <1>1, <1>2, <1>3, <1>4, <1>5, <1>6 DEF Call

\* Merging two queues of tasks gives a queue of tasks.
LEMMA MergeType ==
    ASSUME NEW S, NEW a \in Seq(S), NEW b \in Seq(S)
    PROVE  /\ MergeInto(a, b) \in Seq(S)
           /\ \A j \in DOMAIN MergeInto(a, b) :
                 \/ \E i \in DOMAIN a : MergeInto(a, b)[j] = a[i]
                 \/ \E i \in DOMAIN b : MergeInto(a, b)[j] = b[i]
<1>1. ASSUME NEW u \in Seq(S), NEW v \in Seq(S)
      PROVE  /\ u \o v \in Seq(S)
             /\ \A j \in DOMAIN (u \o v) :
                   \/ \E i \in DOMAIN u : (u \o v)[j] = u[i]
                   \/ \E i \in DOMAIN v : (u \o v)[j] = v[i]
  <2>1. u \o v \in Seq(S) /\ Len(u \o v) = Len(u) + Len(v)
    BY ConcatProperties
  <2>2. DOMAIN (u \o v) = 1..(Len(u) + Len(v))
    BY <2>1, LenProperties
  <2>3. \A j \in 1..(Len(u) + Len(v)) :
            (u \o v)[j] = IF j <= Len(u) THEN u[j] ELSE v[j - Len(u)]
    BY ConcatProperties
  <2>4. \A j \in DOMAIN (u \o v) :
            \/ \E i \in DOMAIN u : (u \o v)[j] = u[i]
            \/ \E i \in DOMAIN v : (u \o v)[j] = v[i]
    <3> TAKE j \in DOMAIN (u \o v)
    <3>1. CASE j <= Len(u)
      <4>1. (u \o v)[j] = u[j] /\ j \in DOMAIN u
        BY <2>2, <2>3, <3>1
      <4> QED BY <4>1
    <3>2. CASE j > Len(u)
      <4>1. (u \o v)[j] = v[j - Len(u)] /\ j - Len(u) \in DOMAIN v
        BY <2>2, <2>3, <3>2
      <4> QED BY <4>1
    <3> QED BY <2>2, <3>1, <3>2
  <2> QED BY <2>1, <2>4
<1> QED BY <1>1 DEF MergeInto

\* The phase after a phase is a phase.
LEMMA AfterPhase == \A p \in DOMAIN After : After[p] \in Phases
BY DEF After, Phases

LEMMA GroupOfPhase ==
    \A p \in {"walk", "serial"} \cup Splits \cup Parallel : GroupOf[p] \in TaskGroup
BY DEF GroupOf, Splits, Parallel, TaskGroup, SerialGroups, ParallelGroups

LEMMA PhasesKnown ==
    /\ FullMerges \cup AsyncMerges \cup Checks \cup Splits \cup Parallel \cup {"walk", "serial", "sched"}
         \subseteq DOMAIN After
    /\ {"decide", "parking", "waiting", "exited", "walkMerge"} \subseteq Phases
BY DEF FullMerges, AsyncMerges, Checks, Splits, Parallel, After, Phases

LEMMA TypeMerge == TypeOK /\ mergeThread => TypeOK'
<1> SUFFICES ASSUME TypeOK, mergeThread PROVE TypeOK'
  OBVIOUS
<1> DEFINE groups == IF pc \in FullMerges THEN SerialGroups ELSE ParallelGroups
<1>1. merging \in Threads
  BY DEF TypeOK
<1>2. mtasks' \in [TaskGroup -> Seq(Ids)]
  <2>1. \A g \in TaskGroup : MergeInto(mtasks[g], posted[merging][g]) \in Seq(Ids)
    BY <1>1, MergeType DEF TypeOK
  <2>2. \A g \in TaskGroup : mtasks[g] \in Seq(Ids)
    BY DEF TypeOK
  <2>3. mtasks' = [g \in TaskGroup |-> IF g \in groups
                      THEN MergeInto(mtasks[g], posted[merging][g]) ELSE mtasks[g]]
    BY DEF mergeThread
  <2> HIDE DEF groups
  <2> QED BY <2>1, <2>2, <2>3
<1>3. posted' \in [Threads -> [TaskGroup -> Seq(Ids)]]
  <2> DEFINE rest == [g \in TaskGroup |-> IF g \in groups THEN <<>> ELSE posted[merging][g]]
  <2>1. rest \in [TaskGroup -> Seq(Ids)]
    BY <1>1 DEF TypeOK
  <2>2. posted' = [posted EXCEPT ![merging] = rest]
    BY DEF mergeThread
  <2> HIDE DEF rest
  <2> QED BY <2>1, <2>2 DEF TypeOK
<1>4. sched' \subseteq Ids /\ postedSched' \in [Threads -> SUBSET Ids]
  BY <1>1 DEF mergeThread, TypeOK
<1>5. merging' \in Threads
  BY <1>1, ThreadsAssumption DEF mergeThread, Threads, LastThread
<1>6. pc' \in Phases
  BY AfterPhase, PhasesKnown DEF mergeThread, TypeOK
<1> QED BY <1>2, <1>3, <1>4, <1>5, <1>6 DEF mergeThread, TypeOK, Ids

\* Steps that only move the loop on.
LEMMA TypeControl ==
    ASSUME TypeOK, checkPendingTasks \/ splitParallelEvents \/ GroupDone
                     \/ ScheduledDone \/ Park \/ Wait \/ Shutdown
    PROVE  TypeOK'
<1>1. CASE checkPendingTasks
  BY <1>1, AfterPhase, PhasesKnown DEF checkPendingTasks, TypeOK, Ids
<1>2. CASE splitParallelEvents
  <2>1. Len(mtasks[GroupOf[pc]]) \in Nat
    BY <1>2, GroupOfPhase DEF splitParallelEvents, TypeOK
  <2>2. Cardinality(Pool) \in Nat
    BY ThreadsAssumption, FS_CardinalityType
  <2>3. own' \in Int
    BY <1>2, <2>1, <2>2 DEF splitParallelEvents, FirstBlock
  <2> QED BY <1>2, <2>3, AfterPhase, PhasesKnown DEF splitParallelEvents, TypeOK, Ids
<1>3. CASE GroupDone
  BY <1>3, AfterPhase, PhasesKnown DEF GroupDone, TypeOK, Ids
<1>4. CASE ScheduledDone
  BY <1>4, AfterPhase, PhasesKnown DEF ScheduledDone, TypeOK, Ids
<1>5. CASE Park
  BY <1>5, PhasesKnown DEF Park, TypeOK, Ids
<1>6. CASE Wait
  BY <1>6, PhasesKnown DEF Wait, TypeOK, Ids
<1>7. CASE Shutdown
  BY <1>7 DEF Shutdown, HaltSteps, TypeOK, Ids
<1> QED BY <1>1, <1>2, <1>3, <1>4, <1>5, <1>6, <1>7

LEMMA TypeBegin ==
    ASSUME TypeOK, NEW t \in Threads, NEW i \in Ids, Begin(t, i)
    PROVE  running' \in [Threads -> Ids \cup {0}] /\ done' \subseteq Ids
BY DEF Begin, TypeOK

LEMMA TypeExecute ==
    ASSUME TypeOK, \/ executeSerialEvent \/ executeScheduledEvent
                   \/ ScheduledReturns
                   \/ \E t \in Threads : executeParallelEvent(t) \/ TaskReturns(t)
    PROVE  TypeOK'
<1> USE ThreadsAssumption
<1>1. CASE executeSerialEvent
  <2> DEFINE g == GroupOf[pc]
  <2>1. g \in TaskGroup /\ mtasks[g] \in Seq(Ids) /\ mtasks[g] # <<>>
    BY <1>1, GroupOfPhase DEF executeSerialEvent, TypeOK
  <2>2. Head(mtasks[g]) \in Ids /\ Tail(mtasks[g]) \in Seq(Ids)
    BY <2>1
  <2>3. mtasks' \in [TaskGroup -> Seq(Ids)]
    BY <1>1, <2>1, <2>2 DEF executeSerialEvent, TypeOK
  <2> QED BY <1>1, <2>2, <2>3, TypeBegin DEF executeSerialEvent, TypeOK, Ids
<1>2. CASE executeScheduledEvent
  <2>1. PICK i \in sched : Begin(Main, i) /\ sched' = sched \ {i} /\ ref' \subseteq ref
    BY <1>2 DEF executeScheduledEvent
  <2> QED BY <1>2, <2>1, TypeBegin DEF executeScheduledEvent, TypeOK, Ids
<1>3. CASE ScheduledReturns
  <2> DEFINE i == running[Main]
             again == [task EXCEPT ![i].due = task[i].delay]
  <2>1. i \in Ids
    BY <1>3 DEF ScheduledReturns, TypeOK
  <2>2. again \in Seq(TaskRecord) /\ DOMAIN again = Ids
    <3>1. task[i] \in TaskRecord
      BY <2>1 DEF TypeOK, Ids
    <3>2. [task[i] EXCEPT !.due = task[i].delay] \in TaskRecord
      BY <3>1 DEF TaskRecord
    <3> QED BY <2>1, <3>2 DEF TypeOK, Ids
  <2>3. task' \in Seq(TaskRecord) /\ Ids' = Ids
    BY <1>3, <2>2 DEF ScheduledReturns, TypeOK, Ids
  <2> QED BY <1>3, <2>1, <2>3 DEF ScheduledReturns, TypeOK
<1>4. CASE \E t \in Threads : executeParallelEvent(t)
  <2>1. PICK t \in Threads : executeParallelEvent(t)
    BY <1>4
  <2> DEFINE g == GroupOf[pc]
  <2>2. g \in TaskGroup /\ mtasks[g] \in Seq(Ids)
    BY <2>1, GroupOfPhase DEF executeParallelEvent, TypeOK
  <2>3. PICK k \in 1..Len(mtasks[g]) :
            Begin(t, mtasks[g][k]) /\ mtasks' = [mtasks EXCEPT ![g] = RemoveAt(@, k)]
    BY <2>1 DEF executeParallelEvent
  <2>4. mtasks[g][k] \in Ids /\ RemoveAt(mtasks[g], k) \in Seq(Ids)
    BY <2>2, RemoveAtType
  <2>5. mtasks' \in [TaskGroup -> Seq(Ids)]
    BY <2>2, <2>3, <2>4 DEF TypeOK
  <2>6. own' \in Int
    BY <2>1 DEF executeParallelEvent, TypeOK
  <2> QED BY <2>1, <2>3, <2>4, <2>5, <2>6, TypeBegin DEF executeParallelEvent, TypeOK, Ids
<1>5. CASE \E t \in Threads : TaskReturns(t)
  BY <1>5 DEF TaskReturns, TypeOK, Ids
<1> QED BY <1>1, <1>2, <1>3, <1>4, <1>5

\* Time passes: every task keeps what it is, and Nat times stay in Nat.
LEMMA AgedStep ==
    ASSUME TypeOK, NEW e \in Nat, NEW i \in Ids
    PROVE  /\ Aged(i, e) \in TaskRecord
           /\ Aged(i, e).kind = task[i].kind /\ Aged(i, e).live = task[i].live
           /\ Aged(i, e).by = task[i].by
<1>1. task[i] \in TaskRecord
  BY DEF TypeOK, Ids
<1> DEFINE d == IF task[i].due - e < 0 THEN 0 ELSE task[i].due - e
           x == IF task[i].slack - e < -1 THEN -1 ELSE task[i].slack - e
<1>2. d \in Nat /\ x \in Int
  BY <1>1 DEF TaskRecord
<1>3. Aged(i, e) = IF i \in done THEN task[i]
                   ELSE [[task[i] EXCEPT !.due = d] EXCEPT !.slack = x]
  BY <1>1 DEF Aged, TaskRecord
<1> HIDE DEF d, x
<1>4. [[task[i] EXCEPT !.due = d] EXCEPT !.slack = x] \in TaskRecord
  BY <1>1, <1>2 DEF TaskRecord
<1> QED BY <1>1, <1>3, <1>4 DEF TaskRecord

LEMMA TypeNextIteration ==
    ASSUME TypeOK, NEW e \in Nat, NextIteration(e)
    PROVE  TypeOK'
<1>1. task' \in Seq(TaskRecord) /\ Ids' = Ids
  <2>1. CASE halt = "stopped"
    BY <2>1 DEF NextIteration, TypeOK, Ids
  <2>2. CASE halt # "stopped"
    <3>1. task' = [i \in Ids |-> Aged(i, e)] /\ Ids = 1..Len(task) /\ Len(task) \in Nat
      BY <2>2 DEF NextIteration, TypeOK, Ids
    <3>2. \A i \in Ids : Aged(i, e) \in TaskRecord
      BY AgedStep
    <3>3. task' \in [1..Len(task) -> TaskRecord]
      BY <3>1, <3>2
    <3> QED BY <3>1, <3>3 DEF Ids
  <2> QED BY <2>1, <2>2
<1> QED BY <1>1, PhasesKnown DEF NextIteration, TypeOK

\* Every turn of the loop is NextIteration of some natural number.
LEMMA Turns ==
    ASSUME TypeOK, NextTurn
    PROVE  \E e \in Nat : NextIteration(e)
<1> USE TasksAssumption
<1>1. CASE StartIteration
  BY <1>1 DEF StartIteration
<1>2. CASE WakeBySignal
  BY <1>2 DEF WakeBySignal
<1>3. CASE WakeSpuriously
  BY <1>3 DEF WakeSpuriously
<1>4. CASE WakeByTimeout
  <2>1. PICK i \in sched, e \in Lags : NextIteration(task[i].due + e)
    BY <1>4 DEF WakeByTimeout
  <2>2. task[i] \in TaskRecord
    BY DEF TypeOK, Ids
  <2>3. task[i].due + e \in Nat
    BY <2>2 DEF TaskRecord
  <2> QED BY <2>1, <2>3
<1> QED BY <1>1, <1>2, <1>3, <1>4 DEF NextTurn

LEMMA TypeStep == TypeOK /\ [Next]_vars => TypeOK'
<1> SUFFICES ASSUME TypeOK, [Next]_vars PROVE TypeOK'
  OBVIOUS
<1>1. CASE \E t \in Threads : Call(t) \/ SafeCallReturns(t)
  BY <1>1, TypeCall
<1>2. CASE \E i \in Ids : stopEvent(i)
  BY <1>2, TypeStop
<1>3. CASE LoopStep
  BY <1>3, TypeMerge, TypeControl, TypeExecute, TypeNextIteration, Turns
     DEF LoopStep, NextTurn
<1>4. CASE \E t \in Threads : executeParallelEvent(t) \/ TaskReturns(t)
  BY <1>4, TypeExecute
<1>5. CASE WakeByTimeout \/ WakeSpuriously
  BY <1>5, TypeNextIteration, Turns DEF NextTurn
<1>6. CASE Shutdown
  BY <1>6, TypeControl
<1>7. CASE UNCHANGED vars
  BY <1>7 DEF vars, TypeOK, Ids
<1> QED BY <1>1, <1>2, <1>3, <1>4, <1>5, <1>6, <1>7 DEF Next

\* Every variable keeps its type.
THEOREM TypeCorrect == Spec => []TypeOK
BY TypeInit, TypeStep, PTL DEF Spec

-----------------------------------------------------------------------------
(* The inductive invariant Inv.  Its parts other than TypeOK: *)

Rest == KindsOK /\ RunningOK /\ ListsOK /\ StopAskedOK /\ RefAccurate

LEMMA RestInit == Init => Rest
<1> SUFFICES ASSUME Init PROVE Rest
  OBVIOUS
<1> USE ThreadsAssumption, TasksAssumption
<1>1. /\ Ids = 1..NumBeats /\ Scheduled = Ids
      /\ \A i \in Ids : task[i].live
  BY DEF Init, Ids, Scheduled, Task
<1>2. \A g \in TaskGroup : mtasks[g] = <<>> /\ \A t \in Threads : posted[t][g] = <<>>
  BY DEF Init, EmptyQueues
<1>3. KindsOK
  <2>1. DOMAIN <<>> = {}
    OBVIOUS
  <2>2. /\ sched \subseteq Scheduled
        /\ \A t \in Threads : postedSched[t] \subseteq Scheduled
    BY <1>1 DEF Init
  <2> QED BY <1>2, <2>1, <2>2 DEF KindsOK
<1>4. RunningOK
  BY DEF Init, RunningOK
<1>5. ListsOK
  BY DEF Init, ListsOK
<1>6. StopAskedOK /\ RefAccurate
  BY <1>1 DEF Init, StopAskedOK, RefAccurate
<1> QED BY <1>3, <1>4, <1>5, <1>6 DEF Rest

\* Between the executing phases no thread executes a task.
LEMMA Idle ==
    ASSUME RunningOK, pc \notin Parallel \cup {"walk", "serial", "sched"}
    PROVE  \A t \in Threads : running[t] = 0
BY DEF RunningOK

\* A new task of kind `kind', of a group or scheduled, is in no set yet, and
\* the old tasks keep what the invariant says of them.
LEMMA CreateKeeps ==
    ASSUME TypeOK, Rest, NEW r \in TaskRecord, Create(r), r.live
    PROVE  /\ NewId \in Nat \ {0} /\ NewId \notin Ids /\ Ids' = Ids \cup {NewId}
           /\ task'[NewId] = r /\ \A i \in Ids : task'[i] = task[i]
           /\ Scheduled' = Scheduled \cup (IF r.kind = "Scheduled" THEN {NewId} ELSE {})
<1>1. /\ NewId \in Nat \ {0} /\ NewId \notin Ids /\ Ids' = Ids \cup {NewId}
      /\ task'[NewId] = r /\ \A i \in Ids : task'[i] = task[i]
  BY CreateStep
<1> QED BY <1>1 DEF Scheduled

LEMMA RestPost ==
    ASSUME TypeOK, Rest, NEW t \in Threads, NEW g \in TaskGroup, NEW ms \in Nat,
           Post(t, g, ms)
    PROVE  Rest'
<1> DEFINE r == Task(g, t, 0, FALSE, ms)
<1>1. r \in TaskRecord /\ r.live /\ r.kind = g /\ r.kind # "Scheduled"
  BY TaskType DEF Task, TaskGroup, SerialGroups, ParallelGroups
<1>2. Create(r)
  BY DEF Post
<1> HIDE DEF r
<1>3. /\ NewId \in Nat \ {0} /\ NewId \notin Ids /\ Ids' = Ids \cup {NewId}
      /\ task'[NewId] = r /\ \A i \in Ids : task'[i] = task[i]
      /\ Scheduled' = Scheduled
  BY <1>1, <1>2, CreateKeeps
<1>4. KindsOK'
  <2>1. ASSUME NEW u \in Threads, NEW h \in TaskGroup, NEW k \in DOMAIN posted'[u][h]
        PROVE  task'[posted'[u][h][k]].kind = h
    <3>1. CASE u = t /\ h = g
      <4>1. posted[u][h] \in Seq(Ids) /\ posted'[u][h] = Append(posted[u][h], NewId)
        BY <3>1 DEF Post, TypeOK
      <4>2. CASE k = Len(posted[u][h]) + 1
        BY <1>1, <1>3, <3>1, <4>1, <4>2
      <4>3. CASE k # Len(posted[u][h]) + 1
        <5>1. k \in DOMAIN posted[u][h] /\ posted'[u][h][k] = posted[u][h][k]
          BY <4>1, <4>3
        <5> QED BY <1>3, <4>1, <5>1 DEF Rest, KindsOK
      <4> QED BY <4>2, <4>3
    <3>2. CASE ~(u = t /\ h = g)
      <4>1. posted[u][h] \in Seq(Ids) /\ posted'[u][h] = posted[u][h]
        BY <3>2 DEF Post, TypeOK
      <4> QED BY <1>3, <4>1 DEF Rest, KindsOK
    <3> QED BY <3>1, <3>2
  <2>2. ASSUME NEW h \in TaskGroup, NEW k \in DOMAIN mtasks[h]
        PROVE  task'[mtasks[h][k]].kind = h
    <3>1. mtasks[h] \in Seq(Ids)
      BY DEF TypeOK
    <3> QED BY <1>3, <3>1 DEF Rest, KindsOK
  <2> QED BY <1>3, <2>1, <2>2 DEF Post, Rest, KindsOK
<1>5. RunningOK' /\ ListsOK'
  BY <1>3 DEF Post, Rest, RunningOK, ListsOK
<1>6. StopAskedOK' /\ RefAccurate'
  BY <1>3 DEF Post, Rest, StopAskedOK, RefAccurate, Scheduled
<1> QED BY <1>4, <1>5, <1>6 DEF Rest

LEMMA RestSchedule ==
    ASSUME TypeOK, Rest, NEW t \in Threads, NEW d \in Nat, NEW c \in BOOLEAN,
           scheduleEvent(t, d, c)
    PROVE  Rest'
<1> DEFINE r == Task("Scheduled", t, d, c, 0)
<1>1. r \in TaskRecord /\ r.live /\ r.kind = "Scheduled"
  BY TaskType DEF Task
<1>2. Create(r)
  BY DEF scheduleEvent
<1> HIDE DEF r
<1>3. /\ NewId \in Nat \ {0} /\ NewId \notin Ids /\ Ids' = Ids \cup {NewId}
      /\ task'[NewId] = r /\ \A i \in Ids : task'[i] = task[i]
      /\ Scheduled' = Scheduled \cup {NewId}
  BY <1>1, <1>2, CreateKeeps
<1>4. KindsOK'
  <2>1. ASSUME NEW h \in TaskGroup
        PROVE  /\ \A k \in DOMAIN mtasks[h] : task'[mtasks[h][k]].kind = h
               /\ \A u \in Threads : \A k \in DOMAIN posted[u][h] :
                     task'[posted[u][h][k]].kind = h
    <3>1. mtasks[h] \in Seq(Ids) /\ \A u \in Threads : posted[u][h] \in Seq(Ids)
      BY DEF TypeOK
    <3> QED BY <1>3, <3>1 DEF Rest, KindsOK
  <2> QED BY <1>3, <2>1 DEF scheduleEvent, Rest, KindsOK, TypeOK
<1>5. RunningOK'
  <2>1. \A u \in Threads : running[u] \in Ids \cup {0}
    BY DEF TypeOK
  <2> QED BY <1>3, <2>1 DEF scheduleEvent, Rest, RunningOK
<1>6. ListsOK'
  <2>1. /\ NewId \notin sched /\ NewId \notin done /\ running[Main] # NewId
        /\ \A u \in Threads : NewId \notin postedSched[u]
    BY <1>3, ThreadsAssumption DEF TypeOK
  <2>2. \A u \in Threads : postedSched'[u] = postedSched[u]
                           \cup (IF u = t THEN {NewId} ELSE {})
    BY DEF scheduleEvent, TypeOK
  <2> QED BY <1>3, <2>1, <2>2 DEF scheduleEvent, Rest, ListsOK
<1>7. StopAskedOK' /\ RefAccurate'
  BY <1>1, <1>3 DEF scheduleEvent, Rest, StopAskedOK, RefAccurate, Scheduled, TypeOK
<1> QED BY <1>4, <1>5, <1>6, <1>7 DEF Rest

LEMMA RestStop ==
    ASSUME TypeOK, Rest, NEW i \in Ids, stopEvent(i)
    PROVE  Rest'
<1>1. /\ Ids' = Ids
      /\ IF i \in ref THEN ~task'[i].live ELSE task'[i] = task[i]
      /\ \A j \in Ids : task'[j].kind = task[j].kind
      /\ \A j \in Ids \ {i} : task'[j].live = task[j].live
  <2>1. \A j \in Ids : task[j] \in TaskRecord
    BY DEF TypeOK, Ids
  <2>2. CASE i \in ref
    <3>1. task' = [task EXCEPT ![i].live = FALSE]
      BY <2>2 DEF stopEvent
    <3>2. task' = [task EXCEPT ![i] = [task[i] EXCEPT !.live = FALSE]]
      BY <3>1
    <3>3. /\ [task[i] EXCEPT !.live = FALSE].kind = task[i].kind
          /\ ~[task[i] EXCEPT !.live = FALSE].live
      BY <2>1 DEF TaskRecord
    <3> QED BY <2>2, <3>2, <3>3 DEF TypeOK, Ids
  <2>3. CASE i \notin ref
    BY <2>3 DEF stopEvent, Ids
  <2> QED BY <2>2, <2>3
<1>2. Scheduled' = Scheduled
  BY <1>1 DEF Scheduled
<1>3. KindsOK'
  <2>1. ASSUME NEW h \in TaskGroup
        PROVE  /\ \A k \in DOMAIN mtasks[h] : task'[mtasks[h][k]].kind = h
               /\ \A u \in Threads : \A k \in DOMAIN posted[u][h] :
                     task'[posted[u][h][k]].kind = h
    <3>1. mtasks[h] \in Seq(Ids) /\ \A u \in Threads : posted[u][h] \in Seq(Ids)
      BY DEF TypeOK
    <3> QED BY <1>1, <3>1 DEF Rest, KindsOK
  <2> QED BY <1>2, <2>1 DEF stopEvent, Rest, KindsOK
<1>4. RunningOK' /\ ListsOK'
  BY <1>2 DEF stopEvent, Rest, RunningOK, ListsOK
<1>5. RefAccurate'
  <2>1. ref' = ref \ {i}
    BY DEF stopEvent
  <2>2. done' = done /\ \A j \in Scheduled : j \in Ids
    BY DEF stopEvent, Scheduled
  <2> QED BY <1>1, <1>2, <2>1, <2>2 DEF Rest, RefAccurate
<1>6. StopAskedOK'
  <2>1. stopAsked' = stopAsked \cup {i} /\ done' = done /\ i \in Scheduled
    BY DEF stopEvent
  <2>2. \A j \in Scheduled : j \in Ids
    BY DEF Scheduled
  <2> QED BY <1>1, <1>2, <2>1, <2>2 DEF Rest, StopAskedOK, RefAccurate
<1> QED BY <1>3, <1>4, <1>5, <1>6 DEF Rest

\* `inline' occurs in none of the parts.
LEMMA RestInline ==
    ASSUME TypeOK, Rest,
           UNCHANGED <<task, done, posted, postedSched, mtasks, sched, ref,
                       stopAsked, pc, running>>
    PROVE  Rest'
BY DEF Rest, KindsOK, RunningOK, ListsOK, StopAskedOK, RefAccurate, Scheduled, Ids

LEMMA RestCall ==
    ASSUME TypeOK, Rest, NEW t \in Threads, Call(t) \/ SafeCallReturns(t)
    PROVE  Rest'
<1> USE TasksAssumption
<1>1. CASE "Serial" \in Groups /\ \E ms \in Expiries : addEvent(t, ms)
  BY <1>1, RestPost DEF addEvent, TaskGroup, SerialGroups
<1>2. CASE "Walk" \in Groups /\ \E ms \in Expiries : addWalkEvent(t, ms)
  BY <1>2, RestPost DEF addWalkEvent, TaskGroup, SerialGroups
<1>3. CASE \E g \in Groups : asyncEvent(t, g)
  BY <1>3, RestPost DEF asyncEvent
<1>4. CASE \E d \in Delays, c \in Cycles : scheduleEvent(t, d, c)
  BY <1>4, RestSchedule
<1>5. CASE safeCall(t)
  <2>1. CASE isAsync(t)
    BY <1>5, <2>1, RestPost DEF safeCall, addEvent, TaskGroup, SerialGroups
  <2>2. CASE ~isAsync(t)
    BY <1>5, <2>2, RestInline DEF safeCall
  <2> QED BY <2>1, <2>2
<1>6. CASE SafeCallReturns(t)
  BY <1>6, RestInline DEF SafeCallReturns
<1> QED BY <1>1, <1>2, <1>3, <1>4, <1>5, <1>6 DEF Call

\* No thread executes anything while queues are merged.
LEMMA MergePhases ==
    /\ (FullMerges \cup AsyncMerges \cup Checks \cup Splits \cup {"decide", "parking", "waiting"})
          \cap (Parallel \cup {"walk", "serial", "sched"}) = {}
    /\ "sched" \notin Parallel
BY DEF FullMerges, AsyncMerges, Checks, Splits, Parallel

LEMMA RestMerge == TypeOK /\ Rest /\ mergeThread => Rest'
<1> SUFFICES ASSUME TypeOK, Rest, mergeThread PROVE Rest'
  OBVIOUS
<1> DEFINE groups == IF pc \in FullMerges THEN SerialGroups ELSE ParallelGroups
<1>1. merging \in Threads /\ Scheduled' = Scheduled /\ UNCHANGED <<task, done, running>>
  BY DEF mergeThread, TypeOK, Scheduled, Ids
<1>2. ASSUME NEW g \in TaskGroup
      PROVE  /\ \A k \in DOMAIN mtasks'[g] : task[mtasks'[g][k]].kind = g
             /\ \A u \in Threads : \A k \in DOMAIN posted'[u][g] :
                   task[posted'[u][g][k]].kind = g
  <2>1. mtasks[g] \in Seq(Ids) /\ posted[merging][g] \in Seq(Ids)
    BY <1>1 DEF TypeOK
  <2>2. mtasks'[g] = IF g \in groups THEN MergeInto(mtasks[g], posted[merging][g])
                                     ELSE mtasks[g]
    BY DEF mergeThread
  <2>3. ASSUME NEW u \in Threads
        PROVE  posted'[u][g] = posted[u][g] \/ posted'[u][g] = <<>>
    BY DEF mergeThread, TypeOK
  <2>4. \A k \in DOMAIN MergeInto(mtasks[g], posted[merging][g]) :
            task[MergeInto(mtasks[g], posted[merging][g])[k]].kind = g
    BY <1>1, <2>1, MergeType DEF Rest, KindsOK
  <2>5. DOMAIN <<>> = {}
    OBVIOUS
  <2> QED BY <2>2, <2>3, <2>4, <2>5 DEF Rest, KindsOK
<1>3. sched' \subseteq sched \cup postedSched[merging]
  BY DEF mergeThread
<1>4. \A u \in Threads : postedSched'[u] \subseteq postedSched[u]
  BY DEF mergeThread, TypeOK
<1>5. KindsOK'
  BY <1>1, <1>2, <1>3, <1>4 DEF Rest, KindsOK
<1>6. \A u \in Threads : running[u] = 0
  BY Idle, MergePhases DEF mergeThread, Rest
<1>7. RunningOK'
  BY <1>1, <1>6 DEF RunningOK
<1>8. ListsOK'
  <2>1. CASE UNCHANGED <<sched, postedSched>>
    BY <1>1, <2>1 DEF Rest, ListsOK
  <2>2. CASE /\ sched' = sched \cup postedSched[merging]
             /\ postedSched' = [postedSched EXCEPT ![merging] = {}]
    <3>1. \A u \in Threads : postedSched'[u] = IF u = merging THEN {} ELSE postedSched[u]
      BY <2>2 DEF TypeOK
    <3>2. running[Main] = 0 /\ 0 \notin sched' \cup Scheduled
      BY <1>1, <1>6, <2>2, ThreadsAssumption DEF TypeOK, Ids, Scheduled
    <3>3. sched' \cap done = {}
      BY <1>1, <2>2 DEF Rest, ListsOK
    <3>4. ASSUME NEW u \in Threads
          PROVE  /\ postedSched'[u] \cap (sched' \cup done) = {}
                 /\ running[Main] \notin postedSched'[u]
                 /\ \A v \in Threads \ {u} : postedSched'[u] \cap postedSched'[v] = {}
      BY <1>1, <2>2, <3>1 DEF Rest, ListsOK
    <3> QED BY <1>1, <3>2, <3>3, <3>4 DEF ListsOK
  <2> QED BY <2>1, <2>2 DEF mergeThread
<1>9. StopAskedOK' /\ RefAccurate'
  BY <1>1 DEF mergeThread, Rest, StopAskedOK, RefAccurate
<1> QED BY <1>5, <1>7, <1>8, <1>9 DEF Rest

LEMMA RestControl ==
    ASSUME TypeOK, Rest, checkPendingTasks \/ splitParallelEvents \/ GroupDone
                           \/ ScheduledDone \/ Park \/ Wait \/ Shutdown
    PROVE  Rest'
<1>1. UNCHANGED <<task, done, posted, postedSched, mtasks, sched, ref, stopAsked, running>>
  BY DEF checkPendingTasks, splitParallelEvents, GroupDone, ScheduledDone, Park, Wait, Shutdown
<1>2. Scheduled' = Scheduled
  BY <1>1 DEF Scheduled, Ids
<1>3. KindsOK' /\ ListsOK' /\ StopAskedOK' /\ RefAccurate'
  BY <1>1, <1>2 DEF Rest, KindsOK, ListsOK, StopAskedOK, RefAccurate
<1>4. RunningOK'
  <2>1. CASE Shutdown
    BY <1>1, <1>2, <2>1 DEF Shutdown, Rest, RunningOK
  <2>2. CASE ~Shutdown
    <3>1. \A t \in Threads : running[t] = 0
      <4>1. CASE GroupDone
        BY <4>1, ThreadsAssumption, MergePhases DEF GroupDone, Rest, RunningOK
      <4>2. CASE ScheduledDone
        BY <4>2, MergePhases DEF ScheduledDone, Rest, RunningOK
      <4>3. CASE checkPendingTasks \/ splitParallelEvents \/ Park \/ Wait
        BY <4>3, Idle, MergePhases
           DEF checkPendingTasks, splitParallelEvents, Park, Wait, Rest
      <4> QED BY <2>2, <4>1, <4>2, <4>3
    <3> QED BY <1>1, <3>1 DEF RunningOK
  <2> QED BY <2>1, <2>2
<1> QED BY <1>3, <1>4 DEF Rest

\* Executing, discarding or finishing a task i of a group disturbs nothing
\* that is said of scheduled events.
LEMMA GroupTaskKeeps ==
    ASSUME TypeOK, Rest, NEW i \in Ids, i \notin Scheduled,
           NEW t \in Threads,
           \/ running' = [running EXCEPT ![t] = i] /\ UNCHANGED done
           \/ done' = done \cup {i} /\ UNCHANGED running
           \/ done' = done \cup {i} /\ running' = [running EXCEPT ![t] = 0],
           UNCHANGED <<task, postedSched, sched, ref, stopAsked>>
    PROVE  ListsOK' /\ StopAskedOK' /\ RefAccurate' /\ Scheduled' = Scheduled
<1>1. Scheduled' = Scheduled
  BY DEF Scheduled, Ids
<1>2. done' \subseteq done \cup {i} /\ done \subseteq done'
  OBVIOUS
<1>3. running'[Main] \in {running[Main], i, 0}
  BY ThreadsAssumption DEF TypeOK
<1>4. 0 \notin Scheduled
  BY DEF Scheduled, Ids, TypeOK
<1>5. ListsOK'
  BY <1>1, <1>2, <1>3, <1>4 DEF Rest, KindsOK, ListsOK
<1>6. StopAskedOK' /\ RefAccurate'
  BY <1>1, <1>2 DEF Rest, StopAskedOK, RefAccurate
<1> QED BY <1>1, <1>5, <1>6

LEMMA RestSerial == TypeOK /\ Rest /\ executeSerialEvent => Rest'
<1> SUFFICES ASSUME TypeOK, Rest, executeSerialEvent PROVE Rest'
  OBVIOUS
<1> DEFINE g == GroupOf[pc]
           i == Head(mtasks[g])
<1>1. g \in TaskGroup /\ g # "Scheduled" /\ mtasks[g] \in Seq(Ids) /\ mtasks[g] # <<>>
  BY GroupOfPhase DEF executeSerialEvent, TypeOK, TaskGroup, SerialGroups, ParallelGroups
<1>2. i = mtasks[g][1] /\ 1 \in DOMAIN mtasks[g] /\ i \in Ids
  BY <1>1
<1>3. i \notin Scheduled
  BY <1>1, <1>2 DEF Rest, KindsOK, Scheduled
<1>4. Begin(Main, i) /\ mtasks' = [mtasks EXCEPT ![g] = Tail(mtasks[g])]
  BY DEF executeSerialEvent
<1>5. \A k \in DOMAIN Tail(mtasks[g]) :
          k + 1 \in DOMAIN mtasks[g] /\ Tail(mtasks[g])[k] = mtasks[g][k + 1]
  BY <1>1, HeadTailProperties, LenProperties
<1> HIDE DEF i
<1>6. ListsOK' /\ StopAskedOK' /\ RefAccurate' /\ Scheduled' = Scheduled
  BY <1>2, <1>3, <1>4, GroupTaskKeeps, ThreadsAssumption DEF Begin, executeSerialEvent
<1>7. KindsOK'
  <2>1. ASSUME NEW h \in TaskGroup, NEW k \in DOMAIN mtasks'[h]
        PROVE  task[mtasks'[h][k]].kind = h
    BY <1>1, <1>4, <1>5 DEF Rest, KindsOK, TypeOK
  <2> QED BY <1>6, <2>1 DEF executeSerialEvent, Rest, KindsOK
<1>8. RunningOK'
  <2>1. \A t \in Threads : running'[t] = running[t] \/ (t = Main /\ running'[t] = i)
    BY <1>4, ThreadsAssumption DEF Begin, TypeOK
  <2> QED BY <1>3, <1>6, <2>1 DEF executeSerialEvent, Rest, RunningOK
<1> QED BY <1>6, <1>7, <1>8 DEF Rest

LEMMA RestParallel ==
    ASSUME TypeOK, Rest, NEW t \in Threads, executeParallelEvent(t)
    PROVE  Rest'
<1> DEFINE g == GroupOf[pc]
<1>1. g \in TaskGroup /\ g # "Scheduled" /\ mtasks[g] \in Seq(Ids)
  BY GroupOfPhase DEF executeParallelEvent, TypeOK, TaskGroup, SerialGroups, ParallelGroups
<1>2. PICK k \in 1..Len(mtasks[g]) :
          /\ t \in Pool \cup {Main}
          /\ Begin(t, mtasks[g][k])
          /\ mtasks' = [mtasks EXCEPT ![g] = RemoveAt(mtasks[g], k)]
  BY DEF executeParallelEvent
<1> DEFINE i == mtasks[g][k]
<1>3. k \in DOMAIN mtasks[g] /\ i \in Ids /\ i \notin Scheduled
  BY <1>1 DEF Rest, KindsOK, Scheduled
<1>4. \A j \in DOMAIN RemoveAt(mtasks[g], k) :
          \E l \in DOMAIN mtasks[g] : RemoveAt(mtasks[g], k)[j] = mtasks[g][l]
  BY <1>1, RemoveAtType
<1> HIDE DEF i
<1>5. ListsOK' /\ StopAskedOK' /\ RefAccurate' /\ Scheduled' = Scheduled
  BY <1>2, <1>3, GroupTaskKeeps DEF Begin, executeParallelEvent, i
<1>6. KindsOK'
  <2>1. ASSUME NEW h \in TaskGroup, NEW j \in DOMAIN mtasks'[h]
        PROVE  task[mtasks'[h][j]].kind = h
    BY <1>1, <1>2, <1>4 DEF Rest, KindsOK, TypeOK
  <2> QED BY <1>5, <2>1 DEF executeParallelEvent, Rest, KindsOK
<1>7. RunningOK'
  <2>1. \A u \in Threads : running'[u] = running[u] \/ (u = t /\ running'[u] = i)
    BY <1>2 DEF Begin, TypeOK, i
  <2> QED BY <1>2, <1>3, <1>5, <2>1, MergePhases DEF executeParallelEvent, Rest, RunningOK
<1> QED BY <1>5, <1>6, <1>7 DEF Rest

LEMMA RestReturns ==
    ASSUME TypeOK, Rest, NEW t \in Threads, TaskReturns(t)
    PROVE  Rest'
<1> DEFINE i == running[t]
<1>1. i \in Ids /\ i \notin Scheduled
  BY DEF TaskReturns, TypeOK, Rest, RunningOK
<1>2. ListsOK' /\ StopAskedOK' /\ RefAccurate' /\ Scheduled' = Scheduled
  BY <1>1, GroupTaskKeeps DEF TaskReturns
<1>3. KindsOK'
  BY <1>2 DEF TaskReturns, Rest, KindsOK
<1>4. RunningOK'
  <2>1. \A u \in Threads : running'[u] = running[u] \/ running'[u] = 0
    BY DEF TaskReturns, TypeOK
  <2> QED BY <1>2, <2>1 DEF TaskReturns, Rest, RunningOK
<1> QED BY <1>2, <1>3, <1>4 DEF Rest

LEMMA RestScheduledBegins == TypeOK /\ Rest /\ executeScheduledEvent => Rest'
<1> SUFFICES ASSUME TypeOK, Rest, executeScheduledEvent PROVE Rest'
  OBVIOUS
<1> USE ThreadsAssumption
<1>1. PICK i \in sched : /\ sched' = sched \ {i} /\ Begin(Main, i)
                         /\ ref' = IF Executes(i) THEN ref ELSE ref \ {i}
  BY DEF executeScheduledEvent
<1>2. i \in Scheduled /\ i \in Ids /\ i \notin done
  BY DEF Rest, KindsOK, ListsOK, Scheduled
<1>3. Scheduled' = Scheduled /\ UNCHANGED <<task, posted, postedSched, mtasks, stopAsked, pc>>
  BY DEF executeScheduledEvent, Scheduled, Ids
<1>4. /\ \A u \in Threads : running'[u] = running[u] \/ (u = Main /\ running'[u] = i)
      /\ done' = done \/ (running' = running /\ done' = done \cup {i})
  BY <1>1 DEF Begin, TypeOK
<1>5. KindsOK'
  BY <1>1, <1>3 DEF Rest, KindsOK
<1>6. RunningOK'
  BY <1>2, <1>3, <1>4 DEF executeScheduledEvent, Rest, RunningOK
<1>7. ListsOK'
  BY <1>1, <1>3, <1>4 DEF Rest, ListsOK
<1>8. StopAskedOK' /\ RefAccurate'
  BY <1>1, <1>2, <1>3 DEF Begin, Executes, Rest, StopAskedOK, RefAccurate
<1> QED BY <1>5, <1>6, <1>7, <1>8 DEF Rest

LEMMA RestScheduledReturns == TypeOK /\ Rest /\ ScheduledReturns => Rest'
<1> SUFFICES ASSUME TypeOK, Rest, ScheduledReturns PROVE Rest'
  OBVIOUS
<1> USE ThreadsAssumption
<1> DEFINE i == running[Main]
<1>1. i \in Ids /\ i \in Scheduled /\ i # 0 /\ 0 \notin Ids
  BY DEF ScheduledReturns, TypeOK, Rest, RunningOK, Ids
<1>2. /\ Ids' = Ids
      /\ \A j \in Ids : task'[j].kind = task[j].kind /\ task'[j].live = task[j].live
  <2>1. \A j \in Ids : task[j] \in TaskRecord
    BY DEF TypeOK, Ids
  <2>2. CASE isCycle(i)
    <3>1. task' = [task EXCEPT ![i] = [task[i] EXCEPT !.due = task[i].delay]]
      BY <2>2 DEF ScheduledReturns
    <3>2. /\ [task[i] EXCEPT !.due = task[i].delay].kind = task[i].kind
          /\ [task[i] EXCEPT !.due = task[i].delay].live = task[i].live
      BY <1>1, <2>1 DEF TaskRecord
    <3> QED BY <3>1, <3>2 DEF TypeOK, Ids
  <2>3. CASE ~isCycle(i)
    BY <2>3 DEF ScheduledReturns, Ids
  <2> QED BY <2>2, <2>3
<1>3. Scheduled' = Scheduled
  BY <1>2 DEF Scheduled
<1>4. /\ \A u \in Threads : running'[u] = IF u = Main THEN 0 ELSE running[u]
      /\ UNCHANGED <<posted, mtasks, sched, stopAsked, pc>>
  BY DEF ScheduledReturns, TypeOK
<1>5. \/ /\ postedSched' = [postedSched EXCEPT ![Main] = postedSched[Main] \cup {i}]
         /\ UNCHANGED <<ref, done>>
      \/ postedSched' = postedSched /\ ref' = ref \ {i} /\ done' = done \cup {i}
  BY DEF ScheduledReturns
<1>6. KindsOK'
  <2>1. ASSUME NEW h \in TaskGroup
        PROVE  /\ \A k \in DOMAIN mtasks[h] : task'[mtasks[h][k]].kind = h
               /\ \A u \in Threads : \A k \in DOMAIN posted[u][h] :
                     task'[posted[u][h][k]].kind = h
    <3>1. mtasks[h] \in Seq(Ids) /\ \A u \in Threads : posted[u][h] \in Seq(Ids)
      BY DEF TypeOK
    <3> QED BY <1>2, <3>1 DEF Rest, KindsOK
  <2>2. \A u \in Threads : postedSched'[u] \subseteq postedSched[u] \cup {i}
    BY <1>5 DEF TypeOK
  <2> QED BY <1>1, <1>3, <1>4, <2>1, <2>2 DEF Rest, KindsOK
<1>7. RunningOK'
  BY <1>3, <1>4 DEF Rest, RunningOK
<1>8. ListsOK'
  <2>1. 0 \notin sched /\ 0 \notin Scheduled /\ \A u \in Threads : 0 \notin postedSched'[u]
    <3>1. 0 \notin sched /\ 0 \notin Scheduled /\ \A u \in Threads : 0 \notin postedSched[u]
      BY <1>1 DEF TypeOK, Scheduled
    <3>2. \A u \in Threads : postedSched'[u] \subseteq postedSched[u] \cup {i}
      BY <1>5 DEF TypeOK
    <3> QED BY <1>1, <3>1, <3>2
  <2>2. i \notin sched /\ \A u \in Threads : i \notin postedSched[u]
    BY DEF Rest, ListsOK
  <2>3. CASE postedSched' = postedSched /\ done' = done \cup {i}
    BY <1>3, <1>4, <2>1, <2>2, <2>3 DEF Rest, ListsOK
  <2>4. CASE /\ postedSched' = [postedSched EXCEPT ![Main] = postedSched[Main] \cup {i}]
             /\ done' = done
    <3>1. \A u \in Threads : postedSched'[u] =
              postedSched[u] \cup (IF u = Main THEN {i} ELSE {})
      BY <2>4 DEF TypeOK
    <3>2. i \notin done
      BY <1>1 DEF Rest, ListsOK
    <3> QED BY <1>3, <1>4, <2>1, <2>2, <2>4, <3>1, <3>2 DEF Rest, ListsOK
  <2> QED BY <1>5, <2>3, <2>4
<1>9. StopAskedOK' /\ RefAccurate'
  <2>1. \A j \in Scheduled : j \in Ids
    BY DEF Scheduled
  <2> QED BY <1>1, <1>2, <1>3, <1>4, <1>5, <2>1 DEF Rest, StopAskedOK, RefAccurate
<1> QED BY <1>6, <1>7, <1>8, <1>9 DEF Rest

LEMMA RestNextIteration ==
    ASSUME TypeOK, Rest, NEW e \in Nat, NextIteration(e),
           pc \in {"decide", "waiting"}
    PROVE  Rest'
<1>1. /\ Ids' = Ids
      /\ \A i \in Ids : task'[i].kind = task[i].kind /\ task'[i].live = task[i].live
  BY AgedStep DEF NextIteration, Ids
<1>2. Scheduled' = Scheduled
  BY <1>1 DEF Scheduled
<1>3. KindsOK'
  <2>1. ASSUME NEW h \in TaskGroup
        PROVE  /\ \A k \in DOMAIN mtasks[h] : task'[mtasks[h][k]].kind = h
               /\ \A u \in Threads : \A k \in DOMAIN posted[u][h] :
                     task'[posted[u][h][k]].kind = h
    <3>1. mtasks[h] \in Seq(Ids) /\ \A u \in Threads : posted[u][h] \in Seq(Ids)
      BY DEF TypeOK
    <3> QED BY <1>1, <3>1 DEF Rest, KindsOK
  <2> QED BY <1>2, <2>1 DEF NextIteration, Rest, KindsOK
<1>4. RunningOK'
  BY Idle, MergePhases DEF NextIteration, Rest, RunningOK
<1>5. ListsOK'
  BY <1>2 DEF NextIteration, Rest, ListsOK
<1>6. StopAskedOK' /\ RefAccurate'
  <2>1. \A j \in Scheduled : j \in Ids
    BY DEF Scheduled
  <2> QED BY <1>1, <1>2, <2>1 DEF NextIteration, Rest, StopAskedOK, RefAccurate
<1> QED BY <1>3, <1>4, <1>5, <1>6 DEF Rest

LEMMA RestTurn == TypeOK /\ Rest /\ NextTurn => Rest'
<1> SUFFICES ASSUME TypeOK, Rest, NextTurn PROVE Rest'
  OBVIOUS
<1>1. pc \in {"decide", "waiting"}
  BY DEF NextTurn, StartIteration, WakeBySignal, WakeByTimeout, WakeSpuriously
<1> QED BY <1>1, Turns, RestNextIteration

LEMMA RestStep == TypeOK /\ Rest /\ [Next]_vars => Rest'
<1> SUFFICES ASSUME TypeOK, Rest, [Next]_vars PROVE Rest'
  OBVIOUS
<1>1. CASE \E t \in Threads : Call(t) \/ SafeCallReturns(t)
  BY <1>1, RestCall
<1>2. CASE \E i \in Ids : stopEvent(i)
  BY <1>2, RestStop
<1>3. CASE LoopStep
  BY <1>3, RestMerge, RestControl, RestSerial, RestScheduledBegins,
     RestScheduledReturns, RestTurn DEF LoopStep, NextTurn
<1>4. CASE \E t \in Threads : executeParallelEvent(t) \/ TaskReturns(t)
  BY <1>4, RestParallel, RestReturns
<1>5. CASE WakeByTimeout \/ WakeSpuriously
  BY <1>5, RestTurn DEF NextTurn
<1>6. CASE Shutdown
  BY <1>6, RestControl
<1>7. CASE UNCHANGED vars
  BY <1>7, RestInline DEF vars
<1> QED BY <1>1, <1>2, <1>3, <1>4, <1>5, <1>6, <1>7 DEF Next

LEMMA InvIsInductive == (Init => Inv) /\ (Inv /\ [Next]_vars => Inv')
BY TypeInit, TypeStep, RestInit, RestStep DEF Inv, Rest

\* The inductive invariant of what is scheduled and of who executes.
THEOREM Invariance == Spec => []Inv
BY InvIsInductive, PTL DEF Spec

-----------------------------------------------------------------------------
(* What follows. *)

\* scheduledTasksRef, the table stopEvent consults, always lists exactly the
\* scheduled and cycle events that may still run.
THEOREM RefIsAccurate == Spec => []RefAccurate
<1>1. Inv => RefAccurate
  BY DEF Inv
<1> QED BY <1>1, Invariance, PTL

\* A step starts an event for which stopEvent was never called.
LEMMA StartsUnstopped ==
    ASSUME Inv, [Next]_vars, NEW t \in Threads, running[t] = 0, running'[t] # 0
    PROVE  running'[t] \notin stopAsked
<1> USE ThreadsAssumption
<1>1. \/ executeSerialEvent \/ executeScheduledEvent
      \/ \E u \in Threads : executeParallelEvent(u)
  <2>1. CASE Next
    <3>1. CASE \E u \in Threads : Call(u) \/ SafeCallReturns(u)
      BY <3>1 DEF Call, SafeCallReturns, safeCall, addEvent, addWalkEvent, asyncEvent,
                  scheduleEvent, Post
    <3>2. CASE LoopStep
      <4>1. CASE NextTurn
        BY <4>1 DEF NextTurn, StartIteration, WakeBySignal, WakeByTimeout,
                    WakeSpuriously, NextIteration
      <4>2. CASE ScheduledReturns
        BY <4>2 DEF ScheduledReturns, Inv, TypeOK
      <4> QED BY <3>2, <4>1, <4>2
              DEF LoopStep, NextTurn, mergeThread, checkPendingTasks,
                  splitParallelEvents, GroupDone, ScheduledDone, Park, Wait
    <3>3. CASE \E u \in Threads : TaskReturns(u)
      BY <3>3 DEF TaskReturns, Inv, TypeOK
    <3>4. CASE WakeByTimeout \/ WakeSpuriously
      BY <3>4 DEF WakeByTimeout, WakeSpuriously, NextIteration
    <3>5. CASE Shutdown \/ \E i \in Ids : stopEvent(i)
      BY <3>5 DEF Shutdown, stopEvent
    <3> QED BY <2>1, <3>1, <3>2, <3>3, <3>4, <3>5 DEF Next
  <2> QED BY <2>1 DEF vars
<1>2. CASE executeScheduledEvent
  <2>1. PICK i \in sched : Begin(Main, i)
    BY <1>2 DEF executeScheduledEvent
  <2>2. running'[t] = i /\ task[i].live /\ i \notin done
    BY <2>1 DEF Begin, Executes, isCanceled, Inv, TypeOK, ListsOK
  <2> QED BY <2>2 DEF Inv, StopAskedOK
<1>3. CASE executeSerialEvent \/ \E u \in Threads : executeParallelEvent(u)
  <2>1. Rest' /\ TypeOK' /\ pc' = pc /\ pc # "sched" /\ task' = task
    BY <1>3, RestStep, TypeStep, MergePhases
       DEF Inv, Rest, executeSerialEvent, executeParallelEvent
  <2>2. running'[t] \notin Scheduled
    BY <2>1 DEF Rest, RunningOK, Scheduled, Ids
  <2> QED BY <2>2 DEF Inv, StopAskedOK
<1> QED BY <1>1, <1>2, <1>3

\* After stopEvent(id) has returned, the event never starts again.
THEOREM StoppedNeverStarts == Spec => StopIsFinal
<1>1. Inv /\ [Next]_vars =>
        [\A t \in Threads : running[t] = 0 => running'[t] \notin stopAsked]_vars
  <2> SUFFICES ASSUME Inv, [Next]_vars, NEW t \in Threads, running[t] = 0
               PROVE  running'[t] \notin stopAsked
    OBVIOUS
  <2>1. 0 \notin stopAsked
    BY DEF Inv, TypeOK, Ids
  <2> QED BY <2>1, StartsUnstopped
<1> QED BY <1>1, Invariance, PTL DEF Spec, StopIsFinal

-----------------------------------------------------------------------------
(* Serial events run alone, if safeCall is only called by tasks. *)

\* An action runs in place only inside a serial or scheduled event.
InlineOK == \A t \in inline : t = Main /\ running[Main] # 0 /\ pc \notin Parallel

LEMMA InlineStep ==
    ASSUME SafeCallers \cap Outside = {}, Inv, InlineOK, [Next]_vars
    PROVE  InlineOK'
<1> USE ThreadsAssumption
<1>1. RunningOK /\ inline \subseteq Threads /\ running \in [Threads -> Ids \cup {0}]
  BY DEF Inv, TypeOK
<1>2. CASE \E t \in Threads : Call(t) \/ SafeCallReturns(t)
  <2>1. PICK t \in Threads : Call(t) \/ SafeCallReturns(t)
    BY <1>2
  <2>2. CASE safeCall(t) /\ ~isAsync(t)
    <3>1. /\ running[t] # 0 /\ pc \notin Parallel /\ inline' = inline \cup {t}
          /\ UNCHANGED <<running, pc>>
      <4>1. /\ running[t] # 0 /\ inline' = inline \cup {t}
            /\ UNCHANGED <<running, pc>>
        BY <2>2 DEF safeCall, CanCall
      <4>2. pc \in Parallel => ContextType(t) = "AsyncEvent"
        BY <4>1 DEF ContextType, Parallel
      <4> QED BY <2>2, <4>1, <4>2 DEF isAsync
    <3> QED BY <1>1, <3>1 DEF InlineOK, RunningOK
  <2>3. CASE safeCall(t) /\ isAsync(t)
    BY <2>3 DEF safeCall, addEvent, Post, InlineOK
  <2>4. CASE SafeCallReturns(t)
    BY <2>4 DEF SafeCallReturns, InlineOK
  <2>5. CASE Call(t) /\ ~safeCall(t)
    BY <2>5 DEF Call, addEvent, addWalkEvent, asyncEvent, Post, scheduleEvent, InlineOK
  <2> QED BY <2>1, <2>2, <2>3, <2>4, <2>5
<1>3. CASE \E i \in Ids : stopEvent(i)
  BY <1>3 DEF stopEvent, InlineOK
<1>4. CASE executeSerialEvent \/ executeScheduledEvent
  BY <1>4 DEF executeSerialEvent, executeScheduledEvent, InlineOK
<1>5. CASE ScheduledReturns \/ \E t \in Threads : TaskReturns(t)
  BY <1>1, <1>5 DEF ScheduledReturns, TaskReturns, InlineOK
<1>6. CASE \E t \in Threads : executeParallelEvent(t)
  BY <1>6 DEF executeParallelEvent, InlineOK
<1>7. CASE mergeThread \/ checkPendingTasks \/ splitParallelEvents \/ Park \/ Wait
  <2>1. running[Main] = 0 /\ inline' = inline
    BY <1>1, <1>7, Idle, MergePhases
       DEF mergeThread, checkPendingTasks, splitParallelEvents, Park, Wait
  <2> QED BY <2>1 DEF InlineOK
<1>8. CASE GroupDone \/ ScheduledDone
  BY <1>8 DEF GroupDone, ScheduledDone, InlineOK
<1>9. CASE NextTurn
  <2>1. running[Main] = 0 /\ inline' = inline
    BY <1>1, <1>9, Idle, MergePhases
       DEF NextTurn, StartIteration, WakeBySignal, WakeByTimeout, WakeSpuriously,
           NextIteration
  <2> QED BY <2>1 DEF InlineOK
<1>10. CASE Shutdown \/ UNCHANGED vars
  BY <1>10 DEF Shutdown, vars, InlineOK
<1> QED BY <1>2, <1>3, <1>4, <1>5, <1>6, <1>7, <1>8, <1>9, <1>10 DEF Next, LoopStep, NextTurn

\* While the dispatcher executes a serial or scheduled event, or an action that
\* safeCall runs in place, no pool thread executes a parallel event.
THEOREM SerialIsExclusive ==
    ASSUME SafeCallers \cap Outside = {}
    PROVE  Spec => []SerialExclusive
<1>1. Init => InlineOK
  BY DEF Init, InlineOK
<1>2. Inv /\ InlineOK /\ [Next]_vars => InlineOK'
  BY InlineStep
<1>3. Inv /\ InlineOK => SerialExclusive
  BY DEF Inv, InlineOK, RunningOK, SerialExclusive
<1> QED BY <1>1, <1>2, <1>3, Invariance, PTL DEF Spec

\* An action that a task gives to safeCall runs on the dispatcher's thread.
THEOREM SafeCallFromTasks ==
    ASSUME SafeCallers \cap Outside = {}
    PROVE  Spec => []SafeCallOnDispatcher
<1>1. Init => InlineOK
  BY DEF Init, InlineOK
<1>2. Inv /\ InlineOK /\ [Next]_vars => InlineOK'
  BY InlineStep
<1>3. InlineOK => SafeCallOnDispatcher
  BY DEF InlineOK, SafeCallOnDispatcher
<1> QED BY <1>1, <1>2, <1>3, Invariance, PTL DEF Spec
-----------------------------------------------------------------------------
(* Every task is in one place, and unmerged tasks are younger. *)

LEMMA QueueSets ==
    ASSUME TypeOK, KindsOK
    PROVE  /\ Executing \subseteq Ids /\ 0 \notin Ids
           /\ \A g \in TaskGroup :
                 /\ ToSet(mtasks[g]) \subseteq Ids
                 /\ \A i \in ToSet(mtasks[g]) : task[i].kind = g
                 /\ \A t \in Threads :
                       /\ ToSet(posted[t][g]) \subseteq Ids
                       /\ \A i \in ToSet(posted[t][g]) : task[i].kind = g
<1>1. Executing \subseteq Ids /\ 0 \notin Ids
  BY DEF TypeOK, Executing, Ids
<1>2. ASSUME NEW g \in TaskGroup
      PROVE  /\ ToSet(mtasks[g]) \subseteq Ids
             /\ \A i \in ToSet(mtasks[g]) : task[i].kind = g
  <2>1. mtasks[g] \in Seq(Ids)
    BY DEF TypeOK
  <2> QED BY <2>1 DEF KindsOK, ToSet
<1>3. ASSUME NEW g \in TaskGroup, NEW t \in Threads
      PROVE  /\ ToSet(posted[t][g]) \subseteq Ids
             /\ \A i \in ToSet(posted[t][g]) : task[i].kind = g
  <2>1. posted[t][g] \in Seq(Ids)
    BY DEF TypeOK
  <2> QED BY <2>1 DEF KindsOK, ToSet
<1> QED BY <1>1, <1>2, <1>3

LEMMA GroupsNotScheduled == "Scheduled" \notin TaskGroup /\ SerialGroups \subseteq TaskGroup
BY DEF TaskGroup, SerialGroups, ParallelGroups

LEMMA KindOfTask ==
    ASSUME TypeOK, NEW i \in Ids
    PROVE  /\ task[i].by \in Threads
           /\ i \notin Scheduled => task[i].kind \in TaskGroup
<1>1. task[i] \in TaskRecord
  BY DEF TypeOK, Ids
<1> QED BY <1>1 DEF TaskRecord, Scheduled

\* What starting and ending a task does to the set of tasks in execution.
LEMMA ExecutingMore ==
    ASSUME TypeOK, NEW t \in Threads, running[t] = 0, NEW i \in Ids,
           running' = [running EXCEPT ![t] = i]
    PROVE  Executing' = Executing \cup {i}
<1>1. \A u \in Threads : running'[u] = IF u = t THEN i ELSE running[u]
  BY DEF TypeOK
<1>2. i # 0
  BY DEF TypeOK, Ids
<1>3. Executing' \subseteq Executing \cup {i}
  BY <1>1 DEF Executing
<1>4. \A u \in Threads : running[u] # 0 => running'[u] = running[u]
  BY <1>1
<1>5. Executing \subseteq Executing'
  BY <1>4 DEF Executing
<1>6. i \in Executing'
  BY <1>1, <1>2 DEF Executing
<1> QED BY <1>3, <1>5, <1>6

LEMMA ExecutingLess ==
    ASSUME TypeOK, ExecutingOK, NEW t \in Threads, running[t] # 0,
           running' = [running EXCEPT ![t] = 0]
    PROVE  /\ running[t] \in Executing /\ Executing' = Executing \ {running[t]}
           /\ \A u, v \in Threads : running'[u] = running'[v] /\ running'[u] # 0 => u = v
<1>1. \A u \in Threads : running'[u] = IF u = t THEN 0 ELSE running[u]
  BY DEF TypeOK
<1>2. \A u, v \in Threads : running'[u] = running'[v] /\ running'[u] # 0 => u = v
  BY <1>1 DEF ExecutingOK
<1>3. Executing' \subseteq Executing \ {running[t]}
  BY <1>1 DEF Executing, ExecutingOK
<1>4. Executing \ {running[t]} \subseteq Executing'
  <2>1. \A u \in Threads : running[u] # running[t] => running'[u] = running[u]
    BY <1>1
  <2> QED BY <2>1 DEF Executing
<1> QED BY <1>2, <1>3, <1>4 DEF Executing

LEMMA PlacesInit == Init => PlacesInv
<1> SUFFICES ASSUME Init PROVE PlacesInv
  OBVIOUS
<1> USE ThreadsAssumption, TasksAssumption
<1>1. Ids = 1..NumBeats /\ Scheduled = Ids /\ sched = Ids
  BY DEF Init, Ids, Scheduled, Task
<1>2. Executing = {} /\ done = {} /\ running[Main] = 0
  BY DEF Init, Executing
<1>3. \A g \in TaskGroup : mtasks[g] = <<>> /\ \A t \in Threads : posted[t][g] = <<>>
  BY DEF Init, EmptyQueues
<1>4. ToSet(<<>>) = {} /\ IsInjective(<<>>)
  BY DEF ToSet, IsInjective
<1>5. QueuesOK
  BY <1>3, <1>4 DEF QueuesOK
<1>6. BatchOK
  BY <1>2, <1>3, <1>4, GroupsNotScheduled DEF BatchOK
<1>7. ExecutingOK
  BY <1>2 DEF ExecutingOK, Init
<1>8. NoneLost
  BY <1>1 DEF NoneLost
<1> QED BY <1>5, <1>6, <1>7, <1>8 DEF PlacesInv

\* Steps that move no task.
LEMMA PlacesSame ==
    ASSUME TypeOK, Rest, PlacesInv, Ids' = Ids,
           \A i \in Ids : task'[i].kind = task[i].kind /\ task'[i].by = task[i].by,
           UNCHANGED <<done, posted, postedSched, mtasks, sched, running>>,
           pc' = pc \/ running[Main] = 0
    PROVE  PlacesInv'
<1>1. Executing' = Executing /\ Scheduled' = Scheduled
  BY DEF Executing, Scheduled
<1>2. /\ Executing \subseteq Ids
      /\ \A g \in TaskGroup : /\ ToSet(mtasks[g]) \subseteq Ids
                              /\ \A t \in Threads : ToSet(posted[t][g]) \subseteq Ids
  BY QueueSets DEF Rest
<1>3. QueuesOK'
  BY <1>1, <1>2 DEF PlacesInv, QueuesOK
<1>4. ExecutingOK'
  BY <1>1 DEF PlacesInv, ExecutingOK
<1>5. NoneLost'
  BY <1>1 DEF PlacesInv, NoneLost
<1>6. BatchOK'
  <2>1. \A g \in SerialGroups, t \in Threads :
           \A i \in ToSet(posted[t][g]), j \in ToSet(mtasks[g]) \cup Executing :
              task'[j].kind = g /\ task'[j].by = t => j < i
    BY <1>2, GroupsNotScheduled DEF PlacesInv, BatchOK
  <2>2. pc' \in {"walk", "serial"} /\ running[Main] # 0 =>
           task'[running[Main]].kind \in SerialGroups
    BY <1>2, ThreadsAssumption DEF PlacesInv, BatchOK, Executing
  <2> QED BY <1>1, <2>1, <2>2 DEF BatchOK
<1> QED BY <1>3, <1>4, <1>5, <1>6 DEF PlacesInv

LEMMA PlacesPost ==
    ASSUME TypeOK, Rest, PlacesInv, NEW t \in Threads, NEW g \in TaskGroup,
           NEW ms \in Nat, Post(t, g, ms)
    PROVE  PlacesInv'
<1> DEFINE r == Task(g, t, 0, FALSE, ms)
           n == NewId
<1>1. r \in TaskRecord /\ r.live /\ r.kind = g /\ r.by = t /\ r.kind # "Scheduled"
  BY TaskType, GroupsNotScheduled DEF Task
<1>2. Create(r)
  BY DEF Post
<1>3. Ids = 1..Len(task) /\ n = Len(task) + 1 /\ Len(task) \in Nat
  BY DEF TypeOK, Ids, NewId
<1> HIDE DEF r
<1>4. /\ n \notin Ids /\ Ids' = Ids \cup {n} /\ n # 0
      /\ task'[n].kind = g /\ task'[n].by = t /\ \A i \in Ids : task'[i] = task[i]
      /\ Scheduled' = Scheduled
  BY <1>1, <1>2, CreateKeeps
<1>5. \A i \in Ids : i < n
  BY <1>3
<1> HIDE DEF n
<1>6. /\ UNCHANGED <<done, postedSched, mtasks, sched, running, pc>>
      /\ Executing' = Executing
  BY DEF Post, Executing
<1>7. /\ Executing \subseteq Ids /\ done \subseteq Ids
      /\ \A h \in TaskGroup : /\ ToSet(mtasks[h]) \subseteq Ids
                              /\ \A u \in Threads : ToSet(posted[u][h]) \subseteq Ids
  BY QueueSets DEF Rest, TypeOK
<1>8. \A u \in Threads, h \in TaskGroup :
         posted'[u][h] = IF u = t /\ h = g THEN Append(posted[t][g], n) ELSE posted[u][h]
  BY DEF Post, TypeOK, n
<1>9. /\ ToSet(Append(posted[t][g], n)) = ToSet(posted[t][g]) \cup {n}
      /\ IsInjective(posted[t][g]) => IsInjective(Append(posted[t][g], n))
  <2>1. posted[t][g] \in Seq(Ids')
    BY <1>4, MoreIds
  <2>2. n \notin ToSet(posted[t][g])
    BY <1>4, <1>7
  <2> QED BY <1>4, <2>1, <2>2, AppendSet
<1>10. \A u \in Threads, h \in TaskGroup :
         ToSet(posted'[u][h]) = ToSet(posted[u][h]) \cup (IF u = t /\ h = g THEN {n} ELSE {})
  BY <1>8, <1>9
<1>11. QueuesOK'
  <2> SUFFICES ASSUME NEW h \in TaskGroup, NEW u \in Threads
               PROVE  /\ IsInjective(posted'[u][h])
                      /\ ToSet(posted'[u][h]) \cap (ToSet(mtasks[h]) \cup done \cup Executing) = {}
                      /\ \A i \in ToSet(posted'[u][h]) : task'[i].by = u
    BY <1>6 DEF PlacesInv, QueuesOK
  <2>1. IsInjective(posted'[u][h])
    BY <1>8, <1>9 DEF PlacesInv, QueuesOK
  <2>2. n \notin ToSet(mtasks[h]) \cup done \cup Executing
    BY <1>4, <1>7
  <2>3. ToSet(posted'[u][h]) \cap (ToSet(mtasks[h]) \cup done \cup Executing) = {}
    BY <1>10, <2>2 DEF PlacesInv, QueuesOK
  <2>4. \A i \in ToSet(posted'[u][h]) : task'[i].by = u
    BY <1>4, <1>7, <1>10 DEF PlacesInv, QueuesOK
  <2> QED BY <2>1, <2>3, <2>4
<1>12. ExecutingOK'
  BY <1>6 DEF PlacesInv, ExecutingOK
<1>13. NoneLost'
  <2>1. ASSUME NEW i \in Ids \ Scheduled
        PROVE  i \in done \cup Executing \cup ToSet(mtasks[task'[i].kind])
                       \cup ToSet(posted'[task'[i].by][task'[i].kind])
    BY <1>4, <1>10, KindOfTask DEF PlacesInv, NoneLost
  <2>2. n \in ToSet(posted'[task'[n].by][task'[n].kind])
    BY <1>4, <1>10
  <2> QED BY <1>4, <1>6, <2>1, <2>2 DEF PlacesInv, NoneLost
<1>14. BatchOK'
  <2>1. ASSUME NEW h \in SerialGroups, NEW u \in Threads,
               NEW i \in ToSet(posted'[u][h]), NEW j \in ToSet(mtasks[h]) \cup Executing,
               task'[j].kind = h, task'[j].by = u
        PROVE  j < i
    <3>1. h \in TaskGroup /\ j \in Ids
      BY <1>7, GroupsNotScheduled
    <3>2. CASE i = n
      BY <1>5, <3>1, <3>2
    <3>3. CASE i \in ToSet(posted[u][h])
      BY <1>4, <2>1, <3>1, <3>3 DEF PlacesInv, BatchOK
    <3> QED BY <1>10, <3>1, <3>2, <3>3
  <2>2. running[Main] # 0 => task'[running[Main]] = task[running[Main]]
    BY <1>4, <1>7, ThreadsAssumption DEF Executing
  <2> QED BY <1>6, <2>1, <2>2 DEF PlacesInv, BatchOK
<1> QED BY <1>11, <1>12, <1>13, <1>14 DEF PlacesInv

LEMMA PlacesSchedule ==
    ASSUME TypeOK, Rest, PlacesInv, NEW t \in Threads, NEW d \in Nat,
           NEW c \in BOOLEAN, scheduleEvent(t, d, c)
    PROVE  PlacesInv'
<1> DEFINE r == Task("Scheduled", t, d, c, 0)
           n == NewId
<1>1. r \in TaskRecord /\ r.live /\ r.kind = "Scheduled"
  BY TaskType DEF Task
<1>2. Create(r)
  BY DEF scheduleEvent
<1> HIDE DEF r, n
<1>3. /\ n \notin Ids /\ Ids' = Ids \cup {n}
      /\ \A i \in Ids : task'[i] = task[i]
      /\ Scheduled' = Scheduled \cup {n}
  BY <1>1, <1>2, CreateKeeps DEF n
<1>4. /\ UNCHANGED <<done, posted, mtasks, sched, running, pc>>
      /\ Executing' = Executing
  BY DEF scheduleEvent, Executing
<1>5. /\ n \in postedSched'[t]
      /\ \A u \in Threads : postedSched[u] \subseteq postedSched'[u]
  BY DEF scheduleEvent, TypeOK, n
<1>6. /\ Executing \subseteq Ids
      /\ \A h \in TaskGroup : /\ ToSet(mtasks[h]) \subseteq Ids
                              /\ \A u \in Threads : ToSet(posted[u][h]) \subseteq Ids
  BY QueueSets DEF Rest
<1>7. QueuesOK'
  BY <1>3, <1>4, <1>6 DEF PlacesInv, QueuesOK
<1>8. ExecutingOK'
  BY <1>4 DEF PlacesInv, ExecutingOK
<1>9. NoneLost'
  <2>1. \A u \in Threads : \A i \in postedSched[u] \cup {n} :
           i \in UNION {postedSched'[v] : v \in Threads}
    BY <1>5
  <2>2. \A i \in Scheduled' : i \in done \cup Executing \cup sched
                                  \cup UNION {postedSched'[v] : v \in Threads}
    BY <1>3, <2>1 DEF PlacesInv, NoneLost
  <2>3. \A i \in Ids' \ Scheduled' : i \in Ids \ Scheduled /\ task'[i] = task[i]
    BY <1>3
  <2> QED BY <1>4, <2>2, <2>3 DEF PlacesInv, NoneLost
<1>10. BatchOK'
  <2>1. running[Main] # 0 => task'[running[Main]] = task[running[Main]]
    BY <1>3, <1>6, ThreadsAssumption DEF Executing
  <2> QED BY <1>3, <1>4, <1>6, <2>1, GroupsNotScheduled DEF PlacesInv, BatchOK
<1> QED BY <1>7, <1>8, <1>9, <1>10 DEF PlacesInv

LEMMA PlacesCall ==
    ASSUME TypeOK, Rest, PlacesInv, NEW t \in Threads, Call(t) \/ SafeCallReturns(t)
    PROVE  PlacesInv'
<1> USE TasksAssumption
<1>1. CASE "Serial" \in Groups /\ \E ms \in Expiries : addEvent(t, ms)
  BY <1>1, PlacesPost DEF addEvent, TaskGroup, SerialGroups
<1>2. CASE "Walk" \in Groups /\ \E ms \in Expiries : addWalkEvent(t, ms)
  BY <1>2, PlacesPost DEF addWalkEvent, TaskGroup, SerialGroups
<1>3. CASE \E g \in Groups : asyncEvent(t, g)
  BY <1>3, PlacesPost DEF asyncEvent
<1>4. CASE \E d \in Delays, c \in Cycles : scheduleEvent(t, d, c)
  BY <1>4, PlacesSchedule
<1>5. CASE safeCall(t)
  <2>1. CASE isAsync(t)
    BY <1>5, <2>1, PlacesPost DEF safeCall, addEvent, TaskGroup, SerialGroups
  <2>2. CASE ~isAsync(t)
    BY <1>5, <2>2, PlacesSame DEF safeCall, Ids
  <2> QED BY <2>1, <2>2
<1>6. CASE SafeCallReturns(t)
  BY <1>6, PlacesSame DEF SafeCallReturns, Ids
<1> QED BY <1>1, <1>2, <1>3, <1>4, <1>5, <1>6 DEF Call

LEMMA PlacesStop ==
    ASSUME TypeOK, Rest, PlacesInv, NEW i \in Ids, stopEvent(i)
    PROVE  PlacesInv'
<1>1. /\ Ids' = Ids
      /\ \A j \in Ids : task'[j].kind = task[j].kind /\ task'[j].by = task[j].by
  <2>1. CASE i \in ref
    <3>1. task' = [task EXCEPT ![i] = [task[i] EXCEPT !.live = FALSE]]
      BY <2>1 DEF stopEvent
    <3>2. /\ [task[i] EXCEPT !.live = FALSE].kind = task[i].kind
          /\ [task[i] EXCEPT !.live = FALSE].by = task[i].by
      <4>1. task[i] \in TaskRecord
        BY DEF TypeOK, Ids
      <4> QED BY <4>1 DEF TaskRecord
    <3> QED BY <3>1, <3>2 DEF TypeOK, Ids
  <2>2. CASE i \notin ref
    BY <2>2 DEF stopEvent, Ids
  <2> QED BY <2>1, <2>2
<1> QED BY <1>1, PlacesSame DEF stopEvent

LEMMA PlacesControl ==
    ASSUME TypeOK, Rest, PlacesInv,
           checkPendingTasks \/ splitParallelEvents \/ GroupDone
             \/ ScheduledDone \/ Park \/ Wait \/ Shutdown
    PROVE  PlacesInv'
<1>1. Ids' = Ids /\ UNCHANGED <<task, done, posted, postedSched, mtasks, sched, running>>
  BY DEF checkPendingTasks, splitParallelEvents, GroupDone, ScheduledDone, Park, Wait,
         Shutdown, Ids
<1>2. pc' = pc \/ running[Main] = 0
  <2>1. CASE Shutdown
    BY <2>1 DEF Shutdown
  <2>2. CASE GroupDone \/ ScheduledDone
    BY <2>2 DEF GroupDone, ScheduledDone
  <2>3. CASE checkPendingTasks \/ splitParallelEvents \/ Park \/ Wait
    BY <2>3, Idle, MergePhases, ThreadsAssumption
       DEF checkPendingTasks, splitParallelEvents, Park, Wait, Rest
  <2> QED BY <2>1, <2>2, <2>3
<1> QED BY <1>1, <1>2, PlacesSame

LEMMA PlacesTurn == TypeOK /\ Rest /\ PlacesInv /\ NextTurn => PlacesInv'
<1> SUFFICES ASSUME TypeOK, Rest, PlacesInv, NextTurn PROVE PlacesInv'
  OBVIOUS
<1>1. pc \in {"decide", "waiting"}
  BY DEF NextTurn, StartIteration, WakeBySignal, WakeByTimeout, WakeSpuriously
<1>2. PICK e \in Nat : NextIteration(e)
  BY Turns
<1>3. /\ Ids' = Ids
      /\ \A i \in Ids : task'[i].kind = task[i].kind /\ task'[i].by = task[i].by
  BY <1>2, AgedStep DEF NextIteration, Ids
<1>4. running[Main] = 0
  BY <1>1, Idle, MergePhases, ThreadsAssumption DEF Rest
<1> QED BY <1>2, <1>3, <1>4, PlacesSame DEF NextIteration

LEMMA MergeSets ==
    ASSUME NEW S, NEW a \in Seq(S), NEW b \in Seq(S)
    PROVE  /\ ToSet(MergeInto(a, b)) = ToSet(a) \cup ToSet(b)
           /\ IsInjective(a) /\ IsInjective(b) /\ ToSet(a) \cap ToSet(b) = {}
                => IsInjective(MergeInto(a, b))
<1>1. /\ ToSet(a \o b) = ToSet(a) \cup ToSet(b)
      /\ ToSet(b \o a) = ToSet(b) \cup ToSet(a)
      /\ IsInjective(a) /\ IsInjective(b) /\ ToSet(a) \cap ToSet(b) = {}
           => IsInjective(a \o b)
  BY ConcatSet
<1>2. IsInjective(a) /\ IsInjective(b) /\ ToSet(a) \cap ToSet(b) = {}
        => IsInjective(b \o a)
  BY ConcatSet
<1> QED BY <1>1, <1>2 DEF MergeInto

LEMMA PlacesMerge == TypeOK /\ Rest /\ PlacesInv /\ mergeThread => PlacesInv'
<1> SUFFICES ASSUME TypeOK, Rest, PlacesInv, mergeThread PROVE PlacesInv'
  OBVIOUS
<1> DEFINE groups == IF pc \in FullMerges THEN SerialGroups ELSE ParallelGroups
           m      == merging
<1>1. m \in Threads /\ Ids' = Ids /\ Scheduled' = Scheduled /\ UNCHANGED <<task, done, running>>
  BY DEF mergeThread, TypeOK, Scheduled, Ids
<1>2. Executing = {} /\ Executing' = {} /\ running[Main] = 0
  BY Idle, MergePhases, ThreadsAssumption DEF mergeThread, Rest, Executing
<1>3. \A g \in TaskGroup : mtasks'[g] = IF g \in groups
          THEN MergeInto(mtasks[g], posted[m][g]) ELSE mtasks[g]
  BY DEF mergeThread
<1>4. \A u \in Threads, g \in TaskGroup :
          posted'[u][g] = IF u = m /\ g \in groups THEN <<>> ELSE posted[u][g]
  BY <1>1 DEF mergeThread, TypeOK
<1> HIDE DEF groups, m
<1>5. ToSet(<<>>) = {} /\ IsInjective(<<>>)
  BY DEF ToSet, IsInjective
<1>6. ASSUME NEW g \in TaskGroup
      PROVE  /\ ToSet(mtasks'[g]) = ToSet(mtasks[g])
                                      \cup (IF g \in groups THEN ToSet(posted[m][g]) ELSE {})
             /\ IsInjective(mtasks'[g])
  <2>1. mtasks[g] \in Seq(Ids) /\ posted[m][g] \in Seq(Ids)
    BY <1>1 DEF TypeOK
  <2>2. /\ ToSet(MergeInto(mtasks[g], posted[m][g])) = ToSet(mtasks[g]) \cup ToSet(posted[m][g])
        /\ IsInjective(mtasks[g]) /\ IsInjective(posted[m][g])
             /\ ToSet(mtasks[g]) \cap ToSet(posted[m][g]) = {}
                 => IsInjective(MergeInto(mtasks[g], posted[m][g]))
    BY <2>1, MergeSets
  <2>3. /\ IsInjective(mtasks[g]) /\ IsInjective(posted[m][g])
        /\ ToSet(mtasks[g]) \cap ToSet(posted[m][g]) = {}
    BY <1>1 DEF PlacesInv, QueuesOK
  <2> QED BY <1>3, <2>2, <2>3
<1>7. \A u \in Threads, g \in TaskGroup :
          ToSet(posted'[u][g]) = IF u = m /\ g \in groups THEN {} ELSE ToSet(posted[u][g])
  BY <1>4, <1>5
<1>8. ASSUME NEW g \in TaskGroup, NEW u \in Threads
      PROVE  /\ IsInjective(posted'[u][g])
             /\ ToSet(posted'[u][g]) \cap ToSet(mtasks'[g]) = {}
             /\ ToSet(posted'[u][g]) \cap done = {}
             /\ \A i \in ToSet(posted'[u][g]) : task[i].by = u
  <2>1. IsInjective(posted'[u][g])
    BY <1>4, <1>5 DEF PlacesInv, QueuesOK
  <2>2. /\ ToSet(posted[u][g]) \cap ToSet(mtasks[g]) = {}
        /\ ToSet(posted[u][g]) \cap done = {}
        /\ \A i \in ToSet(posted[u][g]) : task[i].by = u
        /\ \A i \in ToSet(posted[m][g]) : task[i].by = m
    BY <1>1 DEF PlacesInv, QueuesOK
  <2>3. u # m => ToSet(posted[u][g]) \cap ToSet(posted[m][g]) = {}
    BY <2>2
  <2> QED BY <1>6, <1>7, <2>1, <2>2, <2>3
<1>9. ASSUME NEW g \in TaskGroup PROVE ToSet(mtasks'[g]) \cap done = {}
  <2>1. ToSet(mtasks[g]) \cap done = {} /\ ToSet(posted[m][g]) \cap done = {}
    BY <1>1 DEF PlacesInv, QueuesOK
  <2> QED BY <1>6, <2>1
<1>10. QueuesOK'
  BY <1>1, <1>2, <1>6, <1>8, <1>9 DEF QueuesOK
<1>11. ExecutingOK'
  BY <1>1, <1>2 DEF PlacesInv, ExecutingOK
<1>12. NoneLost'
  <2>1. ASSUME NEW i \in Scheduled
        PROVE  i \in done \cup sched' \cup UNION {postedSched'[u] : u \in Threads}
    <3>1. CASE i \in done \cup sched
      BY <3>1 DEF mergeThread
    <3>2. CASE i \in UNION {postedSched[u] : u \in Threads}
      <4>1. PICK u \in Threads : i \in postedSched[u]
        BY <3>2
      <4>2. i \in sched' \/ i \in postedSched'[u]
        BY <4>1 DEF mergeThread, TypeOK
      <4> QED BY <4>2
    <3> QED BY <1>2, <3>1, <3>2 DEF PlacesInv, NoneLost
  <2>2. ASSUME NEW i \in Ids \ Scheduled
        PROVE  i \in done \cup ToSet(mtasks'[task[i].kind])
                          \cup ToSet(posted'[task[i].by][task[i].kind])
    <3>1. task[i].kind \in TaskGroup /\ task[i].by \in Threads
      BY KindOfTask
    <3>2. i \in done \cup ToSet(mtasks[task[i].kind])
                     \cup ToSet(posted[task[i].by][task[i].kind])
      BY <1>2 DEF PlacesInv, NoneLost
    <3> QED BY <1>6, <1>7, <3>1, <3>2
  <2> QED BY <1>1, <2>1, <2>2 DEF NoneLost
<1>13. BatchOK'
  <2>1. ASSUME NEW g \in SerialGroups, NEW u \in Threads,
               NEW i \in ToSet(posted'[u][g]), NEW j \in ToSet(mtasks'[g]),
               task[j].kind = g, task[j].by = u
        PROVE  j < i
    <3>1. g \in TaskGroup
      BY GroupsNotScheduled
    <3>2. CASE j \in ToSet(mtasks[g])
      BY <1>7, <2>1, <3>1, <3>2 DEF PlacesInv, BatchOK
    <3>3. CASE g \in groups /\ j \in ToSet(posted[m][g])
      <4>1. u = m
        BY <1>1, <2>1, <3>1, <3>3 DEF PlacesInv, QueuesOK
      <4> QED BY <1>7, <3>1, <3>3, <4>1
    <3> QED BY <1>6, <3>1, <3>2, <3>3
  <2> QED BY <1>1, <1>2, <2>1 DEF BatchOK
<1> QED BY <1>10, <1>11, <1>12, <1>13 DEF PlacesInv
\* Thread t takes the task i of batch g.
LEMMA PlacesTake ==
    ASSUME TypeOK, Rest, PlacesInv, NEW t \in Threads, NEW g \in TaskGroup,
           NEW i \in Ids, NEW q, running[t] = 0, Begin(t, i),
           mtasks' = [mtasks EXCEPT ![g] = q],
           ToSet(mtasks[g]) = {i} \cup ToSet(q), i \notin ToSet(q), IsInjective(q),
           pc \notin {"walk", "serial"} \/ (t = Main /\ g \in SerialGroups),
           UNCHANGED <<task, posted, postedSched, sched, pc>>
    PROVE  PlacesInv'
<1> USE ThreadsAssumption
<1>1. Ids' = Ids /\ Scheduled' = Scheduled
  BY DEF Ids, Scheduled
<1>2. /\ \A h \in TaskGroup : ToSet(mtasks'[h]) = ToSet(mtasks[h]) \ (IF h = g THEN {i} ELSE {})
      /\ \A h \in TaskGroup : IsInjective(mtasks'[h])
  <2>1. \A h \in TaskGroup : mtasks'[h] = IF h = g THEN q ELSE mtasks[h]
    BY DEF TypeOK
  <2> QED BY <2>1 DEF PlacesInv, QueuesOK
<1>3. i \in ToSet(mtasks[g]) /\ task[i].kind = g /\ i \notin Scheduled
  BY QueueSets, GroupsNotScheduled DEF Rest, Scheduled
<1>4. \/ Executing' = Executing \cup {i} /\ done' = done /\ running' = [running EXCEPT ![t] = i]
      \/ Executing' = Executing /\ done' = done \cup {i} /\ running' = running
  <2>1. CASE Executes(i)
    BY <2>1, ExecutingMore DEF Begin
  <2>2. CASE ~Executes(i)
    BY <2>2 DEF Begin, Executing
  <2> QED BY <2>1, <2>2
<1>5. i \notin done \cup Executing
  BY <1>3 DEF PlacesInv, QueuesOK
<1>6. ASSUME NEW h \in TaskGroup, h # g
      PROVE  i \notin ToSet(mtasks[h]) /\ \A u \in Threads : i \notin ToSet(posted[u][h])
  BY <1>3, <1>6, QueueSets DEF Rest
<1>7. \A u \in Threads : i \notin ToSet(posted[u][g])
  BY <1>3 DEF PlacesInv, QueuesOK
<1>8. done' \cup Executing' = done \cup Executing \cup {i}
  BY <1>4
<1>9. QueuesOK'
  <2>1. ASSUME NEW h \in TaskGroup
        PROVE  /\ ToSet(mtasks[h]) \cap (done \cup Executing) = {}
               /\ \A u \in Threads :
                     /\ ToSet(posted[u][h]) \cap (ToSet(mtasks[h]) \cup done \cup Executing) = {}
                     /\ i \notin ToSet(posted[u][h])
    BY <1>6, <1>7 DEF PlacesInv, QueuesOK
  <2>2. ASSUME NEW h \in TaskGroup
        PROVE  i \notin ToSet(mtasks'[h]) /\ ToSet(mtasks'[h]) \subseteq ToSet(mtasks[h])
    BY <1>2, <1>6
  <2>3. ASSUME NEW h \in TaskGroup
        PROVE  /\ ToSet(mtasks'[h]) \cap (done' \cup Executing') = {}
               /\ \A u \in Threads :
                     ToSet(posted[u][h]) \cap (ToSet(mtasks'[h]) \cup done' \cup Executing') = {}
    BY <1>8, <2>1, <2>2
  <2> QED BY <1>2, <2>3 DEF PlacesInv, QueuesOK
<1>10. ExecutingOK'
  <2>1. Executing' \cap done' = {}
    BY <1>4, <1>5 DEF PlacesInv, ExecutingOK
  <2>2. \A u, v \in Threads : running'[u] = running'[v] /\ running'[u] # 0 => u = v
    <3>1. CASE running' = running
      BY <3>1 DEF PlacesInv, ExecutingOK
    <3>2. CASE running' = [running EXCEPT ![t] = i]
      <4>1. \A u \in Threads : running'[u] = IF u = t THEN i ELSE running[u]
        BY <3>2 DEF TypeOK
      <4>2. \A u \in Threads : running[u] # i
        <5>1. i # 0
          BY QueueSets DEF Rest
        <5> QED BY <1>5, <5>1 DEF Executing
      <4> QED BY <4>1, <4>2 DEF PlacesInv, ExecutingOK
    <3> QED BY <1>4, <3>1, <3>2
  <2> QED BY <2>1, <2>2 DEF ExecutingOK
<1>11. NoneLost'
  <2>1. ASSUME NEW j \in Ids \ Scheduled
        PROVE  j \in done' \cup Executing' \cup ToSet(mtasks'[task[j].kind])
                        \cup ToSet(posted[task[j].by][task[j].kind])
    <3>1. task[j].kind \in TaskGroup
      BY KindOfTask
    <3> QED BY <1>2, <1>8, <3>1 DEF PlacesInv, NoneLost
  <2>2. \A j \in Scheduled : j \in done' \cup Executing' \cup sched
                                 \cup UNION {postedSched[u] : u \in Threads}
    BY <1>8 DEF PlacesInv, NoneLost
  <2> QED BY <1>1, <2>1, <2>2 DEF NoneLost
<1>12. BatchOK'
  <2>1. ASSUME NEW h \in SerialGroups, NEW u \in Threads, NEW k \in ToSet(posted[u][h]),
               NEW j \in ToSet(mtasks'[h]) \cup Executing', task[j].kind = h, task[j].by = u
        PROVE  j < k
    <3>1. h \in TaskGroup
      BY GroupsNotScheduled
    <3>2. j \in ToSet(mtasks[h]) \cup Executing
      BY <1>2, <1>3, <1>4, <2>1, <3>1
    <3> QED BY <2>1, <3>2 DEF PlacesInv, BatchOK
  <2>2. pc \in {"walk", "serial"} /\ running'[Main] # 0 => task[running'[Main]].kind \in SerialGroups
    <3>1. running'[Main] = running[Main] \/ (running'[Main] = i /\ t = Main)
      BY <1>4 DEF TypeOK
    <3> QED BY <1>3, <3>1 DEF PlacesInv, BatchOK
  <2> QED BY <2>1, <2>2 DEF BatchOK
<1> QED BY <1>9, <1>10, <1>11, <1>12 DEF PlacesInv

LEMMA PlacesSerial == TypeOK /\ Rest /\ PlacesInv /\ executeSerialEvent => PlacesInv'
<1> SUFFICES ASSUME TypeOK, Rest, PlacesInv, executeSerialEvent PROVE PlacesInv'
  OBVIOUS
<1> USE ThreadsAssumption
<1> DEFINE g == GroupOf[pc]
           i == Head(mtasks[g])
           q == Tail(mtasks[g])
<1>1. g \in TaskGroup /\ g \in SerialGroups
  BY GroupOfPhase DEF executeSerialEvent, GroupOf, SerialGroups
<1>2. mtasks[g] \in Seq(Ids) /\ mtasks[g] # <<>> /\ IsInjective(mtasks[g])
  BY <1>1 DEF executeSerialEvent, TypeOK, PlacesInv, QueuesOK
<1>3. /\ i \in Ids /\ ToSet(mtasks[g]) = {i} \cup ToSet(q)
      /\ i \notin ToSet(q) /\ IsInjective(q)
  BY <1>2, TailSet
<1>4. /\ running[Main] = 0 /\ Begin(Main, i) /\ mtasks' = [mtasks EXCEPT ![g] = q]
      /\ UNCHANGED <<task, posted, postedSched, sched, pc>>
  BY DEF executeSerialEvent
<1> HIDE DEF g, i, q
<1> QED BY <1>1, <1>3, <1>4, PlacesTake

LEMMA PlacesParallel ==
    ASSUME TypeOK, Rest, PlacesInv, NEW t \in Threads, executeParallelEvent(t)
    PROVE  PlacesInv'
<1> DEFINE g == GroupOf[pc]
<1>1. g \in TaskGroup /\ pc \notin {"walk", "serial"}
  BY GroupOfPhase DEF executeParallelEvent, Parallel
<1>2. mtasks[g] \in Seq(Ids) /\ IsInjective(mtasks[g])
  BY <1>1 DEF TypeOK, PlacesInv, QueuesOK
<1>3. PICK k \in 1..Len(mtasks[g]) :
          /\ Begin(t, mtasks[g][k])
          /\ mtasks' = [mtasks EXCEPT ![g] = RemoveAt(mtasks[g], k)]
  BY DEF executeParallelEvent
<1>4. running[t] = 0 /\ UNCHANGED <<task, posted, postedSched, sched, pc>>
  BY DEF executeParallelEvent
<1> HIDE DEF g
<1> DEFINE i == mtasks[g][k]
           q == RemoveAt(mtasks[g], k)
<1>5. /\ i \in Ids /\ ToSet(mtasks[g]) = {i} \cup ToSet(q)
      /\ i \notin ToSet(q) /\ IsInjective(q)
  BY <1>2, RemoveAtSet
<1>6. Begin(t, i) /\ mtasks' = [mtasks EXCEPT ![g] = q]
  BY <1>3
<1> HIDE DEF i, q
<1> QED BY <1>1, <1>4, <1>5, <1>6, PlacesTake

LEMMA PlacesReturns ==
    ASSUME TypeOK, Rest, PlacesInv, NEW t \in Threads, TaskReturns(t)
    PROVE  PlacesInv'
<1> DEFINE i == running[t]
<1>1. /\ Ids' = Ids /\ Scheduled' = Scheduled
      /\ UNCHANGED <<task, posted, postedSched, mtasks, sched, pc>>
  BY DEF TaskReturns, Ids, Scheduled
<1>2. /\ i \in Executing /\ Executing' = Executing \ {i} /\ done' = done \cup {i}
      /\ \A u, v \in Threads : running'[u] = running'[v] /\ running'[u] # 0 => u = v
  BY ExecutingLess DEF TaskReturns, PlacesInv
<1> HIDE DEF i
<1>3. done' \cup Executing' = done \cup Executing
  BY <1>2
<1>4. QueuesOK'
  <2>1. ASSUME NEW g \in TaskGroup
        PROVE  /\ ToSet(mtasks[g]) \cap (done' \cup Executing') = {}
               /\ \A u \in Threads :
                     ToSet(posted[u][g]) \cap (ToSet(mtasks[g]) \cup done' \cup Executing') = {}
    BY <1>3 DEF PlacesInv, QueuesOK
  <2> QED BY <1>1, <2>1 DEF PlacesInv, QueuesOK
<1>5. ExecutingOK'
  BY <1>2 DEF PlacesInv, ExecutingOK
<1>6. NoneLost'
  BY <1>1, <1>3 DEF PlacesInv, NoneLost
<1>7. BatchOK'
  <2>1. running'[Main] = running[Main] \/ running'[Main] = 0
    BY DEF TaskReturns, TypeOK
  <2> QED BY <1>1, <1>2, <2>1 DEF PlacesInv, BatchOK
<1> QED BY <1>4, <1>5, <1>6, <1>7 DEF PlacesInv

\* Starting, discarding, ending or re-arming a scheduled event disturbs no
\* queue: its id is in none.
LEMMA ScheduledKeeps ==
    ASSUME TypeOK, Rest, PlacesInv, NEW i \in Scheduled, Ids' = Ids,
           pc' = pc, pc \notin {"walk", "serial"},
           \A j \in Ids : task'[j].kind = task[j].kind /\ task'[j].by = task[j].by,
           UNCHANGED <<posted, mtasks>>,
           done' \cup Executing' \subseteq done \cup Executing \cup {i},
           done \cup Executing \subseteq done' \cup Executing' \cup {i},
           Executing' \subseteq Executing \cup {i}
    PROVE  /\ QueuesOK' /\ BatchOK' /\ Scheduled' = Scheduled
           /\ \A j \in Ids \ Scheduled :
                 j \in done' \cup Executing' \cup ToSet(mtasks[task'[j].kind])
                           \cup ToSet(posted[task'[j].by][task'[j].kind])
<1>1. Scheduled' = Scheduled /\ Scheduled \subseteq Ids
  BY DEF Scheduled
<1>2. ASSUME NEW g \in TaskGroup
      PROVE  /\ i \notin ToSet(mtasks[g]) /\ ToSet(mtasks[g]) \subseteq Ids
             /\ \A u \in Threads : i \notin ToSet(posted[u][g]) /\ ToSet(posted[u][g]) \subseteq Ids
  BY QueueSets, GroupsNotScheduled DEF Rest, Scheduled
<1>3. QueuesOK'
  <2>1. ASSUME NEW g \in TaskGroup
        PROVE  /\ ToSet(mtasks[g]) \cap (done' \cup Executing') = {}
               /\ \A u \in Threads :
                     /\ ToSet(posted[u][g]) \cap (ToSet(mtasks[g]) \cup done' \cup Executing') = {}
                     /\ \A j \in ToSet(posted[u][g]) : task'[j].by = u
    <3>1. /\ ToSet(mtasks[g]) \cap (done \cup Executing) = {}
          /\ \A u \in Threads :
                /\ ToSet(posted[u][g]) \cap (ToSet(mtasks[g]) \cup done \cup Executing) = {}
                /\ \A j \in ToSet(posted[u][g]) : task[j].by = u
      BY DEF PlacesInv, QueuesOK
    <3> QED BY <1>2, <3>1
  <2> QED BY <2>1 DEF PlacesInv, QueuesOK
<1>4. BatchOK'
  <2>1. ASSUME NEW g \in SerialGroups, NEW u \in Threads, NEW k \in ToSet(posted[u][g]),
               NEW j \in ToSet(mtasks[g]) \cup Executing', task'[j].kind = g, task'[j].by = u
        PROVE  j < k
    <3>1. Executing \subseteq Ids /\ g \in TaskGroup
      BY QueueSets, GroupsNotScheduled DEF Rest
    <3>2. j \in Ids /\ task[j].kind = g /\ task[j].by = u /\ j # i
      BY <1>1, <1>2, <2>1, <3>1, GroupsNotScheduled DEF Scheduled
    <3> QED BY <3>2 DEF PlacesInv, BatchOK
  <2> QED BY <2>1 DEF BatchOK
<1>5. ASSUME NEW j \in Ids \ Scheduled
      PROVE  j \in done' \cup Executing' \cup ToSet(mtasks[task'[j].kind])
                       \cup ToSet(posted[task'[j].by][task'[j].kind])
  BY <1>1 DEF PlacesInv, NoneLost
<1> QED BY <1>1, <1>3, <1>4, <1>5

LEMMA PlacesScheduledBegins ==
    TypeOK /\ Rest /\ PlacesInv /\ executeScheduledEvent => PlacesInv'
<1> SUFFICES ASSUME TypeOK, Rest, PlacesInv, executeScheduledEvent PROVE PlacesInv'
  OBVIOUS
<1> USE ThreadsAssumption
<1>1. PICK i \in sched : sched' = sched \ {i} /\ Begin(Main, i)
  BY DEF executeScheduledEvent
<1>2. /\ i \in Scheduled /\ i \in Ids /\ i \notin done /\ i # 0
      /\ pc = "sched" /\ pc' = pc /\ running[Main] = 0
      /\ Ids' = Ids /\ UNCHANGED <<task, posted, mtasks, postedSched>>
  BY DEF executeScheduledEvent, Rest, KindsOK, ListsOK, Scheduled, Ids, TypeOK
<1>3. Executing = {}
  BY <1>2, MergePhases DEF Rest, RunningOK, Executing
<1>4. \/ Executing' = {i} /\ done' = done /\ running' = [running EXCEPT ![Main] = i]
      \/ Executing' = {} /\ done' = done \cup {i} /\ running' = running
  <2>1. CASE Executes(i)
    BY <1>1, <1>2, <1>3, <2>1, ExecutingMore DEF Begin
  <2>2. CASE ~Executes(i)
    BY <1>1, <1>3, <2>2 DEF Begin, Executing
  <2> QED BY <2>1, <2>2
<1>5. /\ QueuesOK' /\ BatchOK' /\ Scheduled' = Scheduled
      /\ \A j \in Ids \ Scheduled :
            j \in done' \cup Executing' \cup ToSet(mtasks[task'[j].kind])
                      \cup ToSet(posted[task'[j].by][task'[j].kind])
  BY <1>2, <1>3, <1>4, ScheduledKeeps
<1>6. ExecutingOK'
  <2>1. \A u, v \in Threads : running'[u] = running'[v] /\ running'[u] # 0 => u = v
    <3>1. \A u \in Threads : running[u] = 0
      BY <1>3 DEF Executing
    <3>2. \A u \in Threads : running'[u] # 0 => u = Main
      BY <1>4, <3>1 DEF TypeOK
    <3> QED BY <3>2
  <2> QED BY <1>2, <1>4, <2>1 DEF ExecutingOK
<1>7. NoneLost'
  BY <1>1, <1>2, <1>3, <1>4, <1>5 DEF PlacesInv, NoneLost
<1> QED BY <1>5, <1>6, <1>7 DEF PlacesInv

LEMMA PlacesScheduledReturns ==
    TypeOK /\ Rest /\ PlacesInv /\ ScheduledReturns => PlacesInv'
<1> SUFFICES ASSUME TypeOK, Rest, PlacesInv, ScheduledReturns PROVE PlacesInv'
  OBVIOUS
<1> USE ThreadsAssumption
<1> DEFINE i == running[Main]
<1>1. i \in Ids /\ i \in Scheduled /\ i # 0
  BY DEF ScheduledReturns, TypeOK, Rest, RunningOK
<1>2. /\ pc = "sched" /\ UNCHANGED <<posted, mtasks, sched, pc>>
      /\ running' = [running EXCEPT ![Main] = 0]
  BY DEF ScheduledReturns
<1>3. /\ i \in Executing /\ Executing' = Executing \ {i}
      /\ \A u, v \in Threads : running'[u] = running'[v] /\ running'[u] # 0 => u = v
  BY <1>1, <1>2, ExecutingLess DEF PlacesInv
<1>4. /\ Ids' = Ids
      /\ \A j \in Ids : task'[j].kind = task[j].kind /\ task'[j].by = task[j].by
  <2>1. CASE isCycle(i)
    <3>1. task' = [task EXCEPT ![i] = [task[i] EXCEPT !.due = task[i].delay]]
      BY <2>1 DEF ScheduledReturns
    <3>2. /\ [task[i] EXCEPT !.due = task[i].delay].kind = task[i].kind
          /\ [task[i] EXCEPT !.due = task[i].delay].by = task[i].by
      <4>1. task[i] \in TaskRecord
        BY <1>1 DEF TypeOK, Ids
      <4> QED BY <4>1 DEF TaskRecord
    <3> QED BY <3>1, <3>2 DEF TypeOK, Ids
  <2>2. CASE ~isCycle(i)
    BY <2>2 DEF ScheduledReturns, Ids
  <2> QED BY <2>1, <2>2
<1>5. \/ /\ postedSched' = [postedSched EXCEPT ![Main] = postedSched[Main] \cup {i}]
         /\ done' = done
      \/ postedSched' = postedSched /\ done' = done \cup {i}
  BY DEF ScheduledReturns
<1> HIDE DEF i
<1>6. /\ QueuesOK' /\ BatchOK' /\ Scheduled' = Scheduled
      /\ \A j \in Ids \ Scheduled :
            j \in done' \cup Executing' \cup ToSet(mtasks[task'[j].kind])
                      \cup ToSet(posted[task'[j].by][task'[j].kind])
  BY <1>1, <1>2, <1>3, <1>4, <1>5, ScheduledKeeps
<1>7. ExecutingOK'
  BY <1>3, <1>5 DEF PlacesInv, ExecutingOK
<1>8. \A j \in Scheduled : j \in done' \cup Executing' \cup sched
                               \cup UNION {postedSched'[u] : u \in Threads}
  <2>1. /\ \A u \in Threads : postedSched[u] \subseteq postedSched'[u]
        /\ i \in done' \/ i \in postedSched'[Main]
    BY <1>5 DEF TypeOK
  <2> TAKE j \in Scheduled
  <2>2. CASE j = i
    BY <2>1, <2>2
  <2>3. CASE j \in UNION {postedSched[u] : u \in Threads}
    <3>1. PICK u \in Threads : j \in postedSched[u]
      BY <2>3
    <3> QED BY <2>1, <3>1
  <2>4. CASE j # i /\ j \in done \cup Executing \cup sched
    BY <1>3, <1>5, <2>4
  <2> QED BY <2>2, <2>3, <2>4 DEF PlacesInv, NoneLost
<1>9. NoneLost'
  BY <1>2, <1>4, <1>6, <1>8 DEF NoneLost
<1> QED BY <1>6, <1>7, <1>9 DEF PlacesInv

LEMMA PlacesStep == TypeOK /\ Rest /\ PlacesInv /\ [Next]_vars => PlacesInv'
<1> SUFFICES ASSUME TypeOK, Rest, PlacesInv, [Next]_vars PROVE PlacesInv'
  OBVIOUS
<1>1. CASE \E t \in Threads : Call(t) \/ SafeCallReturns(t)
  BY <1>1, PlacesCall
<1>2. CASE \E i \in Ids : stopEvent(i)
  BY <1>2, PlacesStop
<1>3. CASE LoopStep
  BY <1>3, PlacesMerge, PlacesControl, PlacesSerial, PlacesScheduledBegins,
     PlacesScheduledReturns, PlacesTurn DEF LoopStep, NextTurn
<1>4. CASE \E t \in Threads : executeParallelEvent(t) \/ TaskReturns(t)
  BY <1>4, PlacesParallel, PlacesReturns
<1>5. CASE WakeByTimeout \/ WakeSpuriously
  BY <1>5, PlacesTurn DEF NextTurn
<1>6. CASE Shutdown
  BY <1>6, PlacesControl
<1>7. CASE UNCHANGED vars
  BY <1>7, PlacesSame DEF vars, Ids
<1> QED BY <1>1, <1>2, <1>3, <1>4, <1>5, <1>6, <1>7 DEF Next

\* The inductive invariant of where tasks are, through __mergeEvents, the two
\* execute functions, re-arming and early returns.
THEOREM PlacesKept == Spec => [](Inv /\ PlacesInv)
<1>1. Init => PlacesInv
  BY PlacesInit
<1>2. Inv /\ PlacesInv /\ [Next]_vars => PlacesInv'
  BY PlacesStep DEF Inv, Rest
<1> QED BY <1>1, <1>2, Invariance, PTL DEF Spec

\* One of six sets has one element, and the others none.
Tagged(place, S) == {<<place, x>> : x \in S}
Tags(A, B, C, D, E, F) ==
    Tagged("posted", A) \cup Tagged("listed", B) \cup Tagged("merged", C)
      \cup Tagged("sched", D) \cup Tagged("running", E) \cup Tagged("done", F)
Alone(A, B, C, D, E, F) ==
    \/ (\E q : A = {q}) /\ B = {} /\ C = {} /\ D = {} /\ E = {} /\ F = {}
    \/ (\E q : B = {q}) /\ A = {} /\ C = {} /\ D = {} /\ E = {} /\ F = {}
    \/ (\E q : C = {q}) /\ A = {} /\ B = {} /\ D = {} /\ E = {} /\ F = {}
    \/ (\E q : D = {q}) /\ A = {} /\ B = {} /\ C = {} /\ E = {} /\ F = {}
    \/ (\E q : E = {q}) /\ A = {} /\ B = {} /\ C = {} /\ D = {} /\ F = {}
    \/ (\E q : F = {q}) /\ A = {} /\ B = {} /\ C = {} /\ D = {} /\ E = {}

LEMMA TaggedOne ==
    ASSUME NEW place, NEW q
    PROVE  Tagged(place, {q}) = {<<place, q>>} /\ Tagged(place, {}) = {}
BY DEF Tagged

LEMMA AloneIsOne ==
    ASSUME NEW A, NEW B, NEW C, NEW D, NEW E, NEW F, Alone(A, B, C, D, E, F)
    PROVE  \E p \in Tags(A, B, C, D, E, F) : Tags(A, B, C, D, E, F) = {p}
<1> DEFINE P == Tags(A, B, C, D, E, F)
<1>1. SUFFICES \E p : P = {p}
  OBVIOUS
<1>3. CASE (\E q : A = {q}) /\ B = {} /\ C = {} /\ D = {} /\ E = {} /\ F = {}
  <2>1. PICK q : A = {q}
    BY <1>3
  <2>2. P = {<<"posted", q>>}
    BY <1>3, <2>1, TaggedOne, Zenon DEF Tags
  <2> QED BY <2>2
<1>4. CASE (\E q : B = {q}) /\ A = {} /\ C = {} /\ D = {} /\ E = {} /\ F = {}
  <2>1. PICK q : B = {q}
    BY <1>4
  <2>2. P = {<<"listed", q>>}
    BY <1>4, <2>1, TaggedOne, Zenon DEF Tags
  <2> QED BY <2>2
<1>5. CASE (\E q : C = {q}) /\ A = {} /\ B = {} /\ D = {} /\ E = {} /\ F = {}
  <2>1. PICK q : C = {q}
    BY <1>5
  <2>2. P = {<<"merged", q>>}
    BY <1>5, <2>1, TaggedOne, Zenon DEF Tags
  <2> QED BY <2>2
<1>6. CASE (\E q : D = {q}) /\ A = {} /\ B = {} /\ C = {} /\ E = {} /\ F = {}
  <2>1. PICK q : D = {q}
    BY <1>6
  <2>2. P = {<<"sched", q>>}
    BY <1>6, <2>1, TaggedOne, Zenon DEF Tags
  <2> QED BY <2>2
<1>7. CASE (\E q : E = {q}) /\ A = {} /\ B = {} /\ C = {} /\ D = {} /\ F = {}
  <2>1. PICK q : E = {q}
    BY <1>7
  <2>2. P = {<<"running", q>>}
    BY <1>7, <2>1, TaggedOne, Zenon DEF Tags
  <2> QED BY <2>2
<1>8. CASE (\E q : F = {q}) /\ A = {} /\ B = {} /\ C = {} /\ D = {} /\ E = {}
  <2>1. PICK q : F = {q}
    BY <1>8
  <2>2. P = {<<"done", q>>}
    BY <1>8, <2>1, TaggedOne, Zenon DEF Tags
  <2> QED BY <2>2
<1> QED BY <1>3, <1>4, <1>5, <1>6, <1>7, <1>8 DEF Alone

\* Through pushes, merges with their swap, partitions, re-armed cycle events
\* and early returns, every task is in exactly one place.
THEOREM TasksInOnePlace == Spec => []ExactlyOnePlace
<1> SUFFICES ASSUME Inv, PlacesInv PROVE ExactlyOnePlace
  BY PlacesKept, PTL
<1>1. TypeOK /\ Rest /\ KindsOK /\ ListsOK
  BY DEF Inv, Rest
<1> DEFINE InPosted(i) == {q \in Threads \X TaskGroup : i \in ToSet(posted[q[1]][q[2]])}
           InListed(i) == {t \in Threads : i \in postedSched[t]}
           InMerged(i) == {g \in TaskGroup : i \in ToSet(mtasks[g])}
           Running(i) == {t \in Threads : running[t] = i}
<1>2. ASSUME NEW i \in Ids PROVE \E p \in Places(i) : Places(i) = {p}
  <2>1. Places(i) = Tags(InPosted(i), InListed(i), InMerged(i), sched \cap {i}, Running(i),
                         done \cap {i})
    BY DEF Places, Tags, Tagged
  <2> HIDE DEF InPosted, InListed, InMerged, Running
  <2>3. SUFFICES Alone(InPosted(i), InListed(i), InMerged(i), sched \cap {i}, Running(i),
                       done \cap {i})
    BY <2>1, AloneIsOne
  <2>4. i # 0 /\ (i \in Executing => \E t \in Threads : running[t] = i)
    BY <1>1, QueueSets DEF Executing
  <2>5. \A t \in Threads : running[t] = i => i \in Executing /\ Running(i) = {t}
    BY <2>4 DEF Executing, Running, PlacesInv, ExecutingOK
  <2>6. i \notin Executing => Running(i) = {}
    BY <2>5 DEF Running
  <2>7. CASE i \in Scheduled
    <3>1. InPosted(i) = {} /\ InMerged(i) = {}
      BY <1>1, <2>7, QueueSets, GroupsNotScheduled DEF InPosted, InMerged, Scheduled
    <3>2. i \in Executing => running[Main] = i
      BY <2>4, <2>5, <2>7, MergePhases DEF Inv, RunningOK
    <3>3. /\ i \in done => i \notin sched \cup Executing /\ \A t \in Threads : i \notin postedSched[t]
          /\ i \in Executing => i \notin sched /\ \A t \in Threads : i \notin postedSched[t]
          /\ i \in sched => \A t \in Threads : i \notin postedSched[t]
      BY <1>1, <3>2 DEF ListsOK, PlacesInv, ExecutingOK
    <3> USE DEF Alone
    <3>4. CASE i \in done \/ i \in Executing \/ i \in sched
      <4>1. InListed(i) = {}
        BY <3>3, <3>4 DEF InListed
      <4>2. i \notin done => done \cap {i} = {}
        OBVIOUS
      <4>3. i \notin sched => sched \cap {i} = {}
        OBVIOUS
      <4>4. CASE i \in done
        BY <2>6, <3>1, <3>3, <4>1, <4>3, <4>4
      <4>5. CASE i \in Executing
        BY <2>4, <2>5, <3>1, <3>3, <4>1, <4>2, <4>3, <4>5
      <4>6. CASE i \in sched /\ i \notin Executing /\ i \notin done
        BY <2>6, <3>1, <4>1, <4>2, <4>6
      <4> QED BY <3>4, <4>4, <4>5, <4>6
    <3>5. CASE i \notin done \cup Executing \cup sched
      <4>1. PICK t \in Threads : i \in postedSched[t]
        BY <2>7, <3>5 DEF PlacesInv, NoneLost
      <4>2. InListed(i) = {t}
        BY <1>1, <4>1 DEF InListed, ListsOK
      <4> QED BY <2>6, <3>1, <3>5, <4>2
    <3> QED BY <3>4, <3>5
  <2>8. CASE i \notin Scheduled
    <3> DEFINE g == task[i].kind
               t == task[i].by
    <3>1. g \in TaskGroup /\ t \in Threads
      BY <1>1, <2>8, KindOfTask
    <3>2. InListed(i) = {} /\ sched \cap {i} = {}
      BY <1>1, <2>8 DEF InListed, KindsOK
    <3>3. /\ \A h \in TaskGroup : i \in ToSet(mtasks[h]) => h = g
          /\ \A h \in TaskGroup, u \in Threads : i \in ToSet(posted[u][h]) => h = g /\ u = t
      BY <1>1, QueueSets DEF PlacesInv, QueuesOK
    <3>4. i \in done \cup Executing \cup ToSet(mtasks[g]) \cup ToSet(posted[t][g])
      BY <2>8 DEF PlacesInv, NoneLost
    <3>5. /\ i \in ToSet(mtasks[g]) => i \notin done \cup Executing
          /\ i \in ToSet(posted[t][g]) => i \notin ToSet(mtasks[g]) \cup done \cup Executing
          /\ i \in Executing => i \notin done
      BY <3>1 DEF PlacesInv, QueuesOK, ExecutingOK
    <3>6. InMerged(i) = IF i \in ToSet(mtasks[g]) THEN {g} ELSE {}
      BY <3>1, <3>3 DEF InMerged
    <3>7. InPosted(i) = IF i \in ToSet(posted[t][g]) THEN {<<t, g>>} ELSE {}
      BY <3>1, <3>3 DEF InPosted
    <3> HIDE DEF g, t
    <3> USE DEF Alone
    <3>8. CASE i \in done
      <4>1. done \cap {i} = {i} /\ i \notin Executing /\ i \notin ToSet(mtasks[g]) /\ i \notin ToSet(posted[t][g])
        BY <3>5, <3>8
      <4> QED BY <2>6, <3>2, <3>6, <3>7, <4>1
    <3>9. CASE i \in Executing
      <4>1. done \cap {i} = {} /\ i \notin ToSet(mtasks[g]) /\ i \notin ToSet(posted[t][g])
        BY <3>5, <3>9
      <4> QED BY <2>4, <2>5, <3>2, <3>6, <3>7, <3>9, <4>1
    <3>10. CASE i \in ToSet(mtasks[g])
      <4>1. done \cap {i} = {} /\ i \notin Executing /\ i \notin ToSet(posted[t][g])
        BY <3>5, <3>10
      <4> QED BY <2>6, <3>2, <3>6, <3>7, <3>10, <4>1
    <3>11. CASE i \in ToSet(posted[t][g])
      <4>1. done \cap {i} = {} /\ i \notin Executing /\ i \notin ToSet(mtasks[g])
        BY <3>5, <3>11
      <4> QED BY <2>6, <3>2, <3>6, <3>7, <3>11, <4>1
    <3> QED BY <3>4, <3>8, <3>9, <3>10, <3>11
  <2> QED BY <2>7, <2>8
<1> QED BY <1>1, <1>2 DEF ExactlyOnePlace, PlacesInv, QueuesOK

\* The swap of __mergeEvents lets a serial event overtake another of the same
\* thread and group only if both are already in the batch being executed.
THEOREM OvertakingInBatch == Spec => []OvertakingStaysInBatch
<1> SUFFICES ASSUME Inv, PlacesInv PROVE OvertakingStaysInBatch
  BY PlacesKept, PTL
<1> USE ThreadsAssumption
<1>1. TypeOK /\ Rest
  BY DEF Inv, Rest
<1> DEFINE j == running[Main]
<1>2. SUFFICES ASSUME j # 0, pc \in {"walk", "serial"}, NEW i \in 1..(j - 1),
                      task[i].kind = task[j].kind, task[i].by = task[j].by
               PROVE  i \in done \cup ToSet(mtasks[task[j].kind])
  BY DEF OvertakingStaysInBatch
<1> DEFINE g == task[j].kind
           t == task[j].by
<1>3. j \in Executing /\ j \in Ids /\ g \in SerialGroups /\ g \in TaskGroup /\ t \in Threads
  BY <1>1, <1>2, KindOfTask, GroupsNotScheduled, QueueSets
     DEF PlacesInv, BatchOK, Executing, Rest
<1>4. i \in Ids /\ i < j /\ i \notin Scheduled
  <2>1. Ids = 1..Len(task) /\ Len(task) \in Nat
    BY <1>1 DEF TypeOK, Ids
  <2>2. i \in Ids /\ i < j
    BY <1>3, <2>1
  <2> QED BY <1>2, <1>3, <2>2, GroupsNotScheduled DEF Scheduled
<1>5. i \notin Executing
  <2>1. \A u \in Threads : running[u] # 0 => u = Main
    BY <1>2 DEF Inv, RunningOK, Parallel
  <2>2. i # j
    BY <1>3, <1>4 DEF Ids
  <2> QED BY <2>1, <2>2 DEF Executing
<1>6. i \notin ToSet(posted[t][g])
  <2>1. i \in ToSet(posted[t][g]) => j < i
    BY <1>3 DEF PlacesInv, BatchOK
  <2>2. ~(j < i)
    BY <1>1, <1>3, <1>4 DEF TypeOK, Ids
  <2> QED BY <2>1, <2>2
<1>7. i \in done \cup Executing \cup ToSet(mtasks[task[i].kind])
               \cup ToSet(posted[task[i].by][task[i].kind])
  BY <1>4 DEF PlacesInv, NoneLost
<1> QED BY <1>2, <1>5, <1>6, <1>7
=============================================================================
