----------------------------- MODULE Dispatcher -----------------------------
(***************************************************************************)
(* The event loop that serialises the game: class Dispatcher, its Task     *)
(* and the pool threads it runs on (game/scheduling/dispatcher.cpp and     *)
(* .hpp, task.cpp, lib/thread/thread_pool.hpp).                            *)
(*                                                                         *)
(* Every thread owns a queue per task group and a list of scheduled tasks  *)
(* (ThreadTask); the dispatcher thread merges them, one thread at a time   *)
(* and under that thread's mutex, into its own queues, and runs these.     *)
(* Time is relative: a scheduled task carries the time left until it is    *)
(* due as of the cached OTSYS_TIME(), which only StartIteration and the    *)
(* wake-ups refresh.  A push and its notify() are one step, because both   *)
(* happen under the mutex the merge needs.                                 *)
(***************************************************************************)
EXTENDS Integers, FiniteSets, SequencesExt

CONSTANTS
    NumThreads,   \* threads that ever obtained a ThreadPool::getThreadId()
    Main,         \* the pool thread that runs the loop of Dispatcher::init
    Pool,         \* the other threads of the pool
    NumBeats,     \* cycle events that Game::start schedules and nobody stops
    BeatDelay,    \* their period
    MaxTasks,     \* bound: tasks created in a behaviour
    Delays,       \* delays given to scheduleEvent and cycleEvent
    Cycles,       \* subset of BOOLEAN: which kinds of scheduled events
    Expiries,     \* values of expiresAfterMs; 0 means never
    Lags,         \* by how much OTSYS_TIME() may grow beyond what is forced
    Groups,       \* the task groups the environment posts to
    SafeCallers,  \* threads whose code calls safeCall
    MayHalt       \* whether CanaryServer::shutdown may happen

Threads  == 1..NumThreads
LastThread_PoolOnly == NumThreads - 1
LastThread == NumThreads   \* the last slot of the vector `threads'
Outside  == Threads \ (Pool \cup {Main})  \* asio, signal and startup threads

SerialGroups   == {"Walk", "Serial"}
ParallelGroups == {"WalkParallel", "GenericParallel"}
TaskGroup      == SerialGroups \cup ParallelGroups

ASSUME ThreadsAssumption ==
    /\ NumThreads \in Nat /\ Main \in Threads
    /\ Pool \subseteq Threads \ {Main} /\ IsFiniteSet(Pool)
    /\ SafeCallers \subseteq Threads
ASSUME TasksAssumption ==
    /\ NumBeats \in Nat /\ BeatDelay \in Nat
    /\ MaxTasks \in Nat /\ NumBeats <= MaxTasks
    /\ Delays \subseteq Nat /\ Expiries \subseteq Nat /\ Lags \subseteq Nat
    /\ Cycles \subseteq BOOLEAN /\ Groups \subseteq TaskGroup
    /\ MayHalt \in BOOLEAN

VARIABLES
    task,         \* every Task ever created; its index is its id
    done,         \* ids executed for the last time or discarded
    posted,       \* ThreadTask::tasks: per thread and group, ids in order
    postedSched,  \* ThreadTask::scheduledTasks, per thread
    mtasks,       \* m_tasks: what is left to execute of each merged queue
    sched,        \* scheduledTasks
    ref,          \* keys of scheduledTasksRef
    stopAsked,    \* ids for which stopEvent has been called
    pc,           \* where the loop of init stands
    merging,      \* the next thread that __mergeEvents visits
    own,          \* tasks of partition 0 the dispatcher has still to run
    running,      \* per thread, the task in execution (0: none)
    inline,       \* threads inside an action that safeCall ran in place
    hasPending,   \* hasPendingTasks
    signalled,    \* a notify reached the dispatcher while it waits
    halt          \* progress of CanaryServer::shutdown

vars == <<task, done, posted, postedSched, mtasks, sched, ref, stopAsked, pc,
          merging, own, running, inline, hasPending, signalled, halt>>

-----------------------------------------------------------------------------
(* Tasks. *)

\* Both constructors: `due' is utime - OTSYS_TIME(), `slack' is
\* expiration - OTSYS_TIME(), `live' is func /= nullptr.
Task(kind, t, delay, cycle, ms) ==
    [kind |-> kind, by |-> t, due |-> delay, delay |-> delay, cycle |-> cycle,
     expires |-> ms > 0, slack |-> ms, live |-> TRUE]

Ids         == DOMAIN task
Scheduled   == {i \in Ids : task[i].kind = "Scheduled"}
isCanceled_Ignored(i) == i \notin Ids
isCanceled(i) == ~task[i].live
hasExpired(i) == task[i].expires /\ task[i].slack < 0
isCycle_OneShot(i) == i \notin Ids
isCycle(i)    == task[i].cycle
\* Task::execute calls func only past both early returns.
Executes(i) == ~isCanceled(i) /\ ~hasExpired(i)

\* Mutated forms, here and below, are named <definition>_<defect>: a run that
\* puts one in the place of the definition must see a property fail.
Aged_Unclamped(i, e) == IF i \in done THEN task[i]
                        ELSE [task[i] EXCEPT !.due = @ - e]

\* OTSYS_TIME() grew by e: what was due stays due, what had expired stays so.
Aged(i, e) ==
    LET later(n, floor) == IF n - e < floor THEN floor ELSE n - e
    IN  IF i \in done THEN task[i]
        ELSE [task[i] EXCEPT !.due = later(@, 0), !.slack = later(@, -1)]

-----------------------------------------------------------------------------
(* The loop of init, as a cycle of phases. *)

After == [walkMerge   |-> "walkCheck",   walkCheck   |-> "walk",
          walk        |-> "walkAsync",   walkAsync   |-> "walkSplit",
          walkSplit   |-> "walkPar",     walkPar     |-> "serialMerge",
          serialMerge |-> "serialCheck", serialCheck |-> "serial",
          serial      |-> "serialAsync", serialAsync |-> "genSplit",
          genSplit    |-> "genPar",      genPar      |-> "sched",
          sched       |-> "schedAsync",  schedAsync  |-> "lastSplit",
          lastSplit   |-> "lastPar",     lastPar     |-> "endMerge",
          endMerge    |-> "endCheck",    endCheck    |-> "decide"]

FullMerges  == {"walkMerge", "serialMerge", "endMerge"}
AsyncMerges == {"walkAsync", "serialAsync", "schedAsync"}
Checks      == {"walkCheck", "serialCheck", "endCheck"}
Splits      == {"walkSplit", "genSplit", "lastSplit"}
Parallel    == {"walkPar", "genPar", "lastPar"}
Phases      == DOMAIN After \cup {"decide", "parking", "waiting", "exited"}

\* The group that a phase executes.
GroupOf == [walk |-> "Walk", serial |-> "Serial",
            walkSplit |-> "WalkParallel", walkPar |-> "WalkParallel",
            genSplit |-> "GenericParallel", genPar |-> "GenericParallel",
            lastSplit |-> "GenericParallel", lastPar |-> "GenericParallel"]

\* dispacherContext.type of thread t.
ContextType(t) ==
    CASE running[t] = 0                          -> "None"
      [] running[t] # 0 /\ pc \in Parallel       -> "AsyncEvent"
      [] running[t] # 0 /\ pc \in {"walk", "serial"} -> "Event"
      [] OTHER -> IF isCycle(running[t]) THEN "CycleEvent"
                                            ELSE "ScheduledEvent"
isAsync(t) == ContextType(t) = "AsyncEvent"

-----------------------------------------------------------------------------
EmptyQueues == [g \in TaskGroup |-> <<>>]

Init ==
    /\ task = [i \in 1..NumBeats |-> Task("Scheduled", Main, BeatDelay, TRUE, 0)]
    /\ done = {} /\ stopAsked = {} /\ inline = {}
    /\ posted = [t \in Threads |-> EmptyQueues]
    /\ postedSched = [t \in Threads |-> {}]
    /\ mtasks = EmptyQueues
    /\ sched = 1..NumBeats /\ ref = 1..NumBeats
    /\ pc = "walkMerge" /\ merging = 1 /\ own = 0
    /\ running = [t \in Threads |-> 0]
    /\ hasPending = FALSE /\ signalled = FALSE
    /\ halt = "no"

-----------------------------------------------------------------------------
(* Calls, made by a task in execution or by a thread outside the pool. *)

shuttingDown == halt \in {"closed", "stopped"}

\* Pool threads reach the dispatcher only through the tasks they execute.
CanCall(t) == (t \in Outside \/ running[t] # 0) /\ ~shuttingDown

\* notify(): the condition variable is signalled only when the flag was
\* clear, and only a dispatcher that already waits hears it.
Notify ==
    /\ hasPending' = TRUE
    /\ signalled' = (signalled \/ (~hasPending /\ pc = "waiting"))

Create(new) == /\ Len(task) < MaxTasks
               /\ task' = Append(task, new)
NewId == Len(task) + 1

\* addEvent, addWalkEvent and asyncEvent: push on the caller's own queue.
Post(t, g, ms) ==
    /\ CanCall(t)
    /\ Create(Task(g, t, 0, FALSE, ms))
    /\ posted' = [posted EXCEPT ![t][g] = Append(@, NewId)]
    /\ Notify
    /\ UNCHANGED <<done, postedSched, mtasks, sched, ref, stopAsked, pc,
                   merging, own, running, inline, halt>>

addEvent(t, ms)     == Post(t, "Serial", ms)
addWalkEvent(t, ms) == Post(t, "Walk", ms)
asyncEvent(t, g)    == g \in ParallelGroups /\ Post(t, g, 0)

scheduleEvent(t, delay, cycle) ==
    /\ CanCall(t)
    /\ Create(Task("Scheduled", t, delay, cycle, 0))
    /\ postedSched' = [postedSched EXCEPT ![t] = @ \cup {NewId}]
    /\ ref' = ref \cup {NewId}
    /\ Notify
    /\ UNCHANGED <<done, posted, mtasks, sched, stopAsked, pc, merging, own,
                   running, inline, halt>>

\* stopEvent, called by the serial and scheduled events (and, in this model,
\* never for the beats, which the code does not stop).
stopEvent(i) ==
    /\ running[Main] # 0 /\ pc \notin Parallel
    /\ i \in Scheduled /\ i > NumBeats
    /\ stopAsked' = stopAsked \cup {i}
    /\ IF i \in ref
         THEN /\ task' = [task EXCEPT ![i].live = FALSE]
              /\ ref' = ref \ {i}
         ELSE UNCHANGED <<task, ref>>
    /\ UNCHANGED <<done, posted, postedSched, mtasks, sched, pc, merging, own,
                   running, inline, hasPending, signalled, halt>>

\* safeCall: redirected to the serial queue inside a parallel event, and run
\* in place anywhere else.
safeCall(t) ==
    /\ t \in SafeCallers /\ t \notin inline
    /\ IF isAsync(t)
         THEN addEvent(t, 0)
         ELSE /\ CanCall(t)
              /\ inline' = inline \cup {t}
              /\ UNCHANGED <<task, done, posted, postedSched, mtasks, sched,
                             ref, stopAsked, pc, merging, own, running,
                             hasPending, signalled, halt>>

\* The action that safeCall ran in place returns.
SafeCallReturns(t) ==
    /\ t \in inline
    /\ inline' = inline \ {t}
    /\ UNCHANGED <<task, done, posted, postedSched, mtasks, sched, ref,
                   stopAsked, pc, merging, own, running, hasPending,
                   signalled, halt>>

Call(t) ==
    \/ "Serial" \in Groups /\ \E ms \in Expiries : addEvent(t, ms)
    \/ "Walk" \in Groups /\ \E ms \in Expiries : addWalkEvent(t, ms)
    \/ \E g \in Groups : asyncEvent(t, g)
    \/ \E d \in Delays, c \in Cycles : scheduleEvent(t, d, c)
    \/ safeCall(t)

-----------------------------------------------------------------------------
(* Merging. *)

MergeInto_NoInsertAfterSwap(tasks, threadTasks) ==
    IF Len(threadTasks) > Len(tasks) THEN threadTasks ELSE tasks \o threadTasks

\* The longer of the two queues is kept and the other appended to it.
MergeInto(tasks, threadTasks) ==
    IF Len(threadTasks) > Len(tasks) THEN threadTasks \o tasks
                                     ELSE tasks \o threadTasks

\* One turn of the loop of __mergeEvents: mergeEvents takes the serial groups
\* and the scheduled tasks, mergeAsyncEvents the parallel groups.
mergeThread ==
    LET t      == merging
        full   == pc \in FullMerges
        groups == IF full THEN SerialGroups ELSE ParallelGroups
    IN
    /\ pc \in FullMerges \cup AsyncMerges
    /\ mtasks' = [g \in TaskGroup |->
                    IF g \in groups THEN MergeInto(mtasks[g], posted[t][g])
                                    ELSE mtasks[g]]
    /\ posted' = [posted EXCEPT ![t] = [g \in TaskGroup |->
                    IF g \in groups THEN <<>> ELSE @[g]]]
    /\ IF full
         THEN /\ sched' = sched \cup postedSched[t]
              /\ postedSched' = [postedSched EXCEPT ![t] = {}]
         ELSE UNCHANGED <<sched, postedSched>>
    /\ IF t = LastThread THEN merging' = 1 /\ pc' = After[pc]
                         ELSE merging' = t + 1 /\ UNCHANGED pc
    /\ UNCHANGED <<task, done, ref, stopAsked, own, running, inline,
                   hasPending, signalled, halt>>

checkPendingTasks ==
    /\ pc \in Checks
    /\ hasPending' = (\E g \in TaskGroup : mtasks[g] # <<>>)
    /\ pc' = After[pc]
    /\ UNCHANGED <<task, done, posted, postedSched, mtasks, sched, ref,
                   stopAsked, merging, own, running, inline, signalled, halt>>

-----------------------------------------------------------------------------
(* Executing. *)

\* Thread t meets task i: it runs it, or Task::execute returns early.
Begin(t, i) ==
    IF Executes(i)
      THEN running' = [running EXCEPT ![t] = i] /\ UNCHANGED done
      ELSE done' = done \cup {i} /\ UNCHANGED running

\* executeSerialEvents takes the next task of the group.
executeSerialEvent ==
    /\ pc \in {"walk", "serial"}
    /\ running[Main] = 0 /\ mtasks[GroupOf[pc]] # <<>>
    /\ Begin(Main, Head(mtasks[GroupOf[pc]]))
    /\ mtasks' = [mtasks EXCEPT ![GroupOf[pc]] = Tail(@)]
    /\ UNCHANGED <<task, posted, postedSched, sched, ref, stopAsked, pc,
                   merging, own, inline, hasPending, signalled, halt>>

\* generatePartition: the share of partition 0, which the dispatcher runs.
FirstBlock(n) == LET threads == Cardinality(Pool) + 1
                 IN  (n + threads - 1) \div threads

\* executeParallelEvents returns at once on an empty group, else asyncWait
\* hands every partition but the first to the pool.
splitParallelEvents ==
    /\ pc \in Splits
    /\ own' = FirstBlock(Len(mtasks[GroupOf[pc]]))
    /\ pc' = After[pc]
    /\ UNCHANGED <<task, done, posted, postedSched, mtasks, sched, ref,
                   stopAsked, merging, running, inline, hasPending, signalled,
                   halt>>

\* The dispatcher takes the next task of partition 0, a pool thread any task
\* beyond it.
executeParallelEvent(t) ==
    /\ pc \in Parallel /\ running[t] = 0
    /\ \E k \in 1..Len(mtasks[GroupOf[pc]]) :
          /\ IF t = Main THEN own > 0 /\ k = 1 ELSE t \in Pool /\ k > own
          /\ Begin(t, mtasks[GroupOf[pc]][k])
          /\ mtasks' = [mtasks EXCEPT ![GroupOf[pc]] = RemoveAt(@, k)]
    /\ own' = IF t = Main THEN own - 1 ELSE own
    /\ UNCHANGED <<task, posted, postedSched, sched, ref, stopAsked, pc,
                   merging, inline, hasPending, signalled, halt>>

\* A task of a group returns.
TaskReturns(t) ==
    /\ running[t] # 0 /\ pc # "sched" /\ t \notin inline
    /\ running' = [running EXCEPT ![t] = 0]
    /\ done' = done \cup {running[t]}
    /\ UNCHANGED <<task, posted, postedSched, mtasks, sched, ref, stopAsked,
                   pc, merging, own, inline, hasPending, signalled, halt>>

GroupDone_NoWait ==
    /\ pc \in {"walk", "serial"} \cup Parallel
    /\ mtasks[GroupOf[pc]] = <<>> /\ running[Main] = 0
    /\ pc' = After[pc]
    /\ UNCHANGED <<task, done, posted, postedSched, mtasks, sched, ref,
                   stopAsked, merging, own, running, inline, hasPending,
                   signalled, halt>>

\* The loop of a group is over; for a parallel group, after retFuture.wait().
GroupDone ==
    /\ pc \in {"walk", "serial"} \cup Parallel
    /\ mtasks[GroupOf[pc]] = <<>>
    /\ \A t \in Pool \cup {Main} : running[t] = 0
    /\ pc' = After[pc]
    /\ UNCHANGED <<task, done, posted, postedSched, mtasks, sched, ref,
                   stopAsked, merging, own, running, inline, hasPending,
                   signalled, halt>>

\* executeScheduledEvents takes the earliest scheduled task if it is due; a
\* task that does not execute leaves scheduledTasksRef.
executeScheduledEvent ==
    /\ pc = "sched" /\ running[Main] = 0
    /\ \E i \in sched :
          /\ task[i].due = 0
          /\ sched' = sched \ {i}
          /\ Begin(Main, i)
          /\ ref' = IF Executes(i) THEN ref ELSE ref \ {i}
    /\ UNCHANGED <<task, posted, postedSched, mtasks, stopAsked, pc, merging,
                   own, inline, hasPending, signalled, halt>>

ScheduledReturns_ForgetsCycle ==
    LET i == running[Main]
    IN
    /\ pc = "sched" /\ i # 0 /\ Main \notin inline
    /\ running' = [running EXCEPT ![Main] = 0]
    /\ ref' = ref \ {i}
    /\ IF isCycle(i)
         THEN /\ task' = [task EXCEPT ![i].due = task[i].delay]
              /\ postedSched' = [postedSched EXCEPT ![Main] = @ \cup {i}]
              /\ UNCHANGED done
         ELSE done' = done \cup {i} /\ UNCHANGED <<task, postedSched>>
    /\ UNCHANGED <<posted, mtasks, sched, stopAsked, pc, merging, own, inline,
                   hasPending, signalled, halt>>

\* A scheduled task returns: a cycle event is pushed again, on the
\* dispatcher's own list, anything else leaves scheduledTasksRef.
ScheduledReturns ==
    LET i == running[Main]
    IN
    /\ pc = "sched" /\ i # 0 /\ Main \notin inline
    /\ running' = [running EXCEPT ![Main] = 0]
    /\ IF isCycle(i)
         THEN /\ task' = [task EXCEPT ![i].due = task[i].delay]
              /\ postedSched' = [postedSched EXCEPT ![Main] = @ \cup {i}]
              /\ UNCHANGED <<ref, done>>
         ELSE /\ ref' = ref \ {i}
              /\ done' = done \cup {i}
              /\ UNCHANGED <<task, postedSched>>
    /\ UNCHANGED <<posted, mtasks, sched, stopAsked, pc, merging, own, inline,
                   hasPending, signalled, halt>>

ScheduledDone ==
    /\ pc = "sched" /\ running[Main] = 0
    /\ \A i \in sched : task[i].due > 0
    /\ pc' = After[pc]
    /\ UNCHANGED <<task, done, posted, postedSched, mtasks, sched, ref,
                   stopAsked, merging, own, running, inline, hasPending,
                   signalled, halt>>

-----------------------------------------------------------------------------
(* Sleeping and the next turn of the loop. *)

\* The `while' condition and UPDATE_OTSYS_TIME(), e having elapsed.
NextIteration(e) ==
    /\ IF halt = "stopped"
         THEN pc' = "exited" /\ UNCHANGED task
         ELSE pc' = "walkMerge" /\ task' = [i \in Ids |-> Aged(i, e)]
    /\ signalled' = FALSE
    /\ UNCHANGED <<done, posted, postedSched, mtasks, sched, ref, stopAsked,
                   merging, own, running, inline, hasPending, halt>>

StartIteration == /\ pc = "decide" /\ hasPending
                  /\ \E e \in Lags : NextIteration(e)

\* hasPendingTasks is read before the condition variable is waited on, with
\* no lock that notify() takes.
Park ==
    /\ pc = "decide" /\ ~hasPending
    /\ pc' = "parking"
    /\ UNCHANGED <<task, done, posted, postedSched, mtasks, sched, ref,
                   stopAsked, merging, own, running, inline, hasPending,
                   signalled, halt>>
Wait ==
    /\ pc = "parking"
    /\ pc' = "waiting"
    /\ UNCHANGED <<task, done, posted, postedSched, mtasks, sched, ref,
                   stopAsked, merging, own, running, inline, hasPending,
                   signalled, halt>>

WakeBySignal == /\ pc = "waiting" /\ signalled
                /\ \E e \in Lags : NextIteration(e)

\* timeUntilNextScheduledTask has passed, possibly by more.
WakeByTimeout ==
    /\ pc = "waiting"
    /\ \E i \in sched, e \in Lags :
          /\ \A j \in sched : task[i].due <= task[j].due
          /\ NextIteration(task[i].due + e)

\* A spurious wake-up; also milliseconds::max(), the timeout of an empty
\* multiset, where the clock arithmetic of wait_for overflows.
WakeSpuriously == /\ pc = "waiting"
                  /\ \E e \in Lags : NextIteration(e)

\* The loop turns.
NextTurn == StartIteration \/ WakeBySignal \/ WakeByTimeout \/ WakeSpuriously

-----------------------------------------------------------------------------
(* CanaryServer::shutdown: notify_all(), shuttingDown = true, then the pool *)
(* sets `stopped' and joins its threads.                                    *)

HaltSteps == [no |-> "notified", notified |-> "closed", closed |-> "stopped"]

Shutdown ==
    /\ MayHalt /\ halt \in DOMAIN HaltSteps
    /\ halt' = HaltSteps[halt]
    /\ signalled' = (signalled \/ (halt = "no" /\ pc = "waiting"))
    /\ UNCHANGED <<task, done, posted, postedSched, mtasks, sched, ref,
                   stopAsked, pc, merging, own, running, inline, hasPending>>

-----------------------------------------------------------------------------
LoopStep ==
    \/ mergeThread \/ checkPendingTasks
    \/ executeSerialEvent \/ splitParallelEvents \/ GroupDone
    \/ executeScheduledEvent \/ ScheduledReturns \/ ScheduledDone
    \/ StartIteration \/ Park \/ Wait \/ WakeBySignal

Next ==
    \/ \E t \in Threads : Call(t) \/ SafeCallReturns(t)
    \/ \E i \in Ids : stopEvent(i)
    \/ LoopStep
    \/ \E t \in Threads : executeParallelEvent(t) \/ TaskReturns(t)
    \/ WakeByTimeout \/ WakeSpuriously
    \/ Shutdown

Spec == Init /\ [][Next]_vars

Advances == {d + e : d \in Delays \cup {0, BeatDelay}, e \in Lags}

\* The loop never stops by itself, every function a task runs returns, a pool
\* thread picks up what it was given, a wait with a finite timeout ends,
\* a shutdown that began goes on, and the clock does not stand still over
\* infinitely many turns.  Calls and spurious wake-ups owe nothing.
Fairness ==
    /\ WF_vars(LoopStep) /\ WF_vars(WakeByTimeout)
    /\ \A t \in Threads : /\ WF_vars(executeParallelEvent(t))
                          /\ WF_vars(TaskReturns(t))
                          /\ WF_vars(SafeCallReturns(t))
    /\ WF_vars(halt # "no" /\ Shutdown)
    /\ <>[][~NextTurn]_vars
         \/ []<><<\E e \in Advances \ {0} : NextIteration(e)>>_vars

FairSpec == Spec /\ Fairness
-----------------------------------------------------------------------------
(* Properties. *)

TaskRecord == [kind : TaskGroup \cup {"Scheduled"}, by : Threads, due : Nat,
               delay : Nat, cycle : BOOLEAN, expires : BOOLEAN, slack : Int,
               live : BOOLEAN]

\* The type invariant.
TypeOK ==
    /\ task \in Seq(TaskRecord)
    /\ done \subseteq Ids /\ stopAsked \subseteq Ids /\ ref \subseteq Ids
    /\ posted \in [Threads -> [TaskGroup -> Seq(Ids)]]
    /\ postedSched \in [Threads -> SUBSET Ids]
    /\ mtasks \in [TaskGroup -> Seq(Ids)]
    /\ sched \subseteq Ids
    /\ pc \in Phases /\ merging \in Threads /\ own \in Int
    /\ running \in [Threads -> Ids \cup {0}]
    /\ inline \subseteq Threads
    /\ hasPending \in BOOLEAN /\ signalled \in BOOLEAN
    /\ halt \in {"no", "notified", "closed", "stopped"}

\* No task is lost, duplicated or run by two threads, through pushes, swaps,
\* merges, re-armed cycle events, partitions and early returns: a task is in
\* one place and no queue holds it twice.
Places(i) ==
    LET at(place, S) == {<<place, x>> : x \in S}
        queues       == Threads \X TaskGroup
    IN       at("posted",  {q \in queues : i \in ToSet(posted[q[1]][q[2]])})
        \cup at("listed",  {t \in Threads : i \in postedSched[t]})
        \cup at("merged",  {g \in TaskGroup : i \in ToSet(mtasks[g])})
        \cup at("sched",   sched \cap {i})
        \cup at("running", {t \in Threads : running[t] = i})
        \cup at("done",    done \cap {i})
ExactlyOnePlace ==
    /\ TypeOK
    /\ \A i \in Ids : \E p \in Places(i) : Places(i) = {p}
    /\ \A g \in TaskGroup : /\ IsInjective(mtasks[g])
                            /\ \A t \in Threads : IsInjective(posted[t][g])

\* While the dispatcher runs a serial or scheduled event (or an action that
\* safeCall ran in place), no pool thread executes a parallel event: game
\* state is touched by one thread.
SerialExclusive ==
    \A t \in Threads : (running[t] # 0 \/ t \in inline) =>
        \/ pc \in Parallel
        \/ t = Main

\* scheduledTasksRef holds exactly the scheduled events that may still run:
\* those in a thread's list, in the multiset or in execution, not cancelled
\* (stopEvent in an event's own callback included).
RefAccurate ==
    ref = {i \in Scheduled : i \notin done /\ task[i].live}

\* Once stopEvent(id) returned, the event never starts again, whatever it was
\* doing when it was stopped: waiting, in a thread's list, or running.
StopIsFinal ==
    [][\A t \in Threads : running[t] = 0 => running'[t] \notin stopAsked]_vars

\* Two tasks of one thread for one serial group may be executed out of the
\* order they were posted in (the swap of __mergeEvents), but only within a
\* batch: an overtaken task is already merged, and runs before the group ends.
OvertakingStaysInBatch ==
    LET j == running[Main]
    IN  j # 0 /\ pc \in {"walk", "serial"} =>
          \A i \in 1..(j - 1) :
             task[i].kind = task[j].kind /\ task[i].by = task[j].by =>
                i \in done \cup ToSet(mtasks[task[j].kind])

\* Every task is executed, or expires or is stopped, unless the server halts:
\* a notify() lost between the last merge and the wait is made up for by the
\* next cycle event.  A cycle event that nobody stops fires again and again.
EventuallyHandled ==
    /\ \A i \in 1..MaxTasks :
          (i \in Ids) ~> (i \in done \/ (i \in Ids /\ isCycle(i)) \/ halt # "no")
    /\ \A i \in 1..NumBeats : []<>(running[Main] = i \/ halt # "no")

\* ThreadPool::shutdown, which joins the dispatcher's thread, returns, although
\* the dispatcher is woken before `stopped' is set and not after.
ShutdownCompletes == (halt = "stopped") ~> (pc = "exited")

\* dispatcher.hpp:122-133: an action given to safeCall runs on the dispatcher.
SafeCallOnDispatcher == inline \subseteq {Main}
-----------------------------------------------------------------------------
(* What makes the safety properties inductive. *)

\* Every queue holds the tasks of its group, every list scheduled tasks.
KindsOK ==
    /\ \A g \in TaskGroup :
          /\ \A k \in DOMAIN mtasks[g] : task[mtasks[g][k]].kind = g
          /\ \A t \in Threads : \A k \in DOMAIN posted[t][g] :
                task[posted[t][g][k]].kind = g
    /\ sched \subseteq Scheduled
    /\ \A t \in Threads : postedSched[t] \subseteq Scheduled

\* Who may be executing what in which phase.
RunningOK ==
    /\ \A t \in Threads : running[t] # 0 =>
          \/ pc \in Parallel /\ t \in Pool \cup {Main}
          \/ pc \in {"walk", "serial", "sched"} /\ t = Main
    /\ \A t \in Threads : running[t] # 0 =>
          (running[t] \in Scheduled <=> pc = "sched")

\* A scheduled event that may still run is in one list, or in execution.
ListsOK ==
    /\ sched \cap done = {} /\ running[Main] \notin sched \cup (Scheduled \cap done)
    /\ \A t \in Threads :
          /\ postedSched[t] \cap (sched \cup done) = {}
          /\ running[Main] \notin postedSched[t]
          /\ \A u \in Threads \ {t} : postedSched[t] \cap postedSched[u] = {}

\* Where a call of stopEvent found nothing, nothing was left to stop.
StopAskedOK == \A i \in stopAsked :
                  i \in Scheduled /\ (i \in done \/ ~task[i].live)

\* A task is where the code last put it, and nowhere else.
Executing == {running[t] : t \in Threads} \ {0}

QueuesOK ==
    \A g \in TaskGroup :
       /\ IsInjective(mtasks[g])
       /\ ToSet(mtasks[g]) \cap (done \cup Executing) = {}
       /\ \A t \in Threads :
             /\ IsInjective(posted[t][g])
             /\ ToSet(posted[t][g]) \cap (ToSet(mtasks[g]) \cup done \cup Executing) = {}
             /\ \A i \in ToSet(posted[t][g]) : task[i].by = t

ExecutingOK ==
    /\ Executing \cap done = {}
    /\ \A t, u \in Threads : running[t] = running[u] /\ running[t] # 0 => t = u

NoneLost ==
    /\ \A i \in Scheduled : i \in done \cup Executing \cup sched
                                 \cup UNION {postedSched[t] : t \in Threads}
    /\ \A i \in Ids \ Scheduled :
          i \in done \cup Executing \cup ToSet(mtasks[task[i].kind])
                     \cup ToSet(posted[task[i].by][task[i].kind])

\* What a thread posted and the dispatcher has not merged is younger than
\* everything of that thread and group it has.
BatchOK ==
    /\ \A g \in SerialGroups, t \in Threads :
          \A i \in ToSet(posted[t][g]), j \in ToSet(mtasks[g]) \cup Executing :
             task[j].kind = g /\ task[j].by = t => j < i
    /\ pc \in {"walk", "serial"} /\ running[Main] # 0 =>
          task[running[Main]].kind \in SerialGroups

PlacesInv == QueuesOK /\ ExecutingOK /\ NoneLost /\ BatchOK

Inv == TypeOK /\ KindsOK /\ RunningOK /\ ListsOK /\ StopAskedOK /\ RefAccurate
=============================================================================
