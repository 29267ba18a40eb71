---------------------------- MODULE RenderManager ----------------------------
(***************************************************************************)
(* The render pool of the engine: engine/src/map/rendermanager/            *)
(* RenderManager.ts.  A queue of tasks, a fixed set of workers that all    *)
(* work on the head of the queue, and callers that schedule, remove and    *)
(* wait.  One action is one stretch of code between two `await`s, which on *)
(* the event loop is indivisible.                                          *)
(*                                                                         *)
(* A task is a model value and work[t] is how many more doWork() calls it  *)
(* asks for, so hasMoreWork() is work[t] > 0.                              *)
(***************************************************************************)
EXTENDS TaskQueue, FiniteSets

CONSTANTS
  Workers,      \* identities a worker of the pool can have
  NoTask,       \* "no task": what the sampler follows when it is cancelled
  Units,        \* doWork() calls each fresh task asks for
  HistorySize,  \* COMPLETED_TASK_HISTORY
  Selections,   \* sets of tasks a predicate or a reorder may single out
  MaxQueue,     \* bound: the queue is not scheduled beyond this length
  MaxErrors     \* bound: how many doWork() calls may throw

ASSUME PoolAssumption ==
  /\ IsFiniteSet(Workers)
  /\ NoTask \notin Tasks
  /\ Units \in [Tasks -> Nat]
  /\ HistorySize \in Nat \ {0}
  /\ Selections \subseteq SUBSET Tasks
  /\ MaxQueue \in Nat
  /\ MaxErrors \in Nat

VARIABLES
  running,         \* #running
  pc,              \* where each worker of #workers is; "gone" is not a member
  at,              \* the task whose doWork() a worker is inside
  busyCount,       \* #busyCount
  newTask,         \* #newTask
  tracked,         \* the task #progressTracker samples, NoTask when cancelled
  renderTasks,     \* #renderTasks, head first
  completedTasks,  \* #completedTasks, eldest first
  work,            \* doWork() calls each task still asks for
  errors,          \* doWork() calls that have thrown, up to MaxErrors
  idler,           \* a caller of awaitIdle
  closer           \* a caller of awaitShutdown

poolVars == <<running, pc, at, busyCount, newTask, tracked>>
queueVars == <<renderTasks, completedTasks, work>>
vars == <<poolVars, queueVars, errors, idler, closer>>

(* "calling" and "working" are inside task.doWork(), before and after the  *)
(* task has handed out a unit; "idle" waits in #taskWaiters, "backoff" in  *)
(* #stopWaiters; "ready" has its next iteration of #runWorker queued.      *)
WorkerState == {"gone", "ready", "idle", "calling", "working", "backoff"}
CallerState == {"away", "parked", "woken"}

Inside == {w \in Workers : pc[w] \in {"calling", "working"}}
IsRunning == \E w \in Workers : pc[w] # "gone"
HasMoreWork(t) == work[t] > 0
Current == Head(renderTasks)          \* only when renderTasks # <<>>

TypeOK ==
  /\ running \in BOOLEAN
  /\ pc \in [Workers -> WorkerState]
  /\ at \in [Workers -> Tasks \cup {NoTask}]
  /\ busyCount \in Nat
  /\ newTask \in BOOLEAN
  /\ tracked \in Tasks \cup {NoTask}
  /\ renderTasks \in Seq(Tasks)
  /\ completedTasks \in Seq(Tasks)
  /\ work \in [Tasks -> Nat]
  /\ errors \in Nat
  /\ idler \in CallerState
  /\ closer \in CallerState

Init ==
  /\ running = FALSE
  /\ pc = [w \in Workers |-> "gone"]
  /\ at = [w \in Workers |-> NoTask]
  /\ busyCount = 0
  /\ newTask = TRUE
  /\ tracked = NoTask
  /\ renderTasks = <<>>
  /\ completedTasks = <<>>
  /\ work = Units
  /\ errors = 0
  /\ idler = "away"
  /\ closer = "away"
------------------------------------------------------------------------------
(* #notify(#taskWaiters): idle workers and awaitIdle callers resume.       *)
WakeIdle(p) == [w \in Workers |-> IF p[w] = "idle" THEN "ready" ELSE p[w]]
Woken(caller) == IF caller = "parked" THEN "woken" ELSE caller

(* cancel() lets the task decide: it may be done at once, or still want    *)
(* the calls that walk it to its end.                                      *)
MayCancel(t) == \E k \in 0 .. work[t] : work' = [work EXCEPT ![t] = k]
------------------------------------------------------------------------------
(* The callers' side.                                                      *)

Start(members) ==
  /\ members # {}
  /\ ~IsRunning
  /\ pc' = [w \in Workers |-> IF w \in members THEN "ready" ELSE "gone"]
  /\ busyCount' = 0
  /\ tracked' = NoTask
  /\ newTask' = TRUE
  /\ running' = TRUE
  /\ UNCHANGED <<at, queueVars, errors, idler, closer>>

Stop ==
  /\ running' = FALSE
  /\ tracked' = NoTask
  /\ pc' = [w \in Workers |->
              IF pc[w] \in {"idle", "backoff"} THEN "ready" ELSE pc[w]]
  /\ idler' = Woken(idler)
  /\ UNCHANGED <<at, busyCount, newTask, queueVars, errors, closer>>

(* An accepted task: what it contains goes, it joins, everyone wakes.      *)
Accept(t, q) ==
  /\ ~ContainsRenderTask(renderTasks, t)
  /\ Len(renderTasks) < MaxQueue
  /\ IF CancelsHead(renderTasks, t) THEN MayCancel(Current) ELSE work' = work
  /\ renderTasks' = q
  /\ pc' = WakeIdle(pc)
  /\ idler' = Woken(idler)
  /\ UNCHANGED <<running, at, busyCount, newTask, tracked, completedTasks,
                 errors, closer>>

ScheduleRenderTask(t) == Accept(t, Scheduled(renderTasks, t))
ScheduleRenderTaskNext(t) == Accept(t, ScheduledNext(renderTasks, t))

ReorderRenderTasks(front) ==
  /\ renderTasks' = Reordered(renderTasks, front)
  /\ UNCHANGED <<poolVars, completedTasks, work, errors, idler, closer>>

RemoveRenderTask(t) ==
  /\ renderTasks # <<>>
  /\ IF <<Current, t>> \in Same
     THEN MayCancel(Current) /\ UNCHANGED renderTasks
     ELSE renderTasks' = RemoveFirst(renderTasks, t) /\ UNCHANGED work
  /\ UNCHANGED <<poolVars, completedTasks, errors, idler, closer>>

(* removeRenderTasksIf with the predicate "is in S"; removeAllRenderTasks  *)
(* is the case S = Tasks.                                                  *)
RemoveRenderTasksIf(S) ==
  /\ renderTasks # <<>>
  /\ IF Current \in S THEN MayCancel(Current) ELSE work' = work
  /\ renderTasks' = WithoutBehindHead(renderTasks, S)
  /\ UNCHANGED <<poolVars, completedTasks, errors, idler, closer>>

AwaitIdle ==
  /\ idler \in {"away", "woken"}
  /\ idler' = IF renderTasks = <<>> THEN "away" ELSE "parked"
  /\ UNCHANGED <<poolVars, queueVars, errors, closer>>

AwaitShutdown ==
  /\ closer \in {"away", "woken"}
  /\ closer' = IF IsRunning THEN "parked" ELSE "away"
  /\ UNCHANGED <<poolVars, queueVars, errors, idler>>
------------------------------------------------------------------------------
(* The workers: #runWorker and #doWork.                                    *)

Exit(w) ==
  /\ pc[w] = "ready" /\ ~running
  /\ pc' = [pc EXCEPT ![w] = "gone"]
  /\ closer' = Woken(closer)
  /\ UNCHANGED <<running, at, busyCount, newTask, tracked, queueVars, errors,
                 idler>>

TurnUnlessStopped(w) == pc[w] = "ready"
Turn(w) == pc[w] = "ready" /\ running

WaitForTask(w) ==
  /\ Turn(w)
  /\ renderTasks = <<>>
  /\ pc' = [pc EXCEPT ![w] = "idle"]
  /\ UNCHANGED <<running, at, busyCount, newTask, tracked, queueVars, errors,
                 idler, closer>>

(* The head of the queue is read and, when it is new, sampled.             *)
Follow == tracked' = IF newTask THEN Current ELSE tracked

PutCompleted(c, t) ==
  IF \E i \in DOMAIN c : c[i] = t THEN c
  ELSE IF Len(c) < HistorySize THEN Append(c, t) ELSE Append(Tail(c), t)

RetireUnderOthers(w) ==
  /\ Turn(w)
  /\ renderTasks # <<>>
  /\ ~HasMoreWork(Current)
  /\ renderTasks' = Tail(renderTasks)
  /\ completedTasks' = PutCompleted(completedTasks, Current)
  /\ pc' = WakeIdle(pc)
  /\ idler' = Woken(idler)
  /\ Follow
  /\ newTask' = TRUE
  /\ busyCount' = 0
  /\ UNCHANGED <<running, at, work, errors, closer>>

RetireNotMarkingNew(w) ==
  /\ Turn(w)
  /\ renderTasks # <<>>
  /\ ~HasMoreWork(Current)
  /\ busyCount <= 0
  /\ renderTasks' = Tail(renderTasks)
  /\ completedTasks' = PutCompleted(completedTasks, Current)
  /\ pc' = WakeIdle(pc)
  /\ idler' = Woken(idler)
  /\ Follow
  /\ newTask' = FALSE
  /\ busyCount' = 0
  /\ UNCHANGED <<running, at, work, errors, closer>>

Retire(w) ==
  /\ Turn(w)
  /\ renderTasks # <<>>
  /\ ~HasMoreWork(Current)
  /\ busyCount <= 0
  /\ renderTasks' = Tail(renderTasks)
  /\ completedTasks' = PutCompleted(completedTasks, Current)
  /\ pc' = WakeIdle(pc)
  /\ idler' = Woken(idler)
  /\ Follow
  /\ newTask' = TRUE
  /\ busyCount' = 0
  /\ UNCHANGED <<running, at, work, errors, closer>>

WaitForOthers(w) ==
  /\ Turn(w)
  /\ renderTasks # <<>>
  /\ ~HasMoreWork(Current)
  /\ busyCount > 0
  /\ pc' = [pc EXCEPT ![w] = "idle"]
  /\ Follow
  /\ newTask' = FALSE
  /\ UNCHANGED <<running, at, busyCount, queueVars, errors, idler, closer>>

CallDoWork(w) ==
  /\ Turn(w)
  /\ renderTasks # <<>>
  /\ HasMoreWork(Current)
  /\ busyCount' = busyCount + 1
  /\ at' = [at EXCEPT ![w] = Current]
  /\ pc' = [pc EXCEPT ![w] = "calling"]
  /\ Follow
  /\ newTask' = FALSE
  /\ UNCHANGED <<running, queueVars, errors, idler, closer>>

(* Inside the task: it hands this call a unit, if it still has one.        *)
TakeUnit(w) ==
  /\ pc[w] = "calling"
  /\ work' = [work EXCEPT ![at[w]] = IF @ > 0 THEN @ - 1 ELSE 0]
  /\ pc' = [pc EXCEPT ![w] = "working"]
  /\ UNCHANGED <<running, at, busyCount, newTask, tracked, renderTasks,
                 completedTasks, errors, idler, closer>>

(* The `finally` after task.doWork().                                      *)
LeaveDoWorkUncounted(w, next) ==
  /\ busyCount' = IF next = "backoff" THEN busyCount ELSE busyCount - 1
  /\ pc' = [WakeIdle(pc) EXCEPT ![w] = next]
  /\ at' = [at EXCEPT ![w] = NoTask]
  /\ idler' = Woken(idler)
  /\ UNCHANGED <<running, newTask, tracked, queueVars, closer>>

LeaveDoWork(w, next) ==
  /\ busyCount' = busyCount - 1
  /\ pc' = [WakeIdle(pc) EXCEPT ![w] = next]
  /\ at' = [at EXCEPT ![w] = NoTask]
  /\ idler' = Woken(idler)
  /\ UNCHANGED <<running, newTask, tracked, queueVars, closer>>

Return(w) ==
  /\ pc[w] = "working"
  /\ LeaveDoWork(w, "ready")
  /\ UNCHANGED errors

Throw(w) ==
  /\ pc[w] \in {"calling", "working"}
  /\ errors < MaxErrors
  /\ errors' = errors + 1
  /\ LeaveDoWork(w, "backoff")

(* The timeout of #awaitSignal: every wait of this class has one.          *)
WorkerTimeout(w) ==
  /\ pc[w] \in {"idle", "backoff"}
  /\ pc' = [pc EXCEPT ![w] = "ready"]
  /\ UNCHANGED <<running, at, busyCount, newTask, tracked, queueVars, errors,
                 idler, closer>>

CallerTimeout ==
  /\ idler = "parked" \/ closer = "parked"
  /\ idler' = Woken(idler)
  /\ closer' = Woken(closer)
  /\ UNCHANGED <<poolVars, queueVars, errors>>
------------------------------------------------------------------------------
Schedule ==
  \E t \in Tasks : ScheduleRenderTask(t) \/ ScheduleRenderTaskNext(t)

Remove ==
  \/ \E t \in Tasks : RemoveRenderTask(t)
  \/ \E S \in Selections : RemoveRenderTasksIf(S)

Caller ==
  \/ \E members \in SUBSET Workers : Start(members)
  \/ Stop
  \/ Schedule
  \/ Remove
  \/ \E front \in Selections : ReorderRenderTasks(front)
  \/ AwaitIdle
  \/ AwaitShutdown
  \/ CallerTimeout

Progress(w) ==
  \/ Exit(w)
  \/ WaitForTask(w)
  \/ Retire(w)
  \/ WaitForOthers(w)
  \/ CallDoWork(w)
  \/ TakeUnit(w)
  \/ Return(w)
  \/ WorkerTimeout(w)

Next == Caller \/ \E w \in Workers : Progress(w) \/ Throw(w)

Spec == Init /\ [][Next]_vars

(* A worker's continuation is always resumed, a task's doWork() settles,   *)
(* and every timer fires; a caller that was woken runs on.  Nothing makes  *)
(* anybody schedule, stop, start or throw.                                 *)
Fairness ==
  /\ \A w \in Workers : WF_vars(Progress(w))
  /\ WF_vars(idler = "woken" /\ AwaitIdle)
  /\ WF_vars(closer = "woken" /\ AwaitShutdown)
  /\ WF_vars(CallerTimeout)

FairSpec == Spec /\ Fairness
------------------------------------------------------------------------------
(* busyCount is the number of workers inside a doWork() right now: no      *)
(* throw, stop, restart or retirement ever leaves it charged for somebody  *)
(* who has left, or blind to somebody who has not (#doWork's `finally`).   *)
BusyCountExact == busyCount = Cardinality(Inside)

(* Whoever is inside a doWork() is inside that of the task at the head of  *)
(* the queue: no schedule, removal or reorder displaces it and nobody      *)
(* retires it under them ("an in-flight call decrement busyCount ...       *)
(* against the next task", #doWork).                                       *)
InsideHeadOnly == \A w \in Inside : renderTasks # <<>> /\ at[w] = Current

(* While the pool runs, the progress sampler reads the head of the queue   *)
(* unless the head is marked new; a stopped pool samples nothing.          *)
SamplerFollowsHead ==
  /\ running /\ ~newTask => renderTasks # <<>> /\ tracked = Current
  /\ tracked # NoTask => running

(* Behind the head, no queued task contains another: whatever the order of *)
(* schedules, next-schedules and reorders, a region is queued once.        *)
PendingIncomparable ==
  \A i, j \in 2 .. Len(renderTasks) :
    i # j => <<renderTasks[i], renderTasks[j]>> \notin Contains

(* Only a removal asked for by a caller takes a pending task's work away:  *)
(* in any other step, something still queued contains it.                  *)
PendingStaysCovered ==
  [][~Remove => \A s \in Pending(renderTasks) :
       \E i \in DOMAIN renderTasks' : <<renderTasks'[i], s>> \in Contains]_vars

(* The pool implements the promise that tasks take turns (TaskTurns): the  *)
(* turn belongs to the head of the queue and passes only when nobody is    *)
(* inside it.                                                              *)
Turns == INSTANCE TaskTurns WITH
  turn <- IF renderTasks = <<>> THEN NoTask ELSE Current,
  inside <- Inside
TasksTakeTurns == Turns!Spec

(* A stopped pool's workers all exit, so a caller of awaitShutdown returns *)
(* unless somebody starts the pool again.                                  *)
ShutdownReturns ==
  (closer = "parked" /\ ~running) ~> (closer = "away" \/ running)

(* A pool that keeps running with a queue that is never empty keeps        *)
(* retiring tasks: no error and no interleaving leaves a head that can     *)
(* never retire ("hanging the queue permanently", #doWork).                *)
QueueKeepsMoving ==
  <>[](running /\ renderTasks # <<>>) => []<><<\E w \in Workers : Retire(w)>>_vars
==============================================================================
