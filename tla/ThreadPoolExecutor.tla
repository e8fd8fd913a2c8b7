-------------------------- MODULE ThreadPoolExecutor --------------------------
(***************************************************************************)
(* The elastic thread pool every service of the repository runs its        *)
(* background work on: UtilCxx/src/ThreadPoolExecutor.{h,cpp}.             *)
(*                                                                         *)
(* Each block the code runs under _monitor is one atomic step.  Each read  *)
(* of _poolSize, _corePoolSize or _queue.size() outside the lock is a step *)
(* of its own, so that everything else may happen between the read and the *)
(* lock that follows it.  A thread sleeping in Monitor::timedWait is woken *)
(* by notify, by its timeout, or spuriously; it is counted in waitPoolSize *)
(* until it has the lock again.                                            *)
(*                                                                         *)
(* _largestPoolSize and _currentPoolSize are left out: they are never read.*)
(***************************************************************************)
EXTENDS Naturals, Sequences, FiniteSets

CONSTANTS
  Clients,      \* threads that call the executor
  Workers,      \* identities of Worker objects; a released one is used again
  Tasks,        \* the Runnables submitted; each is submitted at most once
  Core, Max,    \* the arguments of the constructor
  Calls,        \* which operations the clients call, a subset of Operations
  CoreSizes,    \* the arguments setCorePoolSize is called with
  MaxSizes,     \* the arguments setMaximumPoolSize is called with
  StartMayFail, \* whether Thread::start may throw (no thread can be created)
  None          \* the null handle

Operations == {"execute", "cancelAllTasks", "setCorePoolSize",
               "setMaximumPoolSize", "allowsCoreThreadTimeOut"}

(***************************************************************************)
(* The constructor's normalisation of the two sizes (size_t, so a negative *)
(* core cannot be told from a large one).                                  *)
(***************************************************************************)
InitialMaximum ==
  IF Max = 0 \/ Max < Core THEN Core * 50 ELSE Max

MaxOf(m, n) == IF m >= n THEN m ELSE n

(***************************************************************************)
(* There are at least as many worker identities as the pool can ever want, *)
(* so that running out of them never disables a step of the code.          *)
(***************************************************************************)
ASSUME PoolAssumption ==
  /\ Core \in Nat /\ Max \in Nat
  /\ CoreSizes \subseteq Nat /\ MaxSizes \subseteq Nat
  /\ IsFiniteSet(Workers) /\ Workers # {}
  /\ \A n \in {Core, InitialMaximum, 1} \cup CoreSizes \cup MaxSizes :
       n <= Cardinality(Workers)
  /\ None \notin Workers /\ None \notin Tasks
  /\ Calls \subseteq Operations
  /\ StartMayFail \in BOOLEAN

VARIABLES
  queue,                   \* _queue
  workers,                 \* _workers
  poolSize,                \* _poolSize
  waitPoolSize,            \* _waitPoolSize
  corePoolSize,            \* _corePoolSize
  maximumPoolSize,         \* _maximumPoolSize
  allowCoreThreadTimeOut,  \* _allowCoreThreadTimeOut
  completedTaskCount,      \* _completedTaskCount of the executor
  pc,                      \* where each client is in the operation it called
  command,                 \* the task a client's execute is submitting
  handle,                  \* the Worker a client has created and must start
  newSize,                 \* the argument of a client's setMaximumPoolSize
  wpc,                     \* where each worker is
  task,                    \* a worker's first or current task
  completed,               \* _completedTaskCount of each worker
  fate                     \* history: what has become of each task

poolVars   == <<queue, workers, poolSize, waitPoolSize, completedTaskCount>>
configVars == <<corePoolSize, maximumPoolSize, allowCoreThreadTimeOut>>
clientVars == <<pc, command, handle, newSize>>
workerVars == <<wpc, task, completed>>
vars == <<poolVars, configVars, clientVars, workerVars, fate>>

ClientPC == {"idle", "checkCore", "addCore", "checkQueue", "push", "recheck",
             "ensure", "addMax", "pushMax", "start", "cancel", "setMax"}

(* "none" is an unused identity, "created" a Worker not started yet, and   *)
(* "failed" one whose start() threw: it is counted but has no thread.      *)
WorkerPC == {"none", "created", "failed", "get", "wait", "timedWait",
             "notified", "timedOut", "canExit", "exit", "run"}

Fates == {"new", "live", "done", "threw", "cancelled"}

Awake       == {w \in Workers : wpc[w] \in {"notified", "get", "run"}}
Sleeping    == {w \in Workers : wpc[w] \in {"wait", "timedWait"}}
Waiting     == {w \in Workers : wpc[w] \in {"wait", "timedWait", "notified", "timedOut"}}
FreeWorkers == {w \in Workers : wpc[w] = "none"}
Queued      == {queue[i] : i \in 1..Len(queue)}

Init ==
  /\ queue = <<>> /\ workers = {}
  /\ poolSize = 0 /\ waitPoolSize = 0 /\ completedTaskCount = 0
  /\ corePoolSize = Core
  /\ maximumPoolSize = InitialMaximum
  /\ allowCoreThreadTimeOut = TRUE
  /\ pc = [c \in Clients |-> "idle"]
  /\ command = [c \in Clients |-> None]
  /\ handle = [c \in Clients |-> None]
  /\ newSize = [c \in Clients |-> 0]
  /\ wpc = [w \in Workers |-> "none"]
  /\ task = [w \in Workers |-> None]
  /\ completed = [w \in Workers |-> 0]
  /\ fate = [t \in Tasks |-> "new"]

-----------------------------------------------------------------------------
(***************************************************************************)
(* Pieces the operations share.                                            *)
(***************************************************************************)
Goto(c, from, to) ==
  /\ pc[c] = from
  /\ pc' = [pc EXCEPT ![c] = to]

(* A client returns from execute. *)
Return(c) ==
  /\ pc' = [pc EXCEPT ![c] = "idle"]
  /\ command' = [command EXCEPT ![c] = None]

(* addThread(t), called under the lock by client c, which then holds the   *)
(* new Worker's handle and starts it after it has released the lock.       *)
addThread(c, t) ==
  \E w \in FreeWorkers :
    /\ workers' = workers \cup {w}
    /\ poolSize' = poolSize + 1
    /\ wpc' = [wpc EXCEPT ![w] = "created"]
    /\ task' = [task EXCEPT ![w] = t]
    /\ completed' = [completed EXCEPT ![w] = 0]
    /\ handle' = [handle EXCEPT ![c] = w]
    /\ command' = [command EXCEPT ![c] = None]
    /\ pc' = [pc EXCEPT ![c] = "start"]

(* Monitor::notify wakes one thread asleep on the condition, if any.       *)
notify ==
  \/ /\ waitPoolSize > 0
     /\ \E w \in Sleeping : wpc' = [wpc EXCEPT ![w] = "notified"]
  \/ /\ waitPoolSize = 0 \/ Sleeping = {}
     /\ UNCHANGED wpc

(* Fault: the notification is sent only if more than one worker waits.     *)
pushBackNotifySeveral(c) ==
  /\ queue' = Append(queue, command[c])
  /\ IF waitPoolSize > 1 THEN notify ELSE UNCHANGED wpc
  /\ UNCHANGED <<workers, poolSize, waitPoolSize, completedTaskCount, task, completed>>

(* _queue.push_back(command), and the notification if a worker waits.      *)
pushBack(c) ==
  /\ queue' = Append(queue, command[c])
  /\ notify
  /\ UNCHANGED <<workers, poolSize, waitPoolSize, completedTaskCount, task, completed>>

(* Some other thread may be changing _queue while c reads its size without *)
(* the lock: the value c sees is then any number.                          *)
QueueRace(c) ==
  \/ \E d \in Clients \ {c} : pc[d] \in {"push", "pushMax", "cancel"}
  \/ \E w \in Workers : wpc[w] = "get"

-----------------------------------------------------------------------------
(***************************************************************************)
(* execute(command)                                                        *)
(***************************************************************************)
execute(c, t) ==
  /\ "execute" \in Calls
  /\ fate[t] = "new"
  /\ Goto(c, "idle", "checkCore")
  /\ command' = [command EXCEPT ![c] = t]
  /\ fate' = [fate EXCEPT ![t] = "live"]
  /\ UNCHANGED <<poolVars, configVars, workerVars, handle, newSize>>

(* _poolSize >= _corePoolSize, read without the lock *)
CheckCore(c) ==
  /\ Goto(c, "checkCore", IF poolSize >= corePoolSize THEN "checkQueue" ELSE "addCore")
  /\ UNCHANGED <<poolVars, configVars, workerVars, command, handle, newSize, fate>>

addIfUnderCorePoolSize(c) ==
  /\ pc[c] = "addCore"
  /\ \/ /\ poolSize < corePoolSize
        /\ addThread(c, command[c])
     \/ /\ poolSize >= corePoolSize
        /\ pc' = [pc EXCEPT ![c] = "checkQueue"]
        /\ UNCHANGED <<workers, poolSize, workerVars, command, handle>>
  /\ UNCHANGED <<queue, waitPoolSize, completedTaskCount, configVars, newSize, fate>>

(* _queue.size() < _poolSize, read without the lock *)
CheckQueue(c) ==
  /\ \/ /\ poolSize > 0
        /\ Len(queue) < poolSize \/ QueueRace(c)
        /\ Goto(c, "checkQueue", "push")
     \/ /\ Len(queue) >= poolSize \/ QueueRace(c)
        /\ Goto(c, "checkQueue", "addMax")
  /\ UNCHANGED <<poolVars, configVars, workerVars, command, handle, newSize, fate>>

Push(c) ==
  /\ Goto(c, "push", "recheck")
  /\ pushBack(c)
  /\ command' = [command EXCEPT ![c] = None]
  /\ UNCHANGED <<configVars, handle, newSize, fate>>

(* _poolSize == 0, read without the lock after the command was queued *)
RecheckPoolSize(c) ==
  /\ Goto(c, "recheck", IF poolSize = 0 THEN "ensure" ELSE "idle")
  /\ UNCHANGED <<poolVars, configVars, workerVars, command, handle, newSize, fate>>

ensureQueuedTaskHandled(c) ==
  /\ pc[c] = "ensure"
  /\ \/ /\ poolSize < MaxOf(corePoolSize, 1) /\ queue # <<>>
        /\ addThread(c, None)
     \/ /\ poolSize >= MaxOf(corePoolSize, 1) \/ queue = <<>>
        /\ Return(c)
        /\ UNCHANGED <<workers, poolSize, workerVars, handle>>
  /\ UNCHANGED <<queue, waitPoolSize, completedTaskCount, configVars, newSize, fate>>

(* Fault: the size read without the lock is trusted. *)
addWithoutRecheck(c) ==
  /\ pc[c] = "addMax"
  /\ addThread(c, command[c])
  /\ UNCHANGED <<queue, waitPoolSize, completedTaskCount, configVars, newSize, fate>>

addIfUnderMaximumPoolSize(c) ==
  /\ pc[c] = "addMax"
  /\ \/ /\ poolSize < maximumPoolSize
        /\ addThread(c, command[c])
     \/ /\ poolSize >= maximumPoolSize
        /\ pc' = [pc EXCEPT ![c] = "pushMax"]
        /\ UNCHANGED <<workers, poolSize, workerVars, command, handle>>
  /\ UNCHANGED <<queue, waitPoolSize, completedTaskCount, configVars, newSize, fate>>

(* Fault: at the maximum the command is refused, and nobody is told. *)
RejectAtMaximum(c) ==
  /\ pc[c] = "pushMax"
  /\ Return(c)
  /\ UNCHANGED <<poolVars, configVars, workerVars, handle, newSize, fate>>

PushAtMaximum(c) ==
  /\ pc[c] = "pushMax"
  /\ pushBack(c)
  /\ Return(c)
  /\ UNCHANGED <<configVars, handle, newSize, fate>>

(* w->start().detach(): the thread runs its first task, or asks for one.   *)
StartWorker(c) ==
  /\ pc[c] = "start"
  /\ wpc' = [wpc EXCEPT ![handle[c]] = IF task[handle[c]] = None THEN "get" ELSE "run"]
  /\ handle' = [handle EXCEPT ![c] = None]
  /\ Return(c)
  /\ UNCHANGED <<poolVars, configVars, newSize, task, completed, fate>>

(* start() throws, and so does execute: nobody takes the worker out of the *)
(* pool again, and its first task is never run.                            *)
StartFails(c) ==
  /\ StartMayFail
  /\ pc[c] = "start"
  /\ wpc' = [wpc EXCEPT ![handle[c]] = "failed"]
  /\ handle' = [handle EXCEPT ![c] = None]
  /\ Return(c)
  /\ UNCHANGED <<poolVars, configVars, newSize, task, completed, fate>>

-----------------------------------------------------------------------------
(***************************************************************************)
(* The other operations of the executor.                                   *)
(***************************************************************************)
CallCancel(c) ==
  /\ "cancelAllTasks" \in Calls
  /\ Goto(c, "idle", "cancel")
  /\ UNCHANGED <<poolVars, configVars, workerVars, command, handle, newSize, fate>>

cancelAllTasks(c) ==
  /\ Goto(c, "cancel", "idle")
  /\ queue' = <<>>
  /\ fate' = [t \in Tasks |-> IF t \in Queued THEN "cancelled" ELSE fate[t]]
  /\ UNCHANGED <<workers, poolSize, waitPoolSize, completedTaskCount, configVars,
                 workerVars, command, handle, newSize>>

(* Raising the core size starts threads for the queued tasks, under the    *)
(* lock; lowering it interrupts nobody, for interruptIfIdle does nothing.  *)
(* If a start throws, the loop ends there with that thread counted.        *)
setCorePoolSize(c, n) ==
  LET grow   == IF n > corePoolSize THEN n - corePoolSize ELSE 0
      room   == IF n > poolSize THEN n - poolSize ELSE 0
      wanted == CHOOSE k \in {grow, room, Len(queue)} :
                  k <= grow /\ k <= room /\ k <= Len(queue)
  IN
  /\ "setCorePoolSize" \in Calls
  /\ pc[c] = "idle"
  /\ corePoolSize' = n
  /\ \E W \in SUBSET FreeWorkers, F \in SUBSET FreeWorkers :
       /\ F \subseteq W
       /\ \/ F = {} /\ Cardinality(W) = wanted
          \/ StartMayFail /\ Cardinality(F) = 1 /\ Cardinality(W) <= wanted
       /\ workers' = workers \cup W
       /\ poolSize' = poolSize + Cardinality(W)
       /\ wpc' = [w \in Workers |-> IF w \in F THEN "failed"
                                    ELSE IF w \in W THEN "get" ELSE wpc[w]]
       /\ completed' = [w \in Workers |-> IF w \in W THEN 0 ELSE completed[w]]
  /\ UNCHANGED <<queue, waitPoolSize, completedTaskCount, maximumPoolSize,
                 allowCoreThreadTimeOut, clientVars, task, fate>>

(* The guard reads _corePoolSize before the lock is taken. *)
CallSetMaximum(c, n) ==
  /\ "setMaximumPoolSize" \in Calls
  /\ n > 0 /\ n >= corePoolSize
  /\ Goto(c, "idle", "setMax")
  /\ newSize' = [newSize EXCEPT ![c] = n]
  /\ UNCHANGED <<poolVars, configVars, workerVars, command, handle, fate>>

setMaximumPoolSize(c) ==
  /\ Goto(c, "setMax", "idle")
  /\ maximumPoolSize' = newSize[c]
  /\ newSize' = [newSize EXCEPT ![c] = 0]
  /\ UNCHANGED <<poolVars, corePoolSize, allowCoreThreadTimeOut, workerVars,
                 command, handle, fate>>

allowsCoreThreadTimeOut(c, value) ==
  /\ "allowsCoreThreadTimeOut" \in Calls
  /\ pc[c] = "idle"
  /\ value # allowCoreThreadTimeOut
  /\ allowCoreThreadTimeOut' = value
  /\ UNCHANGED <<poolVars, corePoolSize, maximumPoolSize, clientVars, workerVars, fate>>

-----------------------------------------------------------------------------
(***************************************************************************)
(* A worker: Worker::run, getTask, waitforNewTask, workerCanExit,          *)
(* workerDone.                                                             *)
(***************************************************************************)
WGoto(w, from, to) ==
  /\ wpc[w] = from
  /\ wpc' = [wpc EXCEPT ![w] = to]

(* Fault: the front of the queue is read and not popped. *)
TakeTaskNoPop(w) ==
  /\ queue # <<>>
  /\ WGoto(w, "get", "run")
  /\ task' = [task EXCEPT ![w] = Head(queue)]
  /\ UNCHANGED <<poolVars, configVars, clientVars, completed, fate>>

(* getTask finds a task under the lock... *)
TakeTask(w) ==
  /\ queue # <<>>
  /\ WGoto(w, "get", "run")
  /\ task' = [task EXCEPT ![w] = Head(queue)]
  /\ queue' = Tail(queue)
  /\ UNCHANGED <<workers, poolSize, waitPoolSize, completedTaskCount, configVars,
                 clientVars, completed, fate>>

(* ...or goes to sleep in waitforNewTask, for a limited time or for good.  *)
waitforNewTask(w) ==
  /\ queue = <<>>
  /\ WGoto(w, "get", IF poolSize > corePoolSize \/ allowCoreThreadTimeOut
                     THEN "timedWait" ELSE "wait")
  /\ waitPoolSize' = waitPoolSize + 1
  /\ UNCHANGED <<queue, workers, poolSize, completedTaskCount, configVars, clientVars,
                 task, completed, fate>>

KeepAliveExpires(w) ==
  /\ WGoto(w, "timedWait", "timedOut")
  /\ UNCHANGED <<poolVars, configVars, clientVars, task, completed, fate>>

SpuriousWakeup(w) ==
  /\ w \in Sleeping
  /\ wpc' = [wpc EXCEPT ![w] = "notified"]
  /\ UNCHANGED <<poolVars, configVars, clientVars, task, completed, fate>>

(* Fault: _waitPoolSize is decremented only when the wait was notified. *)
WakeUpTimeoutCounted(w) ==
  /\ \/ WGoto(w, "notified", "get") /\ waitPoolSize' = waitPoolSize - 1
     \/ WGoto(w, "timedOut", "canExit") /\ UNCHANGED waitPoolSize
  /\ UNCHANGED <<queue, workers, poolSize, completedTaskCount, configVars, clientVars,
                 task, completed, fate>>

(* Fault: both the notifier and the woken thread decrement the counter. *)
WakeUpTwiceCounted(w) ==
  /\ \/ WGoto(w, "notified", "get")
     \/ WGoto(w, "timedOut", "canExit")
  /\ waitPoolSize' = waitPoolSize - 2
  /\ UNCHANGED <<queue, workers, poolSize, completedTaskCount, configVars, clientVars,
                 task, completed, fate>>

(* The woken thread has the lock again: --_waitPoolSize, and it looks at   *)
(* the queue again if it was notified, or asks to leave if it timed out.   *)
WakeUp(w) ==
  /\ \/ WGoto(w, "notified", "get")
     \/ WGoto(w, "timedOut", "canExit")
  /\ waitPoolSize' = waitPoolSize - 1
  /\ UNCHANGED <<queue, workers, poolSize, completedTaskCount, configVars, clientVars,
                 task, completed, fate>>

(* Fault: core threads never time out. *)
workerCanExitAboveCore(w) ==
  /\ WGoto(w, "canExit",
           IF allowCoreThreadTimeOut /\ poolSize > MaxOf(1, corePoolSize)
           THEN "exit" ELSE "get")
  /\ UNCHANGED <<poolVars, configVars, clientVars, task, completed, fate>>

workerCanExit(w) ==
  /\ WGoto(w, "canExit",
           IF \/ queue = <<>>
              \/ allowCoreThreadTimeOut /\ poolSize > MaxOf(1, corePoolSize)
           THEN "exit" ELSE "get")
  /\ UNCHANGED <<poolVars, configVars, clientVars, task, completed, fate>>

workerDone(w) ==
  /\ WGoto(w, "exit", "none")
  /\ workers' = workers \ {w}
  /\ poolSize' = poolSize - 1
  /\ completedTaskCount' = completedTaskCount + completed[w]
  /\ completed' = [completed EXCEPT ![w] = 0]
  /\ UNCHANGED <<queue, waitPoolSize, configVars, clientVars, task, fate>>

(* Fault: a thread runs its task and leaves, without asking for another. *)
runTaskAndExit(w, ok) ==
  /\ WGoto(w, "run", "exit")
  /\ completed' = [completed EXCEPT ![w] = IF ok THEN @ + 1 ELSE @]
  /\ task' = [task EXCEPT ![w] = None]
  /\ fate' = [fate EXCEPT ![task[w]] = IF ok THEN "done" ELSE "threw"]
  /\ UNCHANGED <<poolVars, configVars, clientVars>>

(* runTask: an exception is swallowed and the task is then not counted.    *)
runTask(w, ok) ==
  /\ WGoto(w, "run", "get")
  /\ completed' = [completed EXCEPT ![w] = IF ok THEN @ + 1 ELSE @]
  /\ task' = [task EXCEPT ![w] = None]
  /\ fate' = [fate EXCEPT ![task[w]] = IF ok THEN "done" ELSE "threw"]
  /\ UNCHANGED <<poolVars, configVars, clientVars>>

-----------------------------------------------------------------------------
(* The steps of an operation already called, and the calls. *)
ClientStep(c) ==
  \/ CheckCore(c) \/ addIfUnderCorePoolSize(c) \/ CheckQueue(c)
  \/ Push(c) \/ RecheckPoolSize(c) \/ ensureQueuedTaskHandled(c)
  \/ addIfUnderMaximumPoolSize(c) \/ PushAtMaximum(c)
  \/ StartWorker(c) \/ StartFails(c)
  \/ cancelAllTasks(c) \/ setMaximumPoolSize(c)

Call(c) ==
  \/ \E t \in Tasks : execute(c, t)
  \/ CallCancel(c)
  \/ \E n \in CoreSizes : setCorePoolSize(c, n)
  \/ \E n \in MaxSizes : CallSetMaximum(c, n)
  \/ \E value \in BOOLEAN : allowsCoreThreadTimeOut(c, value)

(* Every step of a worker's thread that does not depend on the clock. *)
WorkerStep(w) ==
  \/ TakeTask(w) \/ waitforNewTask(w) \/ WakeUp(w)
  \/ workerCanExit(w) \/ workerDone(w)
  \/ \E ok \in BOOLEAN : runTask(w, ok)

Next ==
  \/ \E c \in Clients : Call(c) \/ ClientStep(c)
  \/ \E w \in Workers : WorkerStep(w) \/ KeepAliveExpires(w) \/ SpuriousWakeup(w)

Spec == Init /\ [][Next]_vars

(***************************************************************************)
(* The operating system schedules every runnable thread, tasks end, and a  *)
(* timed wait ends: the fairness liveness rests on.                        *)
(***************************************************************************)
Fairness ==
  /\ \A c \in Clients : WF_vars(ClientStep(c))
  /\ \A w \in Workers : WF_vars(WorkerStep(w)) /\ SF_vars(KeepAliveExpires(w))

FairSpec == Spec /\ Fairness

-----------------------------------------------------------------------------
(***************************************************************************)
(* Properties.                                                             *)
(***************************************************************************)

(* Every variable has its type. *)
TypeOK ==
  /\ queue \in Seq(Tasks)
  /\ workers \subseteq Workers
  /\ poolSize \in Nat /\ waitPoolSize \in Nat /\ completedTaskCount \in Nat
  /\ corePoolSize \in Nat /\ maximumPoolSize \in Nat
  /\ allowCoreThreadTimeOut \in BOOLEAN
  /\ pc \in [Clients -> ClientPC]
  /\ command \in [Clients -> Tasks \cup {None}]
  /\ handle \in [Clients -> Workers \cup {None}]
  /\ newSize \in [Clients -> Nat]
  /\ wpc \in [Workers -> WorkerPC]
  /\ task \in [Workers -> Tasks \cup {None}]
  /\ completed \in [Workers -> Nat]
  /\ fate \in [Tasks -> Fates]

(* The counters the unlocked decisions of execute rest on are exact        *)
(* whenever the lock is free: _poolSize counts the workers in _workers,    *)
(* which are the workers created and not yet gone through workerDone, and  *)
(* _waitPoolSize counts the threads inside waitforNewTask.                 *)
CountersExact ==
  /\ workers = {w \in Workers : wpc[w] # "none"}
  /\ poolSize = Cardinality(workers)
  /\ waitPoolSize = Cardinality(Waiting)

(* A task accepted by execute is in exactly one place until it has run or  *)
(* is cancelled: in the hands of the client submitting it, at one position *)
(* of the queue, or with one worker.  So no task is lost on the way, none  *)
(* is queued and also handed to a new thread, and none is run twice.       *)
EachTaskInOnePlace ==
  /\ \A t \in Tasks :
       fate[t] = "live" <=> \/ \E c \in Clients : command[c] = t
                            \/ \E i \in 1..Len(queue) : queue[i] = t
                            \/ \E w \in Workers : task[w] = t
  /\ \A c \in Clients, d \in Clients : command[c] # None /\ command[c] = command[d] => c = d
  /\ \A i \in 1..Len(queue), j \in 1..Len(queue) : queue[i] = queue[j] => i = j
  /\ \A v \in Workers, w \in Workers : task[v] # None /\ task[v] = task[w] => v = w
  /\ \A c \in Clients, i \in 1..Len(queue) : command[c] # queue[i]
  /\ \A w \in Workers, i \in 1..Len(queue) : task[w] # queue[i]
  /\ \A c \in Clients, w \in Workers : command[c] # None => command[c] # task[w]

(* No wakeup is lost: as long as a worker sleeps on the monitor, at least  *)
(* as many workers as there are queued tasks are awake and bound to look   *)
(* at the queue again before they may sleep or leave.  It is what the      *)
(* remark in getTask, that a notified worker finds a new command queued,   *)
(* needs from the other side, and why execute may notify one thread only.  *)
NoLostWakeup ==
  Sleeping # {} => Len(queue) <= Cardinality(Awake)

(* A thread is added only within the sizes in force: although execute      *)
(* reads them without the lock and several clients decide to add a thread  *)
(* at once, no step takes the pool beyond the larger of the core and the   *)
(* maximum size (or one thread, where ensureQueuedTaskHandled wants one).  *)
GrowthWithinSizes ==
  [][poolSize' > poolSize =>
       poolSize' <= MaxOf(MaxOf(corePoolSize', maximumPoolSize'), 1)]_vars

(* The pool keeps the contract of TaskExecution: with its queue, its       *)
(* threads and its cancellations it is a service that starts every         *)
(* accepted task at most once, on a thread that runs nothing else, and     *)
(* cancels only tasks that have not started.                               *)
AcceptedTasks ==
  {t \in Tasks : fate[t] = "live" /\ \A w \in Workers : wpc[w] = "run" => task[w] # t}
RunningTasks   == [w \in {v \in Workers : wpc[v] = "run"} |-> task[w]]
EndedTasks     == {t \in Tasks : fate[t] \in {"done", "threw"}}
CancelledTasks == {t \in Tasks : fate[t] = "cancelled"}

Contract == INSTANCE TaskExecution WITH
  Threads   <- Workers,
  accepted  <- AcceptedTasks,
  running   <- RunningTasks,
  ended     <- EndedTasks,
  cancelled <- CancelledTasks

KeepsContract == Contract!Spec

(* A submitted task is eventually run or cancelled, unless the last worker *)
(* leaves the pool while the task is queued.                               *)
SubmittedTaskRuns ==
  \A t \in Tasks :
    fate[t] = "live" ~> (fate[t] # "live" \/ (t \in Queued /\ workers = {}))

(* A task left in the queue of an empty pool waits for the next execute    *)
(* only: the thread that call creates also runs the stranded task.         *)
StrandedTaskRescued ==
  \A t \in Tasks :
    (t \in Queued /\ workers = {} /\ \E c \in Clients : pc[c] = "checkCore")
      ~> fate[t] # "live"

(* Excess workers are released: when no task is left to run, every thread  *)
(* times out and leaves, down to an empty pool.                            *)
IdleThreadsReleased ==
  (\A t \in Tasks : fate[t] # "live") ~>
    (workers = {} \/ \E t \in Tasks : fate[t] = "live")
=============================================================================
