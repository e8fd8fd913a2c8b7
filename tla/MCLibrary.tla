------------------------------ MODULE MCLibrary ------------------------------
(***************************************************************************)
(* The libraries UtilCxx, IceExt, DbCxxPool, CallGuarantee and the client  *)
(* library of ReplicaCluster: small instances of their components, side by *)
(* side and beside those of base.  A part whose name ends in Fair is the   *)
(* instance on which liveness is checked.                                  *)
(***************************************************************************)
EXTENDS MCBase

Executor == <<b1, b2>>

-----------------------------------------------------------------------------
(* UtilCxx                                                                 *)

(* Two threads execute on, clear and configure one level.                  *)
Level == INSTANCE TaskManager WITH
  Threads <- Two, Levels <- {"normal"}, Normal <- "normal", Channels <- {}, Tasks <- {"task"},
  Timers <- {}, Repeated <- {}, Runners <- OtherTwo, Configs <- {<<1, 2>>, <<5, 2>>},
  Default <- <<5, 100>>,
  config <- x1, table <- x2, runner <- x3, fate <- x4, pc <- x5, call <- x6, handle <- x7,
  raced <- x8, mixed <- x9

(* Two threads schedule a timer and a repeated one on one channel.         *)
Channel == INSTANCE TaskManager WITH
  Threads <- Two, Levels <- {"normal"}, Normal <- "normal", Channels <- {"channel"}, Tasks <- {},
  Timers <- {"timer"}, Repeated <- {"repeated"}, Runners <- OtherTwo \cup {"r3", "r4"},
  Configs <- {}, Default <- <<5, 100>>,
  config <- x1, table <- x2, runner <- x3, fate <- x4, pc <- x5, call <- x6, handle <- x7,
  raced <- x8, mixed <- x9

(* Executors have been configured to have one core thread, so that a second*)
(* task may be stranded.                                                   *)
LevelFair == INSTANCE TaskManager WITH
  Threads <- Two, Levels <- {"normal"}, Normal <- "normal", Channels <- {}, Tasks <- {c1, c2},
  Timers <- {}, Repeated <- {}, Runners <- OtherTwo, Configs <- {},
  Default <- <<1, 2>>,
  config <- x1, table <- x2, runner <- x3, fate <- x4, pc <- x5, call <- x6, handle <- x7,
  raced <- x8, mixed <- x9

(* One caller with a task more, so that a stranded task can be rescued.    *)
StrandedFair == INSTANCE TaskManager WITH
  Threads <- {a1}, Levels <- {"normal"}, Normal <- "normal", Channels <- {}, Tasks <- Three,
  Timers <- {}, Repeated <- {}, Runners <- {b1}, Configs <- {},
  Default <- <<1, 2>>,
  config <- x1, table <- x2, runner <- x3, fate <- x4, pc <- x5, call <- x6, handle <- x7,
  raced <- x8, mixed <- x9

(* Objects are pushed into two pipes, of which the factory makes one.      *)
TwoPipes == INSTANCE Pipe WITH
  Pipes <- {"made", "null"}, Makes <- {"made"}, Objects <- Two \cup OtherTwo, Threads <- Three,
  factory <- x1, pool <- x2, queue <- x3, timers <- x4, pc <- x5, at <- x6, seq <- x7,
  fresh <- x8, pushed <- x9, handled <- x10, failed <- x11, overlap <- x12,
  channel <- x13, missed <- x14

PipeFair == INSTANCE Pipe WITH
  Pipes <- {"made"}, Makes <- {"made"}, Objects <- OtherTwo, Threads <- Two,
  factory <- x1, pool <- x2, queue <- x3, timers <- x4, pc <- x5, at <- x6, seq <- x7,
  fresh <- x8, pushed <- x9, handled <- x10, failed <- x11, overlap <- x12,
  channel <- x13, missed <- x14

Sized == INSTANCE SizedEvictor WITH
  Keys <- Three \cup {"k4"}, Objects <- Two, Sizes <- {0, 1, 3}, NoObject <- None,
  map <- x1, queue <- x2, size <- x3, recency <- x4

Timed == INSTANCE TimedEvictor WITH
  Ids <- Three, Objects <- Two, Durations <- 0 .. 2, MaxTime <- 4, NoObject <- None,
  map <- x1, timestamp <- x2, queue <- x3, duration <- x4, time <- x5

-----------------------------------------------------------------------------
(* IceExt, DbCxxPool and CallGuarantee                                     *)

(* 1 and 5 are the same as an Ice::Int of four values.                     *)
Cache == INSTANCE ObjectCacheProofs WITH
  Threads <- Two, Ids <- {1, 5}, IntRange <- 4, ChunkSize <- 1, MaxVersion <- 1,
  map <- x1, requests <- x2, task <- x3, pc <- x4, asked <- x5, via <- x6, result <- x7,
  source <- x8, removed <- x9, overlap <- x10

(* 4 and 6 are not.                                                       *)
CacheApart == INSTANCE ObjectCacheProofs WITH
  Threads <- Two, Ids <- {4, 6}, IntRange <- 4, ChunkSize <- 1, MaxVersion <- 0,
  map <- x1, requests <- x2, task <- x3, pc <- x4, asked <- x5, via <- x6, result <- x7,
  source <- x8, removed <- x9, overlap <- x10

CacheFair == INSTANCE ObjectCache WITH
  Threads <- Two, Ids <- {4, 5}, IntRange <- 4, ChunkSize <- 2, MaxVersion <- 0,
  map <- x1, requests <- x2, task <- x3, pc <- x4, asked <- x5, via <- x6, result <- x7,
  source <- x8, removed <- x9, overlap <- x10

(* A negative key that is no multiple of HolderSize has no holder.         *)
Mutexes == INSTANCE TempMutexProofs WITH
  Threads <- Three, Keys <- {-3, -10, 7}, HolderSize <- 10, Addresses <- Two \cup {"address"},
  mutexMap <- x1, refCount <- x2, owner <- x3, pc <- x4, key <- x5, mutex <- x6

DbPool == INSTANCE ConnectionPoolProofs WITH
  Clients <- Two, Servers <- OtherTwo, Master <- "master", MaxBusy <- 1, Timeout <- 0,
  Asked <- {"CDbRServer", "CDbWServer"}, EndTime <- 2,
  instance <- x1, isCut <- x2, idle <- x3, busyCount <- x4, idleCount <- x5, pc <- x6,
  wrflag <- x7, entry <- x8, bad <- x9, now <- x10, latest <- x11, overlapped <- x12

Batches == INSTANCE CallGuarantee WITH
  Calls <- Three \cup {"call"}, WaitSize <- 1, RedoCount <- 2, RedoSize <- 2,
  SpuriousWakeups <- TRUE,
  doQueue <- x1, redoQueue <- x2, inTime <- x3, doer <- x4, redoer <- x5, fate <- x6, redos <- x7

BatchesFair == INSTANCE CallGuarantee WITH
  Calls <- Three, WaitSize <- 1, RedoCount <- 2, RedoSize <- 1, SpuriousWakeups <- FALSE,
  doQueue <- x1, redoQueue <- x2, inTime <- x3, doer <- x4, redoer <- x5, fate <- x6, redos <- x7

Merging == INSTANCE CallGuaranteeManager WITH
  Handles <- Three, Ids <- Two, RedoCount <- 1, RedoSize <- 1,
  idToHandleMap <- x1, doQueue <- x2, redoQueue <- x3, doer <- x4, redoer <- x5, at <- x6,
  id <- x7, createTime <- x8, time <- x9, carries <- x10, clock <- x11, made <- x12,
  logged <- x13, overtaken <- x14

MergingFair == INSTANCE CallGuaranteeManager WITH
  Handles <- {c1, c2}, Ids <- {"id"}, RedoCount <- 1, RedoSize <- 1,
  idToHandleMap <- x1, doQueue <- x2, redoQueue <- x3, doer <- x4, redoer <- x5, at <- x6,
  id <- x7, createTime <- x8, time <- x9, carries <- x10, clock <- x11, made <- x12,
  logged <- x13, overtaken <- x14

(* A thread that is notified, the start of the client and a reader.        *)
Client == INSTANCE ClusterClientProofs WITH
  Cluster <- 2, Notifiers <- {a1}, Starter <- "starter", Readers <- {"reader"}, Users <- {3},
  subscriberState <- x1, oldState <- x2, subscriberLock <- x3, mutex <- x4,
  clusterState <- x5, cluster <- x6, validProxys <- x7, backupProxys <- x8, pc <- x9, user <- x10,
  seen <- x11, proxy <- x12, renewals <- x13

(* What the modules assume of their constants.                             *)
ASSUME LibraryAssumption ==
  /\ Level!ManagerAssumption /\ Channel!ManagerAssumption
  /\ TwoPipes!PipeAssumption /\ Sized!SizedAssumption
  /\ Timed!TimedAssumption /\ Cache!CacheAssumption /\ CacheApart!CacheAssumption
  /\ Mutexes!TempMutexAssumption /\ DbPool!PoolAssumption
  /\ Batches!GuaranteeAssumption /\ Merging!ManagerAssumption
  /\ Client!ClientAssumption
  /\ LevelFair!ManagerAssumption /\ StrandedFair!ManagerAssumption
  /\ PipeFair!PipeAssumption
  /\ CacheFair!CacheAssumption /\ BatchesFair!GuaranteeAssumption
  /\ MergingFair!ManagerAssumption

-----------------------------------------------------------------------------
Init ==
  /\ part \in Parts
  /\ \/ Begins("level", 9) /\ Level!Init
     \/ Begins("channel", 9) /\ Channel!Init
     \/ Begins("pipes", 14) /\ TwoPipes!Init
     \/ Begins("sized", 4) /\ Sized!Init
     \/ Begins("timed", 5) /\ Timed!Init
     \/ Begins("cache", 10) /\ Cache!Init
     \/ Begins("cacheApart", 10) /\ CacheApart!Init
     \/ Begins("mutexes", 6) /\ Mutexes!Init
     \/ Begins("dbPool", 12) /\ DbPool!Init
     \/ Begins("batches", 7) /\ Batches!Init
     \/ Begins("merging", 14) /\ Merging!Init
     \/ Begins("client", 13) /\ Client!Init
     \/ Begins("levelFair", 9) /\ LevelFair!Init
     \/ Begins("strandedFair", 9) /\ StrandedFair!Init
     \/ Begins("pipeFair", 14) /\ PipeFair!Init
     \/ Begins("cacheFair", 10) /\ CacheFair!Init
     \/ Begins("batchesFair", 7) /\ BatchesFair!Init
     \/ Begins("mergingFair", 14) /\ MergingFair!Init
     \/ BaseInit

Next ==
  \/ Moves("level", 9) /\ Level!Next
  \/ Moves("channel", 9) /\ Channel!Next
  \/ Moves("pipes", 14) /\ TwoPipes!Next
  \/ Moves("sized", 4) /\ Sized!Next
  \/ Moves("timed", 5) /\ Timed!Next
  \/ Moves("cache", 10) /\ Cache!Next
  \/ Moves("cacheApart", 10) /\ CacheApart!Next
  \/ Moves("mutexes", 6) /\ Mutexes!Next
  \/ Moves("dbPool", 12) /\ DbPool!Next
  \/ Moves("batches", 7) /\ Batches!Next
  \/ Moves("merging", 14) /\ Merging!Next
  \/ Moves("client", 13) /\ Client!Next
  \/ Moves("levelFair", 9) /\ LevelFair!Next
  \/ Moves("strandedFair", 9) /\ StrandedFair!Next
  \/ Moves("pipeFair", 14) /\ PipeFair!Next
  \/ Moves("cacheFair", 10) /\ CacheFair!Next
  \/ Moves("batchesFair", 7) /\ BatchesFair!Next
  \/ Moves("mergingFair", 14) /\ MergingFair!Next
  \/ BaseNext

Spec == Init /\ [][Next]_vars

-----------------------------------------------------------------------------
(* Fairness.  Since a behaviour is one of a single part, a condition on    *)
(* the actions of several parts is one condition on each.                  *)

(* The callers of TaskManager and of ObjectCache run, and threads run the  *)
(* timers of a Pipe.  In CallGuaranteeManager every step is some runnable  *)
(* thread's, so none is put off for ever.                                  *)
Callers(t) ==
  \/ Moves("levelFair", 9) /\ LevelFair!ThreadStep(t)
  \/ Moves("strandedFair", 9) /\ t = a1 /\ StrandedFair!ThreadStep(t)
  \/ Moves("cacheFair", 10) /\ CacheFair!ThreadStep(t)
  \/ Moves("pipeFair", 14) /\ PipeFair!Runs(t)
  \/ Moves("mergingFair", 14) /\ MergingFair!Progress

(* A thread that can lock its TempMutex does, if nobody else does first,   *)
(* and every TempMutexManager::Lock is destructed; the two threads of      *)
(* CallGuarantee run, a timed wait ends, and Do and Redo return.           *)
Lockers(k) ==
  \/ Moves("mutexes", 6) /\ Mutexes!lock(Thread[k])
  \/ Moves("batchesFair", 7) /\ \/ k = 1 /\ BatchesFair!DoThreadStep
                                \/ k = 2 /\ BatchesFair!RedoThreadStep
                                \/ k = 3 /\ BatchesFair!InTimeStep
Releasers(t) == Moves("mutexes", 6) /\ (Mutexes!release(t) \/ Mutexes!releaseMutex(t))

(* An executor of TaskManager runs each of its tasks but a stranded one,   *)
(* and the pool of ObjectCache the tasks that create objects.              *)
Executors(e, j) ==
  \/ Moves("levelFair", 9) /\ LevelFair!RunnerStep(Executor[e], Thread[j])
  \/ Moves("strandedFair", 9) /\ e = 1 /\ StrandedFair!RunnerStep(b1, Thread[j])
  \/ Moves("cacheFair", 10) /\ CacheFair!TaskStep(e - 1, j - 1)

(* A timer of a Pipe that is due is run by some thread, however busy the   *)
(* others are.                                                             *)
FairSpec ==
  /\ Spec
  /\ \A t \in Two : WF_vars(Callers(t))
  /\ \A k \in 1 .. 3 : WF_vars(Lockers(k)) /\ WF_vars(Releasers(Thread[k]))
  /\ \A e, j \in 1 .. 2 : WF_vars(Executors(e, j))
  /\ BaseFairness
  /\ SF_vars(Moves("pipeFair", 14) /\ \E t \in Two : PipeFair!handle(t, "made"))

-----------------------------------------------------------------------------
TypeOK ==
  /\ part = "level" => Level!TypeOK
  /\ part = "channel" => Channel!TypeOK
  /\ part = "pipes" => TwoPipes!TypeOK
  /\ part = "sized" => Sized!TypeOK
  /\ part = "timed" => Timed!TypeOK
  /\ part = "cache" => Cache!TypeOK
  /\ part = "cacheApart" => CacheApart!TypeOK
  /\ part = "mutexes" => Mutexes!TypeOK
  /\ part = "dbPool" => DbPool!TypeOK
  /\ part = "batches" => Batches!TypeOK
  /\ part = "merging" => Merging!TypeOK
  /\ part = "client" => Client!TypeOK
  /\ part = "levelFair" => LevelFair!TypeOK
  /\ part = "strandedFair" => StrandedFair!TypeOK
  /\ part = "pipeFair" => PipeFair!TypeOK
  /\ part = "cacheFair" => CacheFair!TypeOK
  /\ part = "batchesFair" => BatchesFair!TypeOK
  /\ part = "mergingFair" => MergingFair!TypeOK
  /\ BaseTypeOK

-----------------------------------------------------------------------------
(* TaskManager::locateExecutor and locateTimer: a level or channel has one *)
(* executor or timer, the one in the table, and an executor's core size is *)
(* within its maximum between calls of config, unless two threads missed   *)
(* the runner before either stored one, or configured at the same time.    *)
LevelsAsIfAlone ==
  /\ part = "level" => Level!SplitOnlyByRace /\ Level!CoreWithinMax
  /\ part = "channel" => Channel!SplitOnlyByRace

(* SizedEvictor: what is left is what was used last, through any changes   *)
(* of the size; add keeps the size, although setSize evicts nothing, and   *)
(* takes away nothing but what is beyond it.  TimedEvictor::add leaves     *)
(* nothing that has expired and takes nothing that has not, although evict *)
(* stops at the first entry that has not.                                  *)
EvictsInOrder ==
  /\ [](part = "sized" => Sized!KeepsMostRecent)
  /\ [][part = "sized" => Sized!AddKeepsSize /\ Sized!EvictsForRoomOnly]_vars
  /\ [][part = "timed" => Timed!AddDropsTheExpired]_vars

(* ObjectFactory::create: a request is in the map while calls wait for it, *)
(* counts them and is finished by its task; a caller gets the object of    *)
(* another id only when the two are one as an Ice::Int, and an object      *)
(* older than its id's last remove or add is in the cache only if it was   *)
(* being created at that moment.                                           *)
CacheSound ==
  /\ part = "cache" => Cache!CacheSound
  /\ part = "cacheApart" => CacheApart!CacheSound

(* TempMutexManager::Lock: the temporary mutexes are as good as one for    *)
(* every key (the specification KeyedLock).  The count of a key's mutex is *)
(* that of its users, and nobody waits for, holds or gives back a mutex    *)
(* that was deleted or has become another key's at the same address.       *)
ActsAsKeyedLock ==
  /\ part = "mutexes" => Mutexes!IsKeyedLockInit
  /\ [][part = "mutexes" => Mutexes!IsKeyedLockStep]_vars
  /\ [](part = "mutexes" => Mutexes!CountsUsers /\ Mutexes!MutexAlive)

(* ConnectionPool: the counters agree with the connections in use and with *)
(* the idle lists, although they are changed in two critical sections with *)
(* openings that fail in between; no more than _max connections are in use *)
(* unless two clients opened at once; and between two updates at most one  *)
(* read server is taken out, never the last.                               *)
ConnectionsCounted == part = "dbPool" => DbPool!ConnectionsCounted

(* CallGuarantee: no call is lost, doubled or given up early between the   *)
(* queues, the threads and DoInTime, whatever fails; the doer does not     *)
(* sleep on beside a crowd, and the redoer, which does not look again      *)
(* after its wait, is woken only to work.  CallGuaranteeManager: an        *)
(* identity is queued at most once and its entry has a carrier unless a    *)
(* full redo queue refused one; no merge loses a call while handles come   *)
(* in the order of their creation; nothing is merged into a handle that is *)
(* being read.                                                             *)
CallsKept ==
  /\ [](part = "batches" => /\ Batches!EachCallInOnePlace
                             /\ Batches!GivenUpAfterEveryRedo
                             /\ Batches!DoerSleepsWithinWaitSize
                             /\ Batches!NotifiedRedoerHasWork)
  /\ [](part = "merging" => /\ Merging!QueuedOncePerId
                             /\ Merging!EntryHasCarrier
                             /\ Merging!MergedCallsKept)
  /\ [][part = "merging" => Merging!LeavesCalledAlone]_vars

(* ClientInterface::renew: when no thread is in it or on its way to it,    *)
(* the tables are those of the state the subscriber was last given.        *)
TablesFollowSubscriber == part = "client" => Client!TablesFollowSubscriber

(* ClientInterface::getObjectPrx: a reader that has found nothing looked   *)
(* in tables without a server of that mod, or a renewal replaced them      *)
(* meanwhile; one is given a server of another mod than the user's only if *)
(* it read _cluster before the client was first told of a server.          *)
LookupWrongOnlyByRenewal ==
  part = "client" => Client!NullOnlyByRenewal /\ Client!WrongModOnlyAtStart

(* Pipe::handle: every object a pipe has taken is in its queue, in one     *)
(* batch, handled or failed, and objects are handed on in their order      *)
(* unless two timers of the channel are in its handle.  ThreadPool::Post: a      *)
(* range runs in its order, one message after the other.  AsyncRunner: a   *)
(* function posted n times runs n times over the copies of its wrapper,    *)
(* and task_ counts the posts that are not through, even when they throw.  *)
DoneOnceInOrder ==
  /\ part = "pipes" => TwoPipes!TakenOnce /\ TwoPipes!OrderUnlessOverlap
  /\ part = "stopped" => Stopped!RangeInOrder
  /\ part = "async" => Async!RunsCountTimes /\ Async!TaskCountExact

-----------------------------------------------------------------------------
(* What is handed over is done.  TaskManager: a task is run or cancelled,  *)
(* also by an executor that another has pushed out of the table, unless    *)
(* ThreadPoolExecutor strands it and the executor is never given another   *)
(* task.  Pipe: an object is handled or fails, whichever push made the     *)
(* pipe and whichever timer it is on.  CallGuarantee: a call is made with  *)
(* success or given up with a log line; CallGuaranteeManager: so is a call *)
(* of an identity whose handles were merged in the order of their times    *)
(* and none of which was refused (any other may be lost in silence).       *)
HandedOverIsDone ==
  (\/ part = "levelFair" /\ LevelFair!Given(c1)
   \/ part = "strandedFair" /\ StrandedFair!Given(c1)
   \/ part = "pipeFair" /\ PipeFair!Queued("made", b1)
   \/ part = "batchesFair" /\ BatchesFair!Added(c1)
   \/ part = "mergingFair" /\ MergingFair!Added(c1)) ~>
  (\/ part = "levelFair" /\ LevelFair!RunOrCancelled(c1)
   \/ [](part = "levelFair" /\ LevelFair!StrandedLast(c1))
   \/ part = "strandedFair" /\ StrandedFair!RunOrCancelled(c1)
   \/ [](part = "strandedFair" /\ StrandedFair!StrandedLast(c1))
   \/ part = "pipeFair" /\ PipeFair!HandledOrFailed("made", b1)
   \/ part = "batchesFair" /\ BatchesFair!Settled(c1)
   \/ part = "mergingFair" /\ (MergingFair!Settled(c1) \/ MergingFair!MayBeLost(c1)))

(* ObjectFactory::create returns, with or without an object.  The          *)
(* constructor of TempMutexManager::Lock waits for ever only if others     *)
(* take its key again and again: no mutex stays locked with nobody to      *)
(* unlock it.                                                              *)
WaitsEnd ==
  /\ (part = "cacheFair" /\ CacheFair!WaitsForObject(a1)) ~>
     (part = "cacheFair" /\ ~CacheFair!WaitsForObject(a1))
  /\ <>[](part = "mutexes" /\ Mutexes!Waits(c1)) =>
       /\ []<>(part = "mutexes" /\ Mutexes!KeyIsFree(c1))
       /\ []<>(part = "mutexes" /\ ~Mutexes!KeyIsFree(c1))
==============================================================================
