------------------------------- MODULE MCBase -------------------------------
(***************************************************************************)
(* The library base: small instances of its components, side by side.  A   *)
(* part whose name ends in Fair is the instance on which liveness is       *)
(* checked.                                                                *)
(***************************************************************************)
EXTENDS SideBySide, TLC

CONSTANTS a1, a2, b1, b2, c1, c2, c3

Two == {a1, a2}
OtherTwo == {b1, b2}
Three == {c1, c2, c3}

(* Threads, clients, tasks and the like are interchangeable.               *)
Symmetry == Permutations(Two) \cup Permutations(OtherTwo) \cup Permutations(Three)

Thread == <<c1, c2, c3>>
Job == <<a1, a2>>

-----------------------------------------------------------------------------
(* An instance of a ...Proofs module is one of the module it is about,     *)
(* with its theorems, which LibraryProofs uses.                            *)
Lock == INSTANCE ReadWriteLockProofs WITH
  Threads <- Two \cup Three,
  pc <- x1, readers <- x2, writers <- x3, read_waiters <- x4, write_waiters <- x5

LockFair == INSTANCE ReadWriteLock WITH
  Threads <- Three,
  pc <- x1, readers <- x2, writers <- x3, read_waiters <- x4, write_waiters <- x5

(* Two posters make an empty pool grow, and its owner stops it.  It may    *)
(* have one worker more than the two posters can make of a maximum of one. *)
Stopped == INSTANCE BaseThreadPool WITH
  Posters <- Two, MaxMessages <- 3, MaxWorkers <- 3, InitSize <- 0, InitMax <- 1,
  BusyLimit <- 2, Sizes <- {}, OwnerCalls <- 0, MayStop <- TRUE,
  queue <- x1, busy <- x2, quit <- x3, wpc <- x4, current <- x5, workers <- x6, i <- x7,
  max_size <- x8, ppc <- x9, chosen <- x10, batch <- x11, owner <- x12, created <- x13,
  posted <- x14, calls <- x15, deleted <- x16, undefined <- x17, batches <- x18, done <- x19,
  missed <- x20, late <- x21

(* set_size makes the pool larger while two threads post.                  *)
Grown == INSTANCE BaseThreadPool WITH
  Posters <- Two, MaxMessages <- 3, MaxWorkers <- 3, InitSize <- 1, InitMax <- 1,
  BusyLimit <- 2, Sizes <- {2}, OwnerCalls <- 2, MayStop <- FALSE,
  queue <- x1, busy <- x2, quit <- x3, wpc <- x4, current <- x5, workers <- x6, i <- x7,
  max_size <- x8, ppc <- x9, chosen <- x10, batch <- x11, owner <- x12, created <- x13,
  posted <- x14, calls <- x15, deleted <- x16, undefined <- x17, batches <- x18, done <- x19,
  missed <- x20, late <- x21

(* set_size makes it smaller.                                              *)
ShrunkFair == INSTANCE BaseThreadPool WITH
  Posters <- {a1}, MaxMessages <- 2, MaxWorkers <- 3, InitSize <- 3, InitMax <- 2,
  BusyLimit <- 2, Sizes <- {1}, OwnerCalls <- 1, MayStop <- FALSE,
  queue <- x1, busy <- x2, quit <- x3, wpc <- x4, current <- x5, workers <- x6, i <- x7,
  max_size <- x8, ppc <- x9, chosen <- x10, batch <- x11, owner <- x12, created <- x13,
  posted <- x14, calls <- x15, deleted <- x16, undefined <- x17, batches <- x18, done <- x19,
  missed <- x20, late <- x21

StoppedFair == INSTANCE BaseThreadPool WITH
  Posters <- {a1}, MaxMessages <- 3, MaxWorkers <- 2, InitSize <- 1, InitMax <- 2,
  BusyLimit <- 2, Sizes <- {}, OwnerCalls <- 0, MayStop <- TRUE,
  queue <- x1, busy <- x2, quit <- x3, wpc <- x4, current <- x5, workers <- x6, i <- x7,
  max_size <- x8, ppc <- x9, chosen <- x10, batch <- x11, owner <- x12, created <- x13,
  posted <- x14, calls <- x15, deleted <- x16, undefined <- x17, batches <- x18, done <- x19,
  missed <- x20, late <- x21

Async == INSTANCE AsyncRunner WITH
  Jobs <- Three, Counts <- {0, 2, 3}, Retry <- 3, ThreadSize <- 2, max_thread_size <- 3,
  MaxStops <- 2,
  kind <- x1, count <- x2, called <- x3, state <- x4, busy <- x5, task <- x6, thread_size <- x7,
  group <- x8, live <- x9, stop <- x10, stopped <- x11, main <- x12, check <- x13, stops <- x14,
  straggler <- x15

AsyncFair == INSTANCE AsyncRunner WITH
  Jobs <- Two, Counts <- {0, 2}, Retry <- 3, ThreadSize <- 2, max_thread_size <- 3,
  MaxStops <- 1,
  kind <- x1, count <- x2, called <- x3, state <- x4, busy <- x5, task <- x6, thread_size <- x7,
  group <- x8, live <- x9, stop <- x10, stopped <- x11, main <- x12, check <- x13, stops <- x14,
  straggler <- x15

(* What the modules assume of their constants.                             *)
ASSUME BaseAssumption ==
  /\ Lock!ThreadsAssumption /\ Stopped!PoolAssumption
  /\ Grown!PoolAssumption /\ Async!RunnerAssumption
  /\ LockFair!ThreadsAssumption /\ ShrunkFair!PoolAssumption
  /\ StoppedFair!PoolAssumption /\ AsyncFair!RunnerAssumption

-----------------------------------------------------------------------------
BaseInit ==
  /\ part \in Parts
  /\ \/ Begins("lock", 5) /\ Lock!Init
     \/ Begins("stopped", 21) /\ Stopped!Init
     \/ Begins("grown", 21) /\ Grown!Init
     \/ Begins("async", 15) /\ Async!Init
     \/ Begins("lockFair", 5) /\ LockFair!Init
     \/ Begins("shrunkFair", 21) /\ ShrunkFair!Init
     \/ Begins("stoppedFair", 21) /\ StoppedFair!Init
     \/ Begins("asyncFair", 15) /\ AsyncFair!Init

BaseNext ==
  \/ Moves("lock", 5) /\ Lock!Next
  \/ Moves("stopped", 21) /\ Stopped!Next
  \/ Moves("grown", 21) /\ Grown!Next
  \/ Moves("async", 15) /\ Async!Next
  \/ Moves("lockFair", 5) /\ LockFair!Next
  \/ Moves("shrunkFair", 21) /\ ShrunkFair!Next
  \/ Moves("stoppedFair", 21) /\ StoppedFair!Next
  \/ Moves("asyncFair", 15) /\ AsyncFair!Next

(* Fairness.  Since a behaviour is one of a single part, a condition on    *)
(* the actions of several parts is one condition on each.                  *)

(* The workers of a ThreadPool run and messages return; threads that       *)
(* ReadWriteLock has woken run; the threads of AsyncRunner and its Check   *)
(* run.                                                                    *)
Runs(k) ==
  \/ Moves("shrunkFair", 21) /\ ShrunkFair!RunningWorker(k)
  \/ Moves("stoppedFair", 21) /\ k <= 2 /\ StoppedFair!RunningWorker(k)
  \/ Moves("lockFair", 5) /\ LockFair!Woken(Thread[k])
  \/ Moves("asyncFair", 15) /\ \/ k = 1 /\ AsyncFair!ThreadLeaves
                               \/ k = 2 /\ AsyncFair!Joined
                               \/ k = 3 /\ AsyncFair!Check

(* Whoever has a ReadWriteLock gives it back; functions that AsyncRunner   *)
(* calls return; the poster and the owner of a ThreadPool run.             *)
Returns(k) ==
  \/ Moves("lockFair", 5) /\ LockFair!Unlock(Thread[k])
  \/ Moves("asyncFair", 15) /\ k <= 2 /\ \E ok \in BOOLEAN : AsyncFair!Return(Job[k], ok)
  \/ Moves("shrunkFair", 21) /\ \/ k = 1 /\ ShrunkFair!RunningPoster(a1)
                                \/ k = 2 /\ ShrunkFair!RunningOwner
  \/ Moves("stoppedFair", 21) /\ \/ k = 1 /\ StoppedFair!RunningPoster(a1)
                                 \/ k = 2 /\ StoppedFair!RunningOwner

(* A pending job of AsyncRunner is taken by some thread, however busy the  *)
(* others are with the other jobs.                                         *)
BaseFairness ==
  /\ \A k \in 1 .. 3 : WF_vars(Runs(k)) /\ WF_vars(Returns(k))
  /\ \A j \in Two : SF_vars(Moves("asyncFair", 15) /\ AsyncFair!Begin(j))

-----------------------------------------------------------------------------
BaseTypeOK ==
  /\ part = "lock" => Lock!TypeOK
  /\ part = "stopped" => Stopped!TypeOK
  /\ part = "grown" => Grown!TypeOK
  /\ part = "async" => Async!TypeOK
  /\ part = "lockFair" => LockFair!TypeOK
  /\ part = "shrunkFair" => ShrunkFair!TypeOK
  /\ part = "stoppedFair" => StoppedFair!TypeOK
  /\ part = "asyncFair" => AsyncFair!TypeOK

(* ReadWriteLock: a writer is alone, the unsigned counters say how many    *)
(* threads read, write and wait, and a thread sleeps only while somebody   *)
(* is there who will wake it.                                              *)
LockSound == part = "lock" => Lock!LockSound

(* ReadWriteLock, "writers first": a reader never enters while a writer    *)
(* waits, and while one waits some writer comes to have the lock, however  *)
(* many readers come.                                                      *)
WritersFirst ==
  /\ [][part = "lockFair" => LockFair!PutsWritersFirst]_vars
  /\ (part = "lockFair" /\ LockFair!At("sleepWrite") # {}) ~>
     (part = "lockFair" /\ LockFair!At("writing") # {})

(* ThreadPool::GetIdle: the posters take the pool past max_size_ by no     *)
(* more than the posters there are beside the first, and a pool that       *)
(* set_size does not make smaller never uses a deleted worker.             *)
(* MessageQueue::Close: a worker sleeps on a closed queue only if Close    *)
(* came between its test of quit_ and its wait.  AsyncRunner::Check: the   *)
(* threads stay within max_thread_size_, but for one that Check adds when  *)
(* Stop has already joined the others.                                     *)
WorkersSound ==
  /\ part = "stopped" => Stopped!BoundedOvershoot /\ Stopped!AsleepOnlyIfMissed
  /\ part = "grown" => Grown!NoUseAfterDelete
  /\ part = "async" => Async!LiveWithinMax

(* ThreadPool::Post: every message that is posted is run, unless its       *)
(* worker is closed, and Shrunk throws none away: what is left in the      *)
(* queue of a deleted worker was put there by a poster that had chosen it  *)
(* before.  AsyncRunner: what is posted is run as often as the caller has  *)
(* asked while the service is up, and a SurePost once, whether it succeeds *)
(* or not (it is not retried: SureRetries).                                *)
PostedIsRun ==
  /\ [](part = "shrunkFair" => ShrunkFair!LostOnlyToLatePost)
  /\ \A m \in 1 .. 3 :
       (\/ part = "stoppedFair" /\ StoppedFair!Queued(m)
        \/ part = "asyncFair" /\ AsyncFair!Pending(a1)) ~>
       (\/ part = "stoppedFair" /\ StoppedFair!RunOrClosed(m)
        \/ part = "asyncFair" /\ \/ ~AsyncFair!MainAt("up")
                                 \/ AsyncFair!RunAsOftenAsAsked(a1)
                                 \/ AsyncFair!SureRunOnce(a1))

(* SurePost, "on failure retry n times" (asyncall.h:127).                  *)
SureRetries == part = "async" => Async!SureRetries

(* ThreadPool::Join returns, unless a worker missed its Close or was       *)
(* created behind Stop's back and is not closed at all; Shrunk gets past a *)
(* worker it deletes, and so gives up the mutex that every Post needs,     *)
(* unless the worker missed its Close; AsyncRunner::Stop returns once the  *)
(* functions do.                                                           *)
StopsReturn ==
  (\/ part = "stoppedFair" /\ StoppedFair!OwnerAt("join")
   \/ part = "shrunkFair" /\ ShrunkFair!OwnerAt("delete")
   \/ part = "asyncFair" /\ AsyncFair!MainAt("joinAll")) ~>
  (\/ part = "stoppedFair" /\ \/ StoppedFair!OwnerAt("joined")
                              \/ StoppedFair!CloseMissed \/ StoppedFair!Unclosed
   \/ part = "shrunkFair" /\ \/ ShrunkFair!OwnerAt("idle")
                             \/ ShrunkFair!CloseMissed \/ ~ShrunkFair!NoUseAfterDelete
   \/ part = "asyncFair" /\ AsyncFair!MainAt("down"))
==============================================================================
