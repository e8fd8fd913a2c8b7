---------------------------- MODULE ReadWriteLock ----------------------------
(***************************************************************************)
(* ReadWriteLock of base/rwlock.h, a lock for readers and writers that     *)
(* prefers writers: a mutex, two condition variables and four counters.    *)
(* What a thread does while it holds the mutex is one action; a thread     *)
(* that waits on a condition variable sleeps until it is notified or wakes *)
(* for no reason, and then has to get the mutex again.                     *)
(***************************************************************************)
EXTENDS Naturals, FiniteSets

CONSTANT Threads

ThreadsAssumption == IsFiniteSet(Threads)

VARIABLES
  pc,            \* where a thread is
  readers,       \* readers_
  writers,       \* writers_
  read_waiters,  \* read_waiters_
  write_waiters  \* write_waiters_

vars == <<pc, readers, writers, read_waiters, write_waiters>>

(* sleepRead and sleepWrite are waits on cond_read_ and cond_write_,       *)
(* wakeRead and wakeWrite are threads that have been woken and do not have *)
(* the mutex yet.                                                          *)
Places == {"idle", "reading", "writing", "sleepRead", "wakeRead", "sleepWrite", "wakeWrite"}

At(place) == {t \in Threads : pc[t] = place}

Init ==
  /\ pc = [t \in Threads |-> "idle"]
  /\ readers = 0 /\ writers = 0 /\ read_waiters = 0 /\ write_waiters = 0

Goto(t, place) == pc' = [pc EXCEPT ![t] = place]

(* Fault: a reader waits for the writer that has the lock only.            *)
WritersOnly == writers # 0

(* writers_ || write_waiters_                                              *)
ReaderMustWait == writers # 0 \/ write_waiters # 0

(* Fault: a writer waits for the other writers only.                       *)
OtherWritersOnly == writers # 0

WriterMustWait == readers # 0 \/ writers # 0

(* Fault: a reader that has to wait is not counted.                        *)
ReadWaiterUncounted == read_waiters

ReadWaiterCounted == read_waiters + 1

-----------------------------------------------------------------------------
ReadLock(t) ==
  /\ pc[t] = "idle"
  /\ IF ReaderMustWait
     THEN Goto(t, "sleepRead") /\ read_waiters' = ReadWaiterCounted /\ UNCHANGED readers
     ELSE Goto(t, "reading") /\ readers' = readers + 1 /\ UNCHANGED read_waiters
  /\ UNCHANGED <<writers, write_waiters>>

(* The loop in ReadLock, when the wait has returned.                       *)
ReadLockWoken(t) ==
  /\ pc[t] = "wakeRead"
  /\ IF ReaderMustWait
     THEN Goto(t, "sleepRead") /\ UNCHANGED <<readers, read_waiters>>
     ELSE /\ Goto(t, "reading")
          /\ readers' = readers + 1 /\ read_waiters' = read_waiters - 1
  /\ UNCHANGED <<writers, write_waiters>>

WriteLock(t) ==
  /\ pc[t] = "idle"
  /\ IF WriterMustWait
     THEN Goto(t, "sleepWrite") /\ write_waiters' = write_waiters + 1 /\ UNCHANGED writers
     ELSE Goto(t, "writing") /\ writers' = 1 /\ UNCHANGED write_waiters
  /\ UNCHANGED <<readers, read_waiters>>

(* The loop in WriteLock, when the wait has returned.                      *)
WriteLockWoken(t) ==
  /\ pc[t] = "wakeWrite"
  /\ IF WriterMustWait
     THEN Goto(t, "sleepWrite") /\ UNCHANGED <<writers, write_waiters>>
     ELSE /\ Goto(t, "writing")
          /\ writers' = 1 /\ write_waiters' = write_waiters - 1
  /\ UNCHANGED <<readers, read_waiters>>

(* The thread goes to idle; notify_one wakes one sleeper if there is one.  *)
LeaveNotifyWriter(t) ==
  IF At("sleepWrite") = {} THEN Goto(t, "idle")
  ELSE \E u \in At("sleepWrite") :
         pc' = [pc EXCEPT ![t] = "idle", ![u] = "wakeWrite"]

(* Fault: only one of the readers that wait is notified.                   *)
LeaveNotifyOne(t) ==
  IF At("sleepRead") = {} THEN Goto(t, "idle")
  ELSE \E u \in At("sleepRead") :
         pc' = [pc EXCEPT ![t] = "idle", ![u] = "wakeRead"]

(* notify_all.                                                             *)
LeaveNotifyReaders(t) ==
  pc' = [u \in Threads |-> IF u = t THEN "idle"
                           ELSE IF pc[u] = "sleepRead" THEN "wakeRead" ELSE pc[u]]

ReadUnlock(t) ==
  /\ pc[t] = "reading"
  /\ readers' = readers - 1
  /\ IF write_waiters # 0 THEN LeaveNotifyWriter(t) ELSE Goto(t, "idle")
  /\ UNCHANGED <<writers, read_waiters, write_waiters>>

WriteUnlock(t) ==
  /\ pc[t] = "writing"
  /\ writers' = 0
  /\ IF write_waiters # 0 THEN LeaveNotifyWriter(t)
     ELSE IF read_waiters # 0 THEN LeaveNotifyReaders(t)
     ELSE Goto(t, "idle")
  /\ UNCHANGED <<readers, read_waiters, write_waiters>>

(* A wait may return for no reason.                                        *)
SpuriousWakeup(t) ==
  /\ \/ pc[t] = "sleepRead" /\ Goto(t, "wakeRead")
     \/ pc[t] = "sleepWrite" /\ Goto(t, "wakeWrite")
  /\ UNCHANGED <<readers, writers, read_waiters, write_waiters>>

Woken(t) == ReadLockWoken(t) \/ WriteLockWoken(t)
Unlock(t) == ReadUnlock(t) \/ WriteUnlock(t)

Next ==
  \E t \in Threads :
    ReadLock(t) \/ WriteLock(t) \/ Woken(t) \/ Unlock(t) \/ SpuriousWakeup(t)

Spec == Init /\ [][Next]_vars

-----------------------------------------------------------------------------
TypeOK ==
  /\ pc \in [Threads -> Places]
  /\ readers \in Nat /\ writers \in {0, 1}
  /\ read_waiters \in Nat /\ write_waiters \in Nat

(* The counters say how many threads read, write and wait: the unsigned    *)
(* counters never go below zero, although a woken thread counts itself out *)
(* long after it was notified.                                             *)
CountersExact ==
  /\ readers = Cardinality(At("reading")) /\ writers = Cardinality(At("writing"))
  /\ read_waiters = Cardinality(At("sleepRead") \cup At("wakeRead"))
  /\ write_waiters = Cardinality(At("sleepWrite") \cup At("wakeWrite"))

(* A writer is alone.                                                      *)
Exclusion ==
  \A t, u \in Threads : pc[t] = "writing" /\ t # u => pc[u] \notin {"reading", "writing"}

(* A thread sleeps only for a reason: a waiting writer while somebody has  *)
(* the lock or another waiting writer is awake, a waiting reader while a   *)
(* writer has the lock or waits.                                           *)
SleepersWillBeWoken ==
  /\ At("sleepWrite") # {} =>
       At("reading") \cup At("writing") \cup At("wakeWrite") # {}
  /\ At("sleepRead") # {} =>
       At("writing") \cup At("sleepWrite") \cup At("wakeWrite") # {}

(* "Writers first": a reader never enters while a writer waits.            *)
PutsWritersFirst ==
  \A t \in Threads : pc[t] # "reading" /\ pc'[t] = "reading" =>
    At("sleepWrite") \cup At("wakeWrite") = {}

(* What the lock promises at every moment.                                 *)
LockSound == CountersExact /\ Exclusion /\ SleepersWillBeWoken
==============================================================================
