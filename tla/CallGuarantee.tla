---------------------------- MODULE CallGuarantee ----------------------------
(***************************************************************************)
(* The queue that makes a service's outgoing calls in batches and repeats  *)
(* the ones that fail: CallGuarantee/src/CallGuarantee.h.  A vector of     *)
(* calls is a set here (it is always taken whole and its order is not      *)
(* looked at).  Do and Redo are supplied by the service: they return true, *)
(* or they return false or throw.                                          *)
(***************************************************************************)
EXTENDS Naturals, Sequences, FiniteSets, SequencesExt

CONSTANTS
  Calls,           \* the calls a service adds, each once
  WaitSize,        \* waitsize_
  RedoCount,       \* redotime_
  RedoSize,        \* redosize_
  SpuriousWakeups  \* whether Monitor::wait may return without a notify

GuaranteeAssumption ==
  /\ IsFiniteSet(Calls)
  /\ WaitSize \in Nat /\ RedoCount \in Nat /\ RedoSize \in Nat
  /\ SpuriousWakeups \in BOOLEAN

VARIABLES
  doQueue,    \* DoThread::queue_
  redoQueue,  \* RedoThread::queue_: batches with the redos made so far
  inTime,     \* the batches that threads of the service are in DoInTime with
  doer,       \* where DoThread::run is, and its doqueue
  redoer,     \* where RedoThread::run is, and its redoqueue and time
  fate,       \* history: "new", "added", or how each call ended
  redos       \* history: how often each call has been redone

vars == <<doQueue, redoQueue, inTime, doer, redoer, fate, redos>>

Batches == SUBSET Calls
Ended   == {"done", "exhausted", "refused"}

Settle(batch, how) == [c \in Calls |-> IF c \in batch THEN how ELSE fate[c]]

Init ==
  /\ doQueue = {} /\ redoQueue = <<>> /\ inTime = {}
  /\ doer = [pc |-> "loop", batch |-> {}]
  /\ redoer = [pc |-> "loop", batch |-> {}, time |-> 0]
  /\ fate = [c \in Calls |-> "new"]
  /\ redos = [c \in Calls |-> 0]

-----------------------------------------------------------------------------
(* A thread of the service.                                                *)

(* Fault: the doer is notified only by the call that crosses waitsize_.    *)
CrowdedAtCrossing(n) == n = WaitSize + 1

(* Add's condition for waking the doer before its timeout.                 *)
Crowded(n) == n > WaitSize

(* Both forms of Add: one call, or a vector of them.                       *)
Add(batch) ==
  /\ batch # {} /\ \A c \in batch : fate[c] = "new"
  /\ doQueue' = doQueue \cup batch
  /\ doer' = IF doer.pc = "waiting" /\ Crowded(Cardinality(doQueue'))
             THEN [doer EXCEPT !.pc = "notified"] ELSE doer
  /\ fate' = Settle(batch, "added")
  /\ UNCHANGED <<redoQueue, inTime, redoer, redos>>

DoInTime(batch) ==
  /\ batch # {} /\ \A c \in batch : fate[c] = "new"
  /\ inTime' = inTime \cup {batch}
  /\ fate' = Settle(batch, "added")
  /\ UNCHANGED <<doQueue, redoQueue, doer, redoer, redos>>

(* RedoThread::Add: a full queue refuses the batch, which is only logged.  *)
RedoAdd(batch, time, redoer0) ==
  IF Len(redoQueue) < RedoSize
  THEN /\ redoQueue' = Append(redoQueue, [calls |-> batch, time |-> time])
       /\ redoer' = IF redoer0.pc = "waiting"
                    THEN [redoer0 EXCEPT !.pc = "notified"] ELSE redoer0
       /\ UNCHANGED fate
  ELSE /\ fate' = Settle(batch, "refused")
       /\ redoer' = redoer0
       /\ UNCHANGED redoQueue

(* Do returns to DoInTime.                                                 *)
DoInTimeReturns(batch, flag) ==
  /\ batch \in inTime
  /\ inTime' = inTime \ {batch}
  /\ IF flag THEN fate' = Settle(batch, "done") /\ UNCHANGED <<redoQueue, redoer>>
             ELSE RedoAdd(batch, 0, redoer)
  /\ UNCHANGED <<doQueue, doer, redos>>

-----------------------------------------------------------------------------
(* DoThread::run.                                                          *)

(* Fault: the batch is copied and the queue is not emptied.                *)
DoTakeCopy ==
  /\ doer' = IF doQueue = {} THEN [pc |-> "loop", batch |-> {}]
                             ELSE [pc |-> "do", batch |-> doQueue]
  /\ UNCHANGED doQueue

(* Fault: a timeout is taken as a sign that there is too little to do.      *)
DoTakeCrowd ==
  /\ doer' = IF ~ Crowded(Cardinality(doQueue)) THEN [pc |-> "loop", batch |-> {}]
             ELSE [pc |-> "do", batch |-> doQueue]
  /\ doQueue' = IF ~ Crowded(Cardinality(doQueue)) THEN doQueue ELSE {}

(* What follows the wait: the whole queue is taken, if there is any.       *)
DoTake ==
  /\ doer' = IF doQueue = {} THEN [pc |-> "loop", batch |-> {}]
                             ELSE [pc |-> "do", batch |-> doQueue]
  /\ doQueue' = {}

DoLoop ==
  /\ doer.pc = "loop"
  /\ IF Cardinality(doQueue) <= WaitSize
     THEN doer' = [doer EXCEPT !.pc = "waiting"] /\ UNCHANGED doQueue
     ELSE DoTake
  /\ UNCHANGED <<redoQueue, inTime, redoer, fate, redos>>

(* timedWait ends: by its timeout, by a notify or spuriously.              *)
DoWaitEnds ==
  /\ doer.pc \in {"waiting", "notified"}
  /\ DoTake
  /\ UNCHANGED <<redoQueue, inTime, redoer, fate, redos>>

DoReturns(flag) ==
  /\ doer.pc = "do"
  /\ doer' = [pc |-> "loop", batch |-> {}]
  /\ IF flag
     THEN fate' = Settle(doer.batch, "done") /\ UNCHANGED <<redoQueue, redoer>>
     ELSE RedoAdd(doer.batch, 0, redoer)
  /\ UNCHANGED <<doQueue, inTime, redos>>

-----------------------------------------------------------------------------
(* RedoThread::run.                                                        *)

(* The queue is looked at once, before the wait.  The front of an empty    *)
(* queue is undefined, and the model ends there.                           *)
RedoTake ==
  IF redoQueue = <<>>
  THEN /\ redoer' = [redoer EXCEPT !.pc = "undefined"]
       /\ UNCHANGED redoQueue
  ELSE /\ redoer' = [pc |-> "redo", batch |-> Head(redoQueue).calls,
                     time |-> Head(redoQueue).time]
       /\ redoQueue' = Tail(redoQueue)

(* Fault: the redo thread goes to sleep on a batch.                        *)
NothingToRedoButOne == Len(redoQueue) <= 1

NothingToRedo == Len(redoQueue) = 0

RedoLoop ==
  /\ redoer.pc = "loop"
  /\ IF NothingToRedo
     THEN redoer' = [redoer EXCEPT !.pc = "waiting"] /\ UNCHANGED redoQueue
     ELSE RedoTake
  /\ UNCHANGED <<doQueue, inTime, doer, fate, redos>>

RedoNotified ==
  /\ redoer.pc = "notified"
  /\ RedoTake
  /\ UNCHANGED <<doQueue, inTime, doer, fate, redos>>

RedoSpuriousWakeup ==
  /\ SpuriousWakeups /\ redoer.pc = "waiting"
  /\ RedoTake
  /\ UNCHANGED <<doQueue, inTime, doer, fate, redos>>

Idle == [pc |-> "loop", batch |-> {}, time |-> 0]

(* Fault: the redos are counted from one.                                  *)
MayRedoFromOne(time) == time + 1 < RedoCount

(* Fault: one redo too many.                                               *)
MayRedoOnceMore(time) == time <= RedoCount

MayRedo(time) == time < RedoCount

(* Redo is called, and returns, unless the batch has had its redos; then   *)
(* it is only logged.                                                      *)
RedoReturns(flag) ==
  /\ redoer.pc = "redo"
  /\ IF MayRedo(redoer.time)
     THEN /\ redos' = [c \in Calls |-> IF c \in redoer.batch
                                       THEN redos[c] + 1 ELSE redos[c]]
          /\ IF flag THEN /\ fate' = Settle(redoer.batch, "done")
                          /\ redoer' = Idle /\ UNCHANGED redoQueue
                     ELSE RedoAdd(redoer.batch, redoer.time + 1, Idle)
     ELSE /\ fate' = Settle(redoer.batch, "exhausted")
          /\ redoer' = Idle
          /\ UNCHANGED <<redoQueue, redos>>
  /\ UNCHANGED <<doQueue, inTime, doer>>

-----------------------------------------------------------------------------
DoThreadStep == DoLoop \/ DoWaitEnds \/ \E flag \in BOOLEAN : DoReturns(flag)

RedoThreadStep ==
  \/ RedoLoop \/ RedoNotified
  \/ \E flag \in BOOLEAN : RedoReturns(flag)

InTimeStep ==
  \E batch \in Batches, flag \in BOOLEAN : DoInTimeReturns(batch, flag)

Next ==
  \/ \E batch \in Batches : Add(batch) \/ DoInTime(batch)
  \/ InTimeStep \/ DoThreadStep \/ RedoThreadStep \/ RedoSpuriousWakeup

Spec == Init /\ [][Next]_vars

-----------------------------------------------------------------------------
TypeOK ==
  /\ doQueue \in Batches /\ inTime \subseteq Batches
  /\ redoQueue \in Seq([calls : Batches, time : 0..RedoCount])
  /\ doer \in [pc : {"loop", "waiting", "notified", "do"}, batch : Batches]
  /\ redoer \in [pc : {"loop", "waiting", "notified", "redo", "undefined"},
                  batch : Batches, time : 0..RedoCount]
  /\ fate \in [Calls -> {"new", "added"} \cup Ended]
  /\ redos \in [Calls -> 0..RedoCount]

(* No call is lost or doubled on its way between the two queues, the two   *)
(* threads and DoInTime, whatever fails: it is new, or waits in one place, *)
(* or has ended.                                                           *)
EachCallInOnePlace ==
  \A c \in Calls :
    Cardinality({i \in DOMAIN redoQueue : c \in redoQueue[i].calls})
      + Cardinality({batch \in inTime : c \in batch})
      + Cardinality({place \in {<<1, doQueue>>, <<2, doer.batch>>,
                                <<3, redoer.batch>>} : c \in place[2]})
      = IF fate[c] = "added" THEN 1 ELSE 0

(* Add notifies the doer only above waitsize_: the doer never sleeps on,   *)
(* unnotified, while more calls than that are queued, however they came.   *)
DoerSleepsWithinWaitSize ==
  doer.pc = "waiting" => Cardinality(doQueue) <= WaitSize

(* RedoThread::run does not look at the queue again after its wait: it     *)
(* sleeps only while there is nothing to redo, and a notify that wakes it  *)
(* leaves something for it.                                                *)
NotifiedRedoerHasWork ==
  /\ redoer.pc = "waiting" => redoQueue = <<>>
  /\ redoer.pc = "notified" => redoQueue # <<>>

(* A call is given up, without a full redo queue, only after exactly       *)
(* redotime_ redos, and never redone more often; time counts its redos     *)
(* although it travels with the batch through the queue.                   *)
GivenUpAfterEveryRedo ==
  /\ \A c \in Calls : /\ redos[c] <= RedoCount
                      /\ fate[c] = "exhausted" => redos[c] = RedoCount
  /\ \A i \in DOMAIN redoQueue : \A c \in redoQueue[i].calls :
       redoQueue[i].time = redos[c]

Added(c) == fate[c] = "added"
Settled(c) == fate[c] \in Ended
==============================================================================
