------------------------- MODULE CallGuaranteeManager -------------------------
(***************************************************************************)
(* The variant of CallGuarantee that merges the calls of one identity:     *)
(* CallGuarantee/src/CallGuaranteeManager.h.  idToHandleMap_ holds the     *)
(* handle that waits for an identity, and a further call is merged into it *)
(* instead of being queued.  The map and the two queues have locks of      *)
(* their own, so every passage from one to another is two steps.           *)
(*                                                                         *)
(* at[h] says where handle h is: each handle is in the hands of one thread *)
(* or in one queue.  The sleep of the two threads is CallGuarantee's (here *)
(* every push notifies), so a thread simply takes when its queue is not    *)
(* empty.                                                                  *)
(***************************************************************************)
EXTENDS Naturals, Sequences, FiniteSets

CONSTANTS
  Handles,    \* the GuaranteeHandles the service makes, each added once
  Ids,        \* the identities of calls
  RedoCount,  \* redotime_
  RedoSize,   \* redosize_
  None        \* the null handle

ManagerAssumption ==
  /\ IsFiniteSet(Handles) /\ None \notin Handles
  /\ RedoCount \in Nat /\ RedoSize \in Nat

VARIABLES
  idToHandleMap,  \* idToHandleMap_, None where there is no entry
  doQueue,        \* DoThread::queue_
  redoQueue,      \* RedoThread::queue_
  doer, redoer,   \* the handle each thread works on: doObj and redoObj
  at,             \* where each handle is
  id,             \* the identity each handle was added with
  createTime,     \* _createTime
  time,           \* the redos counted so far, while a handle is on its way
  carries,        \* the calls whose data a handle carries, after the merges
  clock,          \* gettimeofday, as far as handles can tell the times apart
  made, logged,   \* history: the calls made with success and those given up
  overtaken       \* history: identities with a handle added after a newer one

queueVars   == <<doQueue, redoQueue, doer, redoer, time>>
handleVars  == <<id, createTime, clock>>
historyVars == <<made, logged, overtaken>>
vars == <<idToHandleMap, queueVars, at, carries, handleVars, historyVars>>

(* Where a handle is while its identity must be in the map.                *)
Carrying == {"doPush", "doQueue", "doTaken", "redoPush", "redoQueue", "redoTaken"}
(* Where its call is being made.                                           *)
Calling  == {"inTime", "doing", "redoing"}
Over     == {"done", "exhausted", "refused", "merged"}

Init ==
  /\ idToHandleMap = [i \in Ids |-> None]
  /\ doQueue = <<>> /\ redoQueue = <<>> /\ doer = None /\ redoer = None
  /\ at = [h \in Handles |-> "unborn"]
  /\ id \in [Handles -> Ids]
  /\ createTime = [h \in Handles |-> 0] /\ time = [h \in Handles |-> 0]
  /\ carries = [h \in Handles |-> {h}]
  /\ clock = 0
  /\ made = {} /\ logged = {} /\ overtaken = {}

-----------------------------------------------------------------------------
(* GuaranteeHandle::GuaranteeHandle: the time is taken long before the     *)
(* handle is added, and two handles may have the same one.                 *)
GuaranteeHandle(h) ==
  /\ at[h] = "unborn"
  /\ at' = [at EXCEPT ![h] = "new"]
  /\ clock' \in {clock, clock + 1}
  /\ createTime' = [createTime EXCEPT ![h] = clock']
  /\ UNCHANGED <<idToHandleMap, queueVars, carries, id, historyVars>>

(* Fault: an entry is replaced without a look at it.                       *)
putInMap(h, next) ==
  /\ idToHandleMap' = [idToHandleMap EXCEPT ![id[h]] = h]
  /\ at' = [at EXCEPT ![h] = next]
  /\ UNCHANGED <<carries, createTime, overtaken>>

(* Fault: a further call is dropped without a merge.                       *)
keepFirst(h, next) ==
  /\ idToHandleMap' = [idToHandleMap EXCEPT ![id[h]] = IF @ = None THEN h ELSE @]
  /\ at' = [at EXCEPT ![h] = IF idToHandleMap[id[h]] = None THEN next ELSE "merged"]
  /\ UNCHANGED <<carries, createTime, overtaken>>

(* The handle that is not newer takes the entry over but is not queued: it *)
(* is the found one that still is.                                         *)
mergeIfAlreadyExist(h, next) ==
  LET found == idToHandleMap[id[h]] IN
  IF found = None
  THEN /\ idToHandleMap' = [idToHandleMap EXCEPT ![id[h]] = h]
       /\ at' = [at EXCEPT ![h] = next]
       /\ UNCHANGED <<carries, createTime, overtaken>>
  ELSE /\ IF createTime[h] > createTime[found]
          THEN /\ carries' = [carries EXCEPT ![found] = @ \cup carries[h]]
               /\ createTime' = [createTime EXCEPT ![found] = createTime[h]]
               /\ UNCHANGED <<idToHandleMap, overtaken>>
          ELSE /\ carries' = [carries EXCEPT ![h] = @ \cup carries[found]]
               /\ idToHandleMap' = [idToHandleMap EXCEPT ![id[h]] = h]
               /\ overtaken' = overtaken \cup {id[h]}
               /\ UNCHANGED createTime
       /\ at' = [at EXCEPT ![h] = "merged"]

(* Add(id, obj).                                                           *)
Add(h) ==
  /\ at[h] = "new"
  /\ mergeIfAlreadyExist(h, "doPush")
  /\ UNCHANGED <<queueVars, id, clock, made, logged>>

DoThreadAdd(h) ==
  /\ at[h] = "doPush"
  /\ at' = [at EXCEPT ![h] = "doQueue"]
  /\ doQueue' = Append(doQueue, h)
  /\ UNCHANGED <<idToHandleMap, redoQueue, doer, redoer, time, carries,
                 handleVars, historyVars>>

DoInTime(h) ==
  /\ at[h] = "new"
  /\ at' = [at EXCEPT ![h] = "inTime"]
  /\ UNCHANGED <<idToHandleMap, queueVars, carries, handleVars, historyVars>>

(* The thread that had h is done with it.                                  *)
Release(h) ==
  /\ doer' = IF doer = h THEN None ELSE doer
  /\ redoer' = IF redoer = h THEN None ELSE redoer

(* doHandle or reDoHandle returns true, or it returns false or throws.     *)
CallReturns(h, flag) ==
  /\ at[h] \in Calling
  /\ IF flag THEN /\ at' = [at EXCEPT ![h] = "done"]
                  /\ made' = made \cup carries[h]
                  /\ Release(h) /\ UNCHANGED time
             ELSE /\ at' = [at EXCEPT ![h] = "failed"]
                  /\ time' = [time EXCEPT ![h] =
                                IF at[h] = "redoing" THEN @ + 1 ELSE 0]
                  /\ UNCHANGED <<made, doer, redoer>>
  /\ UNCHANGED <<idToHandleMap, doQueue, redoQueue, carries, handleVars,
                 logged, overtaken>>

(* Add(id, obj, time), called by whichever thread made the call.           *)
AddFailed(h) ==
  /\ at[h] = "failed"
  /\ mergeIfAlreadyExist(h, "redoPush")
  /\ IF at'[h] = "merged" THEN Release(h) ELSE UNCHANGED <<doer, redoer>>
  /\ UNCHANGED <<doQueue, redoQueue, time, id, clock, made, logged>>

(* A full redo queue refuses the handle; its entry in the map stays.       *)
RedoThreadAdd(h) ==
  /\ at[h] = "redoPush"
  /\ IF Len(redoQueue) < RedoSize
     THEN /\ at' = [at EXCEPT ![h] = "redoQueue"]
          /\ redoQueue' = Append(redoQueue, h)
          /\ UNCHANGED logged
     ELSE /\ at' = [at EXCEPT ![h] = "refused"]
          /\ logged' = logged \cup carries[h]
          /\ UNCHANGED redoQueue
  /\ Release(h)
  /\ UNCHANGED <<idToHandleMap, doQueue, time, carries, handleVars, made,
                 overtaken>>

-----------------------------------------------------------------------------
DoThreadTake ==
  /\ doer = None /\ doQueue # <<>>
  /\ doer' = Head(doQueue)
  /\ doQueue' = Tail(doQueue)
  /\ at' = [at EXCEPT ![Head(doQueue)] = "doTaken"]
  /\ UNCHANGED <<idToHandleMap, redoQueue, redoer, time, carries, handleVars,
                 historyVars>>

RedoThreadTake ==
  /\ redoer = None /\ redoQueue # <<>>
  /\ redoer' = Head(redoQueue)
  /\ redoQueue' = Tail(redoQueue)
  /\ at' = [at EXCEPT ![Head(redoQueue)] = "redoTaken"]
  /\ UNCHANGED <<idToHandleMap, doQueue, doer, time, carries, handleVars,
                 historyVars>>

(* Fault: the entry is erased only if it is the handle's own.              *)
eraseOwnEntry(h) ==
  idToHandleMap' = [idToHandleMap EXCEPT ![id[h]] = IF @ = h THEN None ELSE @]

(* Fault: the entry is left to be erased when the call has been made.      *)
eraseNothing(h) == UNCHANGED idToHandleMap

eraseIdToHandleMapObj(h) ==
  idToHandleMap' = [idToHandleMap EXCEPT ![id[h]] = None]

MayRedo(h) == time[h] < RedoCount

(* The entry is erased, and then the call is made, or given up if it has   *)
(* had its redos.                                                          *)
StartCall(h) ==
  /\ at[h] \in {"doTaken", "redoTaken"}
  /\ eraseIdToHandleMapObj(h)
  /\ IF at[h] = "doTaken" \/ MayRedo(h)
     THEN /\ at' = [at EXCEPT ![h] = IF @ = "doTaken" THEN "doing" ELSE "redoing"]
          /\ UNCHANGED <<doer, redoer, logged>>
     ELSE /\ at' = [at EXCEPT ![h] = "exhausted"]
          /\ logged' = logged \cup carries[h]
          /\ Release(h)
  /\ UNCHANGED <<doQueue, redoQueue, time, carries, handleVars, made, overtaken>>

-----------------------------------------------------------------------------
(* What the threads do with handles they hold, and the two queues' heads.  *)
Progress ==
  \/ DoThreadTake \/ RedoThreadTake
  \/ \E h \in Handles :
       \/ DoThreadAdd(h) \/ RedoThreadAdd(h) \/ AddFailed(h) \/ StartCall(h)
       \/ \E flag \in BOOLEAN : CallReturns(h, flag)

Next ==
  \/ \E h \in Handles : GuaranteeHandle(h) \/ Add(h) \/ DoInTime(h)
  \/ Progress

Spec == Init /\ [][Next]_vars

-----------------------------------------------------------------------------
TypeOK ==
  /\ idToHandleMap \in [Ids -> Handles \cup {None}]
  /\ doQueue \in Seq(Handles) /\ redoQueue \in Seq(Handles)
  /\ doer \in Handles \cup {None} /\ redoer \in Handles \cup {None}
  /\ at \in [Handles -> {"unborn", "new"} \cup Carrying \cup Calling \cup {"failed"} \cup Over]
  /\ id \in [Handles -> Ids] /\ clock \in Nat
  /\ createTime \in [Handles -> 0..clock] /\ time \in [Handles -> 0..RedoCount]
  /\ carries \in [Handles -> SUBSET Handles]
  /\ made \subseteq Handles /\ logged \subseteq Handles /\ overtaken \subseteq Ids

(* The map keeps the calls of an identity apart although it is looked at   *)
(* under one lock and the queues are changed under two others: an identity *)
(* is at most once in the two queues and on the way to and from them, and  *)
(* then it is in the map.                                                  *)
QueuedOncePerId ==
  \A h \in Handles : at[h] \in Carrying =>
    /\ idToHandleMap[id[h]] # None
    /\ \A g \in Handles : at[g] \in Carrying /\ id[g] = id[h] => g = h

(* An identity in the map has a queued handle that will erase its entry,   *)
(* unless a full redo queue refused one: only then do later calls of the   *)
(* identity go into a handle that nobody takes.                            *)
EntryHasCarrier ==
  \A i \in Ids : idToHandleMap[i] # None =>
    \E h \in Handles : id[h] = i /\ at[h] \in Carrying \cup {"refused"}

(* The identities whose calls may be lost, neither made nor logged: one    *)
(* with a handle that was added after a newer one, and one with a handle   *)
(* that was refused, whose entry stays for later calls to be merged into.  *)
InMergeOrder(h) == id[h] \notin overtaken
Refused(h) == \E g \in Handles : id[g] = id[h] /\ at[g] = "refused"
MayBeLost(h) == ~InMergeOrder(h) \/ Refused(h)

(* While the handles of an identity are added in the order they were       *)
(* created, failed ones included, and none is refused, no merge loses a    *)
(* call: it has been made or logged, or its data is with a handle that is  *)
(* still to be called.                                                     *)
MergedCallsKept ==
  \A w \in Handles : at[w] \notin {"unborn", "new"} =>
    \/ w \in made \cup logged
    \/ \E h \in Handles : w \in carries[h] /\ at[h] \in Carrying \cup Calling \cup {"failed"}
    \/ MayBeLost(w)

(* The entry is erased before the call is made: nothing is merged into a   *)
(* handle while doHandle or reDoHandle reads it.                           *)
LeavesCalledAlone ==
  \A h \in Handles : at[h] \in Calling => carries'[h] = carries[h]

Added(w) == at[w] \notin {"unborn", "new"}
Settled(w) == w \in made \cup logged
==============================================================================
