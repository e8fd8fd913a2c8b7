----------------------------- MODULE AsyncRunner -----------------------------
(***************************************************************************)
(* AsyncRunner of base/asyncall.h: functions posted to one io_service, at  *)
(* once, after a delay, a number of times or "for sure", and the threads   *)
(* that run them.  The io_service is external: it runs what is pending on  *)
(* the threads in its run(), each of which returns when the service is     *)
(* stopped.  A delay is the time between posting and running; a function   *)
(* may throw only under SurePost, where it is caught (elsewhere an         *)
(* exception ends the process).                                            *)
(***************************************************************************)
EXTENDS Naturals, FiniteSets

CONSTANTS
  Jobs,             \* the calls of Post and SurePost
  Counts,           \* counts a caller may ask for; 0 is for ever
  Retry,            \* retry of SurePost
  ThreadSize,       \* thread_size_ at the beginning
  max_thread_size,  \* max_thread_size_
  MaxStops          \* bound: how often the service is stopped

RunnerAssumption ==
  /\ IsFiniteSet(Jobs) /\ Counts \subseteq Nat /\ Retry \in Nat \ {0}
  /\ ThreadSize \in Nat \ {0} /\ max_thread_size \in Nat /\ MaxStops \in Nat

VARIABLES
  kind, count, called,  \* of each job: how it was posted, count_, and how often it has run
  state,                \* of each job: "new", "pending", "running", "done" or "failed"
  busy, task,           \* busy_, task_
  thread_size, group,   \* thread_size_, g_.size()
  live,                 \* threads in io_service::run
  stop, stopped,        \* stop_, and whether the io_service is stopped
  main, check,          \* where Start and Stop are, and the thread in Check
  stops, straggler      \* calls of Stop; whether Check has inflated after stop_ was set

jobVars == <<kind, count, called, state, busy, task>>
runVars == <<thread_size, group, live, stop, stopped, main, check, stops, straggler>>
vars == <<jobVars, runVars>>

Running == {j \in Jobs : state[j] = "running"}

Init ==
  /\ kind = [j \in Jobs |-> "none"] /\ count = [j \in Jobs |-> 0] /\ called = [j \in Jobs |-> 0]
  /\ state = [j \in Jobs |-> "new"] /\ busy = 0 /\ task = 0
  /\ thread_size = ThreadSize /\ group = 0 /\ live = 0
  /\ stop = FALSE /\ stopped = FALSE /\ main = "down" /\ check = "none"
  /\ stops = 0 /\ straggler = FALSE

-----------------------------------------------------------------------------
(* Post and SurePost.                                                      *)

(* Post(func), Post(func, interval), Post(func, interval, count) and       *)
(* SurePost count the task for the first and the last of them only.        *)
Counted(k) == k \in {"now", "sure"}

PostJob(j, k, n) ==
  /\ state[j] = "new"
  /\ kind' = [kind EXCEPT ![j] = k] /\ count' = [count EXCEPT ![j] = n]
  /\ state' = [state EXCEPT ![j] = "pending"]
  /\ task' = IF Counted(k) THEN task + 1 ELSE task
  /\ UNCHANGED <<called, busy, runVars>>

Post(j) ==
  \/ \E k \in {"now", "delay", "sure"} : PostJob(j, k, 1)
  \/ \E n \in Counts : PostJob(j, "count", n)

FreeThread == Cardinality(Running) < live

(* A thread of the service takes the job.  WrappedCall alone counts itself *)
(* busy; the calls of a job without end are not counted.                   *)
Begin(j) ==
  /\ state[j] = "pending" /\ ~stopped /\ FreeThread
  /\ state' = [state EXCEPT ![j] = "running"]
  /\ busy' = IF kind[j] = "now" THEN busy + 1 ELSE busy
  /\ called' = IF count[j] = 0 THEN called ELSE [called EXCEPT ![j] = @ + 1]
  /\ UNCHANGED <<kind, count, task, runVars>>

(* Fault: the copy that is posted again has not counted the call.          *)
AgainUncounted(j) == count[j] = 0 \/ count[j] + 1 - called[j] # 0

(* 0 == count_ || left()                                                   *)
Again(j) == count[j] = 0 \/ count[j] - called[j] # 0

(* Fault: a task that fails is not taken off the count.                    *)
TaskDecOnSuccess(j, ok) == IF Counted(kind[j]) /\ ok THEN task - 1 ELSE task

TaskDec(j, ok) == IF Counted(kind[j]) THEN task - 1 ELSE task

(* The function has returned, or thrown under SurePost.  WrappedDelayCall  *)
(* ignores what WrappedSureCall returns.                                   *)
Return(j, ok) ==
  /\ state[j] = "running" /\ (~ok => kind[j] = "sure")
  /\ busy' = IF kind[j] = "now" THEN busy - 1 ELSE busy
  /\ task' = TaskDec(j, ok)
  /\ state' = [state EXCEPT ![j] = IF ~ok THEN "failed"
                                   ELSE IF kind[j] = "count" /\ Again(j) THEN "pending"
                                   ELSE "done"]
  /\ UNCHANGED <<kind, count, called, runVars>>

-----------------------------------------------------------------------------
(* The threads.                                                            *)

(* Fault: a service that was stopped is not reset.                         *)
StillStopped == stopped

(* GetService().reset()                                                    *)
ServiceReset == FALSE

(* xce::Start: work_ is set before, so that run() does not return for want *)
(* of work.                                                                *)
Start ==
  /\ main = "down" /\ stops <= MaxStops
  /\ stop' = FALSE /\ stopped' = ServiceReset /\ main' = "up" /\ check' = "waiting"
  /\ group' = group + thread_size /\ live' = live + thread_size
  /\ UNCHANGED <<jobVars, thread_size, stops, straggler>>

(* Fault: Check is not told.                                               *)
CheckNotTold == stop

CheckTold == TRUE

Stop ==
  /\ main = "up"
  /\ stop' = CheckTold /\ stopped' = TRUE /\ main' = "joinAll" /\ stops' = stops + 1
  /\ UNCHANGED <<jobVars, thread_size, group, live, check, straggler>>

(* run() returns.                                                          *)
ThreadLeaves ==
  /\ stopped /\ live > Cardinality(Running)
  /\ live' = live - 1
  /\ UNCHANGED <<jobVars, thread_size, group, stop, stopped, main, check, stops, straggler>>

(* g_.join_all() and then check_thread_->join().                           *)
Joined ==
  /\ \/ main = "joinAll" /\ live = 0 /\ main' = "joinCheck" /\ UNCHANGED check
     \/ main = "joinCheck" /\ check = "left" /\ main' = "down" /\ check' = "none"
  /\ UNCHANGED <<jobVars, thread_size, group, live, stop, stopped, stops, straggler>>

(* set_thread_size: g_ never shrinks, and counts the threads that have     *)
(* left.                                                                   *)
SetThreadSize(c) ==
  IF c <= group THEN UNCHANGED <<thread_size, group, live>>
  ELSE live' = live + (c - group) /\ group' = c /\ thread_size' = c

(* Fault: the maximum itself is room for one thread more.                  *)
RoomAtMax == busy + 2 > thread_size /\ thread_size <= max_thread_size

MustInflate == busy + 2 > thread_size /\ thread_size < max_thread_size

(* Check, one second later.  join_all keeps the thread that it adds        *)
(* outside until it is through.                                            *)
Check ==
  /\ check = "waiting"
  /\ main # "joinAll" \/ ~MustInflate
  /\ IF MustInflate THEN SetThreadSize(thread_size + 1) ELSE UNCHANGED <<thread_size, group, live>>
  /\ check' = IF stop THEN "left" ELSE "waiting"
  /\ straggler' = (straggler \/ (stop /\ live' > live))
  /\ UNCHANGED <<jobVars, stop, stopped, main, stops>>

Next ==
  \/ \E j \in Jobs : Post(j) \/ Begin(j) \/ \E ok \in BOOLEAN : Return(j, ok)
  \/ Start \/ Stop \/ ThreadLeaves \/ Joined \/ Check

Spec == Init /\ [][Next]_vars

-----------------------------------------------------------------------------
TypeOK ==
  /\ kind \in [Jobs -> {"none", "now", "delay", "count", "sure"}]
  /\ state \in [Jobs -> {"new", "pending", "running", "done", "failed"}]
  /\ count \in [Jobs -> Counts \cup {0, 1}] /\ called \in [Jobs -> Nat]
  /\ live \in Nat /\ Cardinality(Running) <= live

(* task_ counts the plain and the sure posts that are not through, even    *)
(* when they throw or the service is stopped under them; a counter read as *)
(* unsigned, it is never below zero.                                       *)
TaskCountExact ==
  task = Cardinality({j \in Jobs : Counted(kind[j]) /\ state[j] \in {"pending", "running"}})

(* A function posted n times runs n times: no call is lost or made twice   *)
(* over the copies of the wrapper, whatever runs between them and however  *)
(* often the service is stopped.                                           *)
RunsCountTimes ==
  \A j \in Jobs : kind[j] = "count" /\ count[j] # 0 =>
    called[j] <= count[j] /\ (state[j] = "done" => called[j] = count[j])

(* The threads stay within max_thread_size_, but for one that Check adds   *)
(* when Stop has already joined the others and that lives on into the next *)
(* Start.                                                                  *)
LiveWithinMax ==
  ThreadSize <= max_thread_size =>
    live <= IF straggler THEN max_thread_size + 1 ELSE max_thread_size

MainAt(place) == main = place
Pending(j) == state[j] = "pending"
RunAsOftenAsAsked(j) ==
  kind[j] # "sure" /\ (state[j] = "done" \/ (state[j] = "running" /\ count[j] = 0))

(* What becomes of a SurePost: it is run once, and that is all, whether it *)
(* succeeds or not.                                                        *)
SureRunOnce(j) == kind[j] = "sure" /\ state[j] \in {"done", "failed"} /\ called[j] = 1

(* "On failure retry n times" (asyncall.h:127): a SurePost is given up     *)
(* only when it has failed as often as that.                               *)
SureRetries == \A j \in Jobs : kind[j] = "sure" /\ state[j] = "failed" => called[j] >= Retry
==============================================================================
