----------------------------- MODULE TaskManager -----------------------------
(***************************************************************************)
(* TaskManager and ThreadPoolScheduler (UtilCxx/src): a table that gives   *)
(* every level its executor, one that gives every channel its timer, both  *)
(* filled on demand.  A runner is an executor or a timer: it holds what is *)
(* given to it and runs it, but for a task that ThreadPoolExecutor leaves  *)
(* in its queue when its last thread retires at that moment: it is         *)
(* stranded until the executor is given another.  A runner lives on when   *)
(* it is in no table: its threads have handles of it.                      *)
(***************************************************************************)
EXTENDS Integers, FiniteSets, SequencesExt

CONSTANTS
  Threads,   \* threads that call the manager
  Levels,    \* levels of tasks
  Normal,    \* TASK_LEVEL_NORMAL
  Channels,  \* channels of timers
  Tasks, Timers, Repeated,  \* tasks, timers and timers that repeat
  Runners,   \* identities of executors and timers
  Configs,   \* pairs of sizes given to ThreadPoolConfig
  Default,   \* the sizes of new executors at first, 5 and 100 unless configured before
  None

Keys == Levels \cup Channels
Jobs == Tasks \cup Timers \cup Repeated
Sizes == [core : Nat, max : Nat]

ManagerAssumption ==
  /\ Normal \in Levels /\ Levels \cap Channels = {} /\ Tasks \cap (Timers \cup Repeated) = {}
  /\ Default[1] \in Nat \ {0} /\ Default[2] \in Nat
  /\ Configs \subseteq Nat \X Nat /\ \A c \in Configs : c[2] > 0
  /\ Cardinality(Runners) >= Cardinality(Threads) * Cardinality(Keys)

VARIABLES
  config,  \* _config, the sizes of new executors
  table,   \* _executors and _timers
  runner,  \* the executors and timers there are
  fate,    \* what has become of a task or timer
  pc,      \* where a thread is
  call,    \* the operation it is in
  handle,  \* the runner it has located
  raced,   \* history: keys that two threads have missed before either stored
  mixed    \* history: runners that two threads have configured at once

vars == <<config, table, runner, fate, pc, call, handle, raced, mixed>>

(* Fault: a maximum below the core size is taken as it is.                 *)
ThreadPoolConfigAsGiven(c) == [core |-> IF c[1] > 0 THEN c[1] ELSE 1, max |-> c[2]]

(* The constructor of ThreadPoolConfig corrects what it is given.          *)
ThreadPoolConfig(c) ==
  [core |-> IF c[1] > 0 THEN c[1] ELSE 1, max |-> IF c[2] < c[1] THEN c[1] * 2 ELSE c[2]]

Init ==
  /\ config = [core |-> Default[1], max |-> Default[2]]
  /\ table = [k \in Keys |-> None] /\ runner = [e \in Runners |-> None]
  /\ fate = [j \in Jobs |-> "new"]
  /\ pc = [t \in Threads |-> "idle"] /\ call = [t \in Threads |-> None]
  /\ handle = [t \in Threads |-> None]
  /\ raced = [k \in Keys |-> FALSE] /\ mixed = [e \in Runners |-> FALSE]

Goto(t, label) == pc' = [pc EXCEPT ![t] = label]
Done(t) == /\ Goto(t, "idle") /\ call' = [call EXCEPT ![t] = None]
           /\ handle' = [handle EXCEPT ![t] = None]

-----------------------------------------------------------------------------
Begin(t, op) ==
  /\ pc[t] = "idle"
  /\ call' = [call EXCEPT ![t] = op] /\ Goto(t, "find")
  /\ UNCHANGED <<config, table, runner, handle, raced, mixed>>

execute(t, j, k) == /\ fate[j] = "new" /\ fate' = [fate EXCEPT ![j] = "given"]
                    /\ Begin(t, [op |-> "execute", key |-> k, job |-> j])

schedule(t, j, k) == /\ fate[j] = "new" /\ fate' = [fate EXCEPT ![j] = "given"]
                     /\ Begin(t, [op |-> "schedule", key |-> k, job |-> j])

configLevel(t, k, c) == /\ Begin(t, [op |-> "config", key |-> k, sizes |-> ThreadPoolConfig(c)])
                        /\ UNCHANGED fate

clear(t, k) == Begin(t, [op |-> "clear", key |-> k]) /\ UNCHANGED fate

configDefault(c) ==
  /\ config' = ThreadPoolConfig(c)
  /\ UNCHANGED <<table, runner, fate, pc, call, handle, raced, mixed>>

(* Fault: the table is never looked in.                                    *)
FoundNothing(k) == None

Found(k) == table[k]

(* The lookup under the read lock, of locateExecutor, findExecutor and of  *)
(* ThreadPoolScheduler.  clear gives up if there is nothing.               *)
find(t) ==
  LET k == call[t].key IN
  /\ pc[t] = "find"
  /\ IF Found(k) # None
     THEN /\ handle' = [handle EXCEPT ![t] = Found(k)] /\ Goto(t, "use")
          /\ UNCHANGED <<call, raced>>
     ELSE IF call[t].op = "clear" THEN Done(t) /\ UNCHANGED raced
     ELSE /\ raced' = [raced EXCEPT ![k] = @ \/ \E u \in Threads : pc[u] = "create" /\ call[u].key = k]
          /\ Goto(t, "create") /\ UNCHANGED <<call, handle>>
  /\ UNCHANGED <<config, table, runner, fate, mixed>>

(* A new timer is given its first task before it is in the table.          *)
FirstJobs(t) == IF call[t].op = "schedule" THEN {call[t].job} ELSE {}

(* The executor's constructor does not take a maximum below the core size. *)
NewSizes == [config EXCEPT !.max = IF @ < config.core THEN config.core * 50 ELSE @]

(* The other branch: a new runner is stored, whatever is there by now.     *)
create(t) ==
  /\ pc[t] = "create"
  /\ \E e \in {x \in Runners : runner[x] = None} :
       /\ runner' = [runner EXCEPT ![e] =
            [key |-> call[t].key, core |-> NewSizes.core, max |-> NewSizes.max, given |-> <<>>,
             jobs |-> FirstJobs(t)]]
       /\ table' = [table EXCEPT ![call[t].key] = e]
       /\ IF call[t].op = "schedule"
          THEN Done(t) /\ fate' = [fate EXCEPT ![call[t].job] = "waiting"]
          ELSE /\ handle' = [handle EXCEPT ![t] = e] /\ Goto(t, "use")
               /\ UNCHANGED <<call, fate>>
  /\ UNCHANGED <<config, raced, mixed>>

Stranded(e) == {j \in runner[e].jobs : fate[j] = "stranded"}

(* An executor queues a task when it has as many threads as its core size  *)
(* and strands it if they leave before they see it, and with it tasks of   *)
(* calls that overlap.  Any other task brings a thread that takes all of   *)
(* them.  (Of calls one after the other only the first can strand its task:*)
(* StrandedTaskRescued of ThreadPoolExecutor.)                             *)
MayStrand(t) == call[t].op = "execute" /\ Len(runner[handle[t]].given) >= runner[handle[t]].core

(* Fault: a new task leaves those that are stranded where they are.        *)
RescuedNone(e) == {}

Rescued(e) == Stranded(e)

(* execute or schedule of the runner.                                      *)
give(t) ==
  LET e == handle[t] IN
  /\ pc[t] = "use" /\ call[t].op \in {"execute", "schedule"}
  /\ runner' = [runner EXCEPT ![e].jobs = @ \cup {call[t].job}, ![e].given = Append(@, call[t].job)]
  /\ \/ fate' = [j \in Jobs |-> IF j \in Rescued(e) \cup {call[t].job} THEN "waiting" ELSE fate[j]]
     \/ MayStrand(t) /\ fate' = [fate EXCEPT ![call[t].job] = "stranded"]
  /\ Done(t)
  /\ UNCHANGED <<config, table, raced, mixed>>

QueueEmptied(jobs, queued) == jobs \ queued

(* What is in the queue is cancelled; a task that a new thread is to start *)
(* with is not there.                                                      *)
cancelAllTasks(t) ==
  /\ pc[t] = "use" /\ call[t].op = "clear"
  /\ \E queued \in SUBSET {j \in runner[handle[t]].jobs :
                             fate[j] \in {"waiting", "stranded"}} :
       /\ Stranded(handle[t]) \subseteq queued
       /\ runner' = [runner EXCEPT ![handle[t]].jobs = QueueEmptied(@, queued)]
       /\ fate' = [j \in Jobs |-> IF j \in queued THEN "cancelled" ELSE fate[j]]
  /\ Done(t)
  /\ UNCHANGED <<config, table, raced, mixed>>

(* config of a level: setCorePoolSize, then setMaximumPoolSize, whose test *)
(* is outside the executor's lock.                                         *)
Configuring(t) == pc[t] \in {"max", "setMax"}

setCorePoolSize(t) ==
  /\ pc[t] = "use" /\ call[t].op = "config"
  /\ runner' = [runner EXCEPT ![handle[t]].core = call[t].sizes.core]
  /\ mixed' = [mixed EXCEPT ![handle[t]] =
                 @ \/ \E u \in Threads : Configuring(u) /\ handle[u] = handle[t]]
  /\ Goto(t, "max")
  /\ UNCHANGED <<config, table, fate, call, handle, raced>>

testMaximum(t) ==
  /\ pc[t] = "max"
  /\ IF call[t].sizes.max < runner[handle[t]].core
     THEN Done(t) ELSE Goto(t, "setMax") /\ UNCHANGED <<call, handle>>
  /\ UNCHANGED <<config, table, runner, fate, raced, mixed>>

setMaximumPoolSize(t) ==
  /\ pc[t] = "setMax"
  /\ runner' = [runner EXCEPT ![handle[t]].max = call[t].sizes.max]
  /\ Done(t)
  /\ UNCHANGED <<config, table, fate, raced, mixed>>

-----------------------------------------------------------------------------
(* A runner runs what it has; a timer that repeats then waits again.       *)
start(e, j) ==
  /\ runner[e] # None /\ j \in runner[e].jobs /\ fate[j] = "waiting"
  /\ fate' = [fate EXCEPT ![j] = "running"]
  /\ UNCHANGED <<config, table, runner, pc, call, handle, raced, mixed>>

finish(e, j) ==
  /\ runner[e] # None /\ j \in runner[e].jobs /\ fate[j] = "running"
  /\ fate' = [fate EXCEPT ![j] = IF j \in Repeated THEN "waiting" ELSE "done"]
  /\ runner' = [runner EXCEPT ![e].jobs = IF j \in Repeated THEN @ ELSE @ \ {j}]
  /\ UNCHANGED <<config, table, pc, call, handle, raced, mixed>>

ThreadStep(t) == \/ find(t) \/ create(t) \/ give(t) \/ cancelAllTasks(t)
                 \/ setCorePoolSize(t) \/ testMaximum(t) \/ setMaximumPoolSize(t)
RunnerStep(e, j) == start(e, j) \/ finish(e, j)

Next ==
  \/ \E t \in Threads :
       \/ \E j \in Tasks, k \in Levels : execute(t, j, k)
       \/ \E j \in Timers \cup Repeated, k \in Channels : schedule(t, j, k)
       \/ \E k \in Levels : clear(t, k) \/ \E c \in Configs : configLevel(t, k, c)
       \/ ThreadStep(t)
  \/ \E c \in Configs : configDefault(c)
  \/ \E e \in Runners, j \in Jobs : RunnerStep(e, j)

Spec == Init /\ [][Next]_vars

-----------------------------------------------------------------------------
TypeOK ==
  /\ config \in Sizes /\ table \in [Keys -> Runners \cup {None}]
  /\ \A e \in Runners : runner[e] # None =>
       /\ runner[e].key \in Keys /\ runner[e].core \in Nat /\ runner[e].max \in Nat
       /\ runner[e].given \in Seq(Jobs)
       /\ \A j \in runner[e].jobs : fate[j] \in {"waiting", "stranded", "running"}
  /\ fate \in [Jobs -> {"new", "given", "waiting", "stranded", "running", "done", "cancelled"}]
  /\ pc \in [Threads -> {"idle", "find", "create", "use", "max", "setMax"}]
  /\ \A t \in Threads : pc[t] = "idle" <=> call[t] = None
  /\ handle \in [Threads -> Runners \cup {None}]
  /\ raced \in [Keys -> BOOLEAN] /\ mixed \in [Runners -> BOOLEAN]

(* A level or channel has one runner, the one in the table, unless two     *)
(* threads missed it before either of them stored one: only then are tasks *)
(* out of reach of size, clear and config of their level.                  *)
SplitOnlyByRace ==
  \A e \in Runners : runner[e] # None /\ table[runner[e].key] # e => raced[runner[e].key]

(* Between calls of config an executor's core size is within its maximum,  *)
(* unless two threads configured it at the same time: setMaximumPoolSize   *)
(* ignores a maximum below the core size, setCorePoolSize tests nothing.   *)
CoreWithinMax ==
  \A e \in Runners : runner[e] # None /\ ~mixed[e]
      /\ (\A t \in Threads : ~(Configuring(t) /\ handle[t] = e))
    => runner[e].core <= runner[e].max

(* What has become of a task or timer that a thread has handed over.       *)
Given(j) == fate[j] = "given"
RunOrCancelled(j) == fate[j] \in {"running", "cancelled"}

(* j is stranded, and so is every task its executor has been given since:  *)
(* there is none if the executor has been pushed out of the table.         *)
StrandedLast(j) ==
  fate[j] = "stranded" /\ \E e \in Runners :
    /\ runner[e] # None
    /\ \E n \in DOMAIN runner[e].given :
         /\ runner[e].given[n] = j
         /\ \A i \in n .. Len(runner[e].given) : fate[runner[e].given[i]] = "stranded"
==============================================================================
