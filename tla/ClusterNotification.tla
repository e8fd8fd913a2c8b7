------------------------- MODULE ClusterNotification -------------------------
(***************************************************************************)
(* How a decision of the controller reaches the clients: NotifyClusterState*)
(* and SubjectObserverI::notifyall, update and NotifyTask on the side of   *)
(* the controller, SbjTopicI and ClusterStateSubscriber on the side of a   *)
(* client.  Decisions are numbered in the order they come into force.      *)
(***************************************************************************)
EXTENDS SubjectObserver

CONSTANTS
  Run,         \* the controller's thread, one of Callers
  Clients,     \* ClusterStateSubscribers
  Pool,        \* threads the executor runs NotifyTasks on
  MaxTasks,    \* bound: tasks in the executor
  MaxDecision, \* bound: decisions
  Faults       \* what may go wrong: "fail", "late", "restart"

NotificationAssumption ==
  Run \in Callers /\ Pool \in Nat \ {0} /\ MaxTasks \in Nat /\ MaxDecision \in Nat

VARIABLES
  decision,     \* the decision in force
  carried,      \* the decision a call of NotifyClusterState has copied
  awake,        \* the controller's thread has slept its second
  tasks,        \* the NotifyTasks in the executor, oldest first
  newest,       \* history: the newest decision a task has been made of
  late,         \* calls of opera that timed out and have not arrived yet
  boot,         \* how far init is in the client
  answer,       \* what GetServerState has returned to it
  clusterState, \* the client's _clusterState
  told          \* history: the decision the last notification brought it

controllerVars == <<decision, carried, awake>>
clientVars == <<boot, answer, clusterState, told>>
taskVars == <<tasks, newest>>
vars == <<observerVars, controllerVars, taskVars, late, clientVars>>

Decisions == 0 .. MaxDecision

Init ==
  /\ ObserverInit
  /\ decision = 0 /\ carried = [c \in Callers |-> None] /\ awake = TRUE
  /\ tasks = <<>> /\ newest = 0 /\ late = {}
  /\ boot = [s \in Clients |-> "new"] /\ answer = [s \in Clients |-> None]
  /\ clusterState = [s \in Clients |-> 0] /\ told = [s \in Clients |-> 0]

-----------------------------------------------------------------------------
(***************************************************************************)
(* The controller.                                                         *)
(***************************************************************************)

(* FetchServerState, in the controller's thread or for an outside caller.  *)
Publish(c) ==
  /\ carried[c] = None /\ decision < MaxDecision
  /\ decision' = decision + 1
  /\ UNCHANGED <<observerVars, carried, awake, taskVars, late, clientVars>>

(* NotifyClusterState copies the decision, in the controller's thread after*)
(* its sleep or for an outside caller.                                     *)
NotifyClient(c) ==
  /\ carried[c] = None /\ (c = Run => awake)
  /\ carried' = [carried EXCEPT ![c] = decision]
  /\ awake' = (awake /\ c # Run)
  /\ UNCHANGED <<observerVars, decision, taskVars, late, clientVars>>

(* notifyall: without a topic, that is before the first subscription,      *)
(* nothing is sent.                                                        *)
notifyall(c) ==
  /\ carried[c] # None /\ stamp[c] = None
  /\ IF topic = None
     THEN carried' = [carried EXCEPT ![c] = None] /\ UNCHANGED observerVars
     ELSE StampTopic(c) /\ UNCHANGED carried
  /\ UNCHANGED <<decision, awake, taskVars, late, clientVars>>

(* on says of a task that a thread of the executor is running it.          *)
Running(ts) == {i \in DOMAIN ts : ts[i].on}
FreeThread == Cardinality(Running(tasks)) < Pool

(* beside, history: the newest decision that a task has been run side by   *)
(* side with, or that had overtaken it before it was run.                  *)
NotOlder(ts, state) == [i \in DOMAIN ts |-> [ts[i] EXCEPT !.beside = Max({@, state})]]
Beside(ts) ==
  [i \in DOMAIN ts |->
    IF i \in Running(ts)
    THEN [ts[i] EXCEPT !.beside = Max({@} \cup {ts[j].state : j \in Running(ts)})] ELSE ts[i]]

(* Fault: the task is made of a state that has been swapped away.          *)
NewTaskOfNothing(c) == [state |-> None, left |-> subscribers, on |-> FALSE, beside |-> newest]

NewTask(c) == [state |-> carried[c], left |-> subscribers, on |-> FALSE, beside |-> newest]

(* execute: the task is queued, or a new thread starts with it, whatever   *)
(* is in the queue.                                                        *)
Queued(task) == Append(tasks, task)
StartedAtOnce(task) == Beside(Append(NotOlder(tasks, task.state), [task EXCEPT !.on = TRUE]))

(* update: the topic is stored in any case; the subscribers are told only  *)
(* if its time is newer.                                                   *)
update(c) ==
  /\ stamp[c] # None
  /\ IF Newer(c)
     THEN /\ Len(tasks) < MaxTasks
          /\ \/ tasks' = Queued(NewTask(c))
             \/ FreeThread /\ tasks' = StartedAtOnce(NewTask(c))
          /\ newest' = Max({newest, carried[c]})
     ELSE UNCHANGED taskVars
  /\ StoreTopic(c)
  /\ carried' = [carried EXCEPT ![c] = None]
  /\ UNCHANGED <<subscribers, decision, awake, late, clientVars>>

Waiting == {i \in DOMAIN tasks : ~tasks[i].on}

(* Fault: the task that was queued last is taken.                          *)
NewestWaiting == Max(Waiting)

OldestWaiting == Min(Waiting)

(* A thread of the executor takes the next task of the queue.              *)
getTask ==
  /\ Waiting # {} /\ FreeThread
  /\ tasks' = Beside([tasks EXCEPT ![OldestWaiting].on = TRUE])
  /\ UNCHANGED <<observerVars, controllerVars, newest, late, clientVars>>

(* Where a task goes on after it has called its next subscriber.           *)
Called(i) == IF Len(tasks[i].left) = 1 THEN RemoveAt(tasks, i)
             ELSE [tasks EXCEPT ![i].left = Tail(@)]

(* ClusterStateSubscriber::opera stores what comes.                        *)
opera(s, state) ==
  /\ clusterState' = [clusterState EXCEPT ![s] = state]
  /\ told' = [told EXCEPT ![s] = state]
  /\ UNCHANGED <<boot, answer>>

(* A pass of NotifyTask::handle in which opera returns.                    *)
handleReturns(i) ==
  /\ i \in Running(tasks) /\ tasks[i].left # <<>>
  /\ opera(Head(tasks[i].left), tasks[i].state)
  /\ tasks' = Called(i)
  /\ UNCHANGED <<observerVars, controllerVars, newest, late>>

(* One in which it throws: the call never arrived, or it timed out and     *)
(* arrives later.  The subscriber is unsubscribed.                         *)
handleThrows(i) ==
  /\ i \in Running(tasks) /\ tasks[i].left # <<>>
  /\ \/ "fail" \in Faults /\ UNCHANGED late
     \/ "late" \in Faults /\ late' = late \cup {<<Head(tasks[i].left), tasks[i].state>>}
  /\ subscribers' = doUnsubscribe({Head(tasks[i].left)})
  /\ tasks' = Called(i)
  /\ UNCHANGED <<topic, stamp, controllerVars, newest, clientVars>>

(* A task for a topic whose last subscriber was gone.                      *)
handleNobody(i) ==
  /\ i \in Running(tasks) /\ tasks[i].left = <<>>
  /\ tasks' = RemoveAt(tasks, i)
  /\ UNCHANGED <<observerVars, controllerVars, newest, late, clientVars>>

ArrivesLate(s, state) ==
  /\ <<s, state>> \in late
  /\ late' = late \ {<<s, state>>}
  /\ opera(s, state)
  /\ UNCHANGED <<observerVars, controllerVars, taskVars>>

(* The controller's process is killed and started again, with a decision   *)
(* without servers.                                                        *)
Restart ==
  /\ "restart" \in Faults /\ decision < MaxDecision
  /\ topic' = None /\ subscribers' = <<>> /\ stamp' = [c \in Callers |-> None]
  /\ decision' = decision + 1
  /\ carried' = [c \in Callers |-> None] /\ awake' = FALSE
  /\ tasks' = <<>> /\ newest' = 0
  /\ UNCHANGED <<late, clientVars>>

-----------------------------------------------------------------------------
(***************************************************************************)
(* A client.                                                               *)
(***************************************************************************)

(* A pass of SbjTopicI::run.                                               *)
Resubscribe(s) ==
  /\ s \notin ToSet(subscribers)
  /\ subscribe(s)
  /\ UNCHANGED <<controllerVars, taskVars, late, clientVars>>

(* getInitState asks the controller; if that fails nothing is stored.      *)
GetServerState(s) ==
  /\ boot[s] = "new"
  /\ \/ answer' = [answer EXCEPT ![s] = decision] /\ boot' = [boot EXCEPT ![s] = "asked"]
     \/ "fail" \in Faults /\ boot' = [boot EXCEPT ![s] = "up"] /\ UNCHANGED answer
  /\ UNCHANGED <<observerVars, controllerVars, taskVars, late, clusterState, told>>

(* The assignment in getInitState, which does not take the mutex.          *)
getInitState(s) ==
  /\ boot[s] = "asked"
  /\ clusterState' = [clusterState EXCEPT ![s] = answer[s]]
  /\ boot' = [boot EXCEPT ![s] = "up"] /\ answer' = [answer EXCEPT ![s] = None]
  /\ UNCHANGED <<observerVars, controllerVars, taskVars, late, told>>

(* A second passes; the controller's thread has then slept.                *)
Tick ==
  /\ ObserverTick
  /\ awake' = (awake \/ carried[Run] = None)
  /\ UNCHANGED <<decision, carried, taskVars, late, clientVars>>

CallerStep(c) == notifyall(c) \/ update(c)
TaskStep(i) == handleReturns(i) \/ handleThrows(i) \/ handleNobody(i)
ClientStep(s) == GetServerState(s) \/ getInitState(s) \/ Resubscribe(s)

(* A call of opera that the client answers.                                *)
Answers(s) ==
  \E i \in Running(tasks) : tasks[i].left # <<>> /\ Head(tasks[i].left) = s /\ handleReturns(i)

Next ==
  \/ \E c \in Callers : Publish(c) \/ NotifyClient(c) \/ CallerStep(c)
  \/ getTask \/ \E i \in Running(tasks) : TaskStep(i)
  \/ \E s \in Clients : ClientStep(s)
  \/ \E s \in Clients, d \in Decisions : ArrivesLate(s, d)
  \/ Tick
  \/ Restart

Spec == Init /\ [][Next]_vars

-----------------------------------------------------------------------------
TypeOK ==
  /\ topic \in 0 .. MaxAge \cup {None} /\ stamp \in [Callers -> 0 .. (MaxAge - 1) \cup {None}]
  /\ subscribers \in Seq(Clients)
  /\ decision \in Decisions /\ carried \in [Callers -> Decisions \cup {None}] /\ awake \in BOOLEAN
  /\ \A c \in Callers : stamp[c] # None => carried[c] # None
  /\ \A i \in DOMAIN tasks : /\ tasks[i].state \in Decisions /\ tasks[i].left \in Seq(Clients)
                             /\ tasks[i].on \in BOOLEAN /\ tasks[i].beside \in Decisions
  /\ Cardinality(Running(tasks)) <= Pool
  /\ newest \in Decisions
  /\ late \subseteq Clients \X Decisions
  /\ boot \in [Clients -> {"new", "asked", "up"}] /\ answer \in [Clients -> Decisions \cup {None}]
  /\ clusterState \in [Clients -> Decisions] /\ told \in [Clients -> Decisions]

(* A step tells s by a call that had timed out.                            *)
TellsLate(s) == <<s, told'[s]>> \in late \ late'

(* A step tells s by a task that was run side by side with one of the      *)
(* decision s knows of or a newer one, or was in the queue when a new      *)
(* thread was started with such a task, or was made after such a task by a *)
(* caller who had copied its decision before.                              *)
TellsBeside(s) ==
  \E i \in Running(tasks) :
    /\ tasks[i].left # <<>> /\ Head(tasks[i].left) = s
    /\ tasks[i].state = told'[s] /\ told[s] <= tasks[i].beside

(* A client is taken back to an older decision only in these two ways.     *)
OlderOnlyWhenOvertaken ==
  \A s \in Clients : told'[s] < told[s] => TellsLate(s) \/ TellsBeside(s)

HoldsDecision(s) == clusterState[s] = decision
==============================================================================
