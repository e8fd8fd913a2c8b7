-------------------------- MODULE ClusterController --------------------------
(***************************************************************************)
(* The controller of a replicated service and the servers it watches:      *)
(* ControllerManagerI (ReplicaCluster/ClusterController), the ServerState  *)
(* topic of its SubjectObserverI, and in every server a                    *)
(* ServerStateSubscriber with the SbjTopicI thread that keeps subscribing. *)
(*                                                                         *)
(* The controller's thread asks all subscribers for their state every      *)
(* IntervalFetch seconds, decides who serves which mod, and tells the      *)
(* clients when the decision has changed or IntervalNotify seconds have    *)
(* passed.  FetchServerState and NotifyClusterState are also operations of *)
(* its Ice interface, which other callers may use at any time; nothing     *)
(* locks _clusterState.  Copying and swapping a map is one step here: that *)
(* a race may also corrupt the map is not modelled.                        *)
(*                                                                         *)
(* A server is one incarnation: a restarted server has a new proxy (its    *)
(* object gets a new UUID) and is another member of Servers.               *)
(***************************************************************************)
EXTENDS ClusterDecision, SubjectObserver

CONSTANTS
  IntervalFetch, IntervalNotify, \* Fetch.Interval and Notify.Interval, in seconds
  Run,                           \* the controller's own thread, one of Callers
  Settable,                      \* the servers whose status is ever set
  Faults                         \* a subset of {"crash", "timeout", "restart"}

ASSUME ControllerAssumption ==
  /\ IntervalFetch \in Nat \ {0} /\ IntervalNotify \in Nat \ {0}
  /\ Run \in Callers
  /\ Settable \subseteq Servers
  /\ Faults \subseteq {"crash", "timeout", "restart"}
  /\ Infos = [status : {0, 1}, newset : BOOLEAN]

VARIABLES
  life,            \* of each server: not yet started, up, or gone
  status,          \* its _status: 0 until it has loaded its data
  newSet,          \* its _newSet
  clusterState,    \* _clusterState->states
  clusterStateOld, \* _clusterStateOld->states
  fatalStatus,     \* _fatalStatus
  sent,            \* what NotifyClient was last given by this process
  pc,              \* where each caller is in FetchServerState or in run
  receives,        \* the reports its fetch returned
  tmpOld,          \* its local tmpOld
  tmpNew,          \* its local tmpNew
  nap,             \* seconds the controller's thread has still to sleep
  sinceFetch,      \* seconds since _lastFetch, up to IntervalFetch
  sinceNotify      \* seconds since _lastNotify, up to IntervalNotify

serverVars == <<life, status, newSet>>
decisionVars == <<clusterState, clusterStateOld, fatalStatus>>
callVars == <<pc, receives, tmpOld, tmpNew>>
timers == <<nap, sinceFetch, sinceNotify>>
vars == <<serverVars, observerVars, decisionVars, sent, callVars, timers>>

Empty == [m \in {} |-> <<>>]

(* The controller process when it has just started: nothing is persistent. *)
ControllerInit ==
  /\ ObserverInit
  /\ clusterState = Empty /\ clusterStateOld = Empty /\ fatalStatus = FALSE
  /\ sent = Empty
  /\ pc = [c \in Callers |-> "idle"]
  /\ receives = [c \in Callers |-> <<>>]
  /\ tmpOld = [c \in Callers |-> Empty]
  /\ tmpNew = [c \in Callers |-> Empty]
  /\ nap = IntervalFetch + 1 /\ sinceFetch = 0 /\ sinceNotify = 0

Init ==
  /\ life = [s \in Servers |-> "new"]
  /\ status = [s \in Servers |-> 0]
  /\ newSet = [s \in Servers |-> FALSE]
  /\ ControllerInit

-----------------------------------------------------------------------------
(***************************************************************************)
(* The servers.                                                            *)
(***************************************************************************)

initialize(s) ==
  /\ life[s] = "new"
  /\ life' = [life EXCEPT ![s] = "up"]
  /\ status' = [status EXCEPT ![s] = 0]
  /\ newSet' = [newSet EXCEPT ![s] = TRUE]
  /\ UNCHANGED <<observerVars, decisionVars, sent, callVars, timers>>

setStatus(s) ==
  /\ life[s] = "up" /\ s \in Settable
  /\ \E v \in {0, 1} : status' = [status EXCEPT ![s] = v]
  /\ UNCHANGED <<life, newSet, observerVars, decisionVars, sent, callVars, timers>>

(* SbjTopicI's thread subscribes every few seconds, whether or not the     *)
(* observer still knows the server.                                        *)
Resubscribe(s) ==
  /\ life[s] = "up"
  /\ subscribe(s)
  /\ UNCHANGED <<serverVars, decisionVars, sent, callVars, timers>>

Crash(s) ==
  /\ "crash" \in Faults
  /\ life[s] = "up"
  /\ life' = [life EXCEPT ![s] = "gone"]
  /\ UNCHANGED <<status, newSet, observerVars, decisionVars, sent, callVars, timers>>

(* What a server answers: opera clears _newSet, then reports it.           *)
opera(s) == [prx |-> s, info |-> [status |-> status[s], newset |-> newSet'[s]]]

-----------------------------------------------------------------------------
(***************************************************************************)
(* FetchServerState, called by the controller's thread or by others.       *)
(***************************************************************************)

Goto(c, there) == pc' = [pc EXCEPT ![c] = there]

(* fetch: without a topic there is nobody to ask.                          *)
BeginFetch(c) ==
  \/ /\ StampTopic(c)
     /\ Goto(c, "get")
     /\ UNCHANGED receives
  \/ /\ topic = None
     /\ receives' = [receives EXCEPT ![c] = <<>>]
     /\ Goto(c, "backup")
     /\ UNCHANGED observerVars

(***************************************************************************)
(* get, which holds the observer's lock throughout: every subscriber is    *)
(* called, those that fail are called again after the others, and those    *)
(* that fail twice are unsubscribed.  A server that is gone fails; one     *)
(* that hangs in opera (it logs to a disk) fails after its _newSet is      *)
(* cleared.                                                                *)
(***************************************************************************)
get(c) ==
  /\ pc[c] = "get"
  /\ StoreTopic(c)
  /\ LET asked == ToSet(subscribers)
         up    == {s \in asked : life[s] = "up"}
     IN IF Newer(c)
          THEN \E lost \in SUBSET asked : \E late \in SUBSET (up \ lost) :
                 /\ asked \ up \subseteq lost
                 /\ "timeout" \in Faults \/ (late = {} /\ lost \cap up = {})
                 /\ newSet' = [s \in Servers |-> newSet[s] /\ s \notin up]
                 /\ LET first  == Only(subscribers, asked \ (lost \cup late))
                        second == Only(subscribers, late)
                        order  == first \o second
                    IN receives' = [receives EXCEPT ![c] =
                                      [i \in DOMAIN order |-> opera(order[i])]]
                 /\ subscribers' = doUnsubscribe(lost)
          ELSE /\ receives' = [receives EXCEPT ![c] = <<>>]
               /\ UNCHANGED <<subscribers, newSet>>
  /\ Goto(c, "backup")
  /\ UNCHANGED <<life, status, decisionVars, sent, tmpOld, tmpNew, timers>>

(* The present decision becomes the old one, and the swap leaves in tmpOld *)
(* the one that was old until now.                                         *)
BackupOld(c) ==
  /\ pc[c] = "backup"
  /\ clusterStateOld' = clusterState
  /\ tmpOld' = [tmpOld EXCEPT ![c] = clusterStateOld]
  /\ Goto(c, "judge")
  /\ UNCHANGED <<serverVars, observerVars, clusterState, fatalStatus, sent,
                 receives, tmpNew, timers>>

(* Fault: the decision that is about to be replaced is judged.             *)
JudgePresent(c) ==
  /\ pc[c] = "judge"
  /\ tmpNew' = [tmpNew EXCEPT ![c] = Decide(receives[c], tmpOld[c])]
  /\ fatalStatus' = IF Cluster > 0 THEN DOMAIN clusterState # Mods ELSE fatalStatus
  /\ Goto(c, "publish")
  /\ UNCHANGED <<serverVars, observerVars, clusterState, clusterStateOld, sent,
                 receives, tmpOld, timers>>

JudgeCluster(c) ==
  /\ pc[c] = "judge"
  /\ tmpNew' = [tmpNew EXCEPT ![c] = Decide(receives[c], tmpOld[c])]
  /\ fatalStatus' = IF Cluster > 0 THEN DOMAIN tmpNew'[c] # Mods ELSE fatalStatus
  /\ Goto(c, "publish")
  /\ UNCHANGED <<serverVars, observerVars, clusterState, clusterStateOld, sent,
                 receives, tmpOld, timers>>

(* Fault: an empty answer is taken for a failed fetch.                     *)
PublishUnlessEmpty(c) ==
  /\ pc[c] = "publish"
  /\ clusterState' = IF receives[c] = <<>> THEN clusterState ELSE tmpNew[c]
  /\ Goto(c, IF c = Run THEN "fetched" ELSE "idle")
  /\ receives' = [receives EXCEPT ![c] = <<>>]
  /\ tmpOld' = [tmpOld EXCEPT ![c] = Empty]
  /\ tmpNew' = [tmpNew EXCEPT ![c] = Empty]
  /\ UNCHANGED <<serverVars, observerVars, clusterStateOld, fatalStatus, sent, timers>>

(* The swap at the end; the locals are gone with the call.                 *)
Publish(c) ==
  /\ pc[c] = "publish"
  /\ clusterState' = tmpNew[c]
  /\ Goto(c, IF c = Run THEN "fetched" ELSE "idle")
  /\ receives' = [receives EXCEPT ![c] = <<>>]
  /\ tmpOld' = [tmpOld EXCEPT ![c] = Empty]
  /\ tmpNew' = [tmpNew EXCEPT ![c] = Empty]
  /\ UNCHANGED <<serverVars, observerVars, clusterStateOld, fatalStatus, sent, timers>>

-----------------------------------------------------------------------------
(***************************************************************************)
(* The controller's thread.                                                *)
(***************************************************************************)

(* Fault: a server that is found again is taken to be unchanged.           *)
ClusterChangedServers ==
  \/ Cardinality(DOMAIN clusterState) # Cardinality(DOMAIN clusterStateOld)
  \/ \E m \in DOMAIN clusterState :
       \/ m \notin DOMAIN clusterStateOld
       \/ Len(clusterState[m]) # Len(clusterStateOld[m])
       \/ \E r \in ToSet(clusterState[m]) :
            \A o \in ToSet(clusterStateOld[m]) : o.prx # r.prx

(* Whether some mod is new, has more or fewer servers, or has a server it  *)
(* did not have or that has changed its status or newset.                  *)
ClusterChanged ==
  \/ Cardinality(DOMAIN clusterState) # Cardinality(DOMAIN clusterStateOld)
  \/ \E m \in DOMAIN clusterState :
       \/ m \notin DOMAIN clusterStateOld
       \/ Len(clusterState[m]) # Len(clusterStateOld[m])
       \/ ~(ToSet(clusterState[m]) \subseteq ToSet(clusterStateOld[m]))

FetchDue == sinceFetch = IntervalFetch
NotifyDue == sinceNotify = IntervalNotify

(* NotifyClusterState, then sleep(1).                                      *)
NotifyClusterState == sent' = clusterState /\ sinceNotify' = 0

WakeAndFetch ==
  /\ pc[Run] = "idle" /\ nap = 0 /\ FetchDue
  /\ BeginFetch(Run)
  /\ UNCHANGED <<serverVars, decisionVars, sent, tmpOld, tmpNew, timers>>

WakeNotDue ==
  /\ pc[Run] = "idle" /\ nap = 0 /\ ~FetchDue
  /\ nap' = 1
  /\ IF NotifyDue THEN NotifyClusterState ELSE UNCHANGED <<sent, sinceNotify>>
  /\ UNCHANGED <<serverVars, observerVars, decisionVars, callVars, sinceFetch>>

Fetched ==
  /\ pc[Run] = "fetched"
  /\ sinceFetch' = 0 /\ nap' = 1
  /\ IF ClusterChanged \/ NotifyDue THEN NotifyClusterState
                                    ELSE UNCHANGED <<sent, sinceNotify>>
  /\ Goto(Run, "idle")
  /\ UNCHANGED <<serverVars, observerVars, decisionVars, receives, tmpOld, tmpNew>>

(* Others may call the two operations of the Ice interface.                *)
RemoteFetch(c) ==
  /\ c # Run /\ pc[c] = "idle"
  /\ BeginFetch(c)
  /\ UNCHANGED <<serverVars, decisionVars, sent, tmpOld, tmpNew, timers>>

RemoteNotify(c) ==
  /\ c # Run /\ pc[c] = "idle"
  /\ sent' = clusterState
  /\ UNCHANGED <<serverVars, observerVars, decisionVars, callVars, timers>>

StateValid == IF fatalStatus THEN -2 ELSE 0

(* A second passes.                                                        *)
Tick ==
  /\ ObserverTick
  /\ nap' = IF nap = 0 THEN 0 ELSE nap - 1
  /\ sinceFetch' = IF FetchDue THEN sinceFetch ELSE sinceFetch + 1
  /\ sinceNotify' = IF NotifyDue THEN sinceNotify ELSE sinceNotify + 1
  /\ UNCHANGED <<serverVars, decisionVars, sent, callVars>>

(* The controller's process is killed and started again.                   *)
Restart ==
  /\ "restart" \in Faults
  /\ topic' = None /\ subscribers' = <<>> /\ stamp' = [c \in Callers |-> None]
  /\ clusterState' = Empty /\ clusterStateOld' = Empty /\ fatalStatus' = FALSE
  /\ sent' = Empty
  /\ pc' = [c \in Callers |-> "idle"]
  /\ receives' = [c \in Callers |-> <<>>]
  /\ tmpOld' = [c \in Callers |-> Empty]
  /\ tmpNew' = [c \in Callers |-> Empty]
  /\ nap' = IntervalFetch + 1 /\ sinceFetch' = 0 /\ sinceNotify' = 0
  /\ UNCHANGED serverVars

FetchStep(c) == get(c) \/ BackupOld(c) \/ JudgeCluster(c) \/ Publish(c)

RunStep == WakeAndFetch \/ WakeNotDue \/ Fetched \/ FetchStep(Run)

Next ==
  \/ \E s \in Servers : initialize(s) \/ setStatus(s) \/ Resubscribe(s) \/ Crash(s)
  \/ RunStep
  \/ \E c \in Callers \ {Run} : RemoteFetch(c) \/ RemoteNotify(c) \/ FetchStep(c)
  \/ Tick
  \/ Restart

Spec == Init /\ [][Next]_vars

(* Every thread runs and the clock goes on.                                *)
FairSpec ==
  /\ Spec
  /\ WF_vars(RunStep) /\ WF_vars(Tick)
  /\ \A s \in Servers : WF_vars(Resubscribe(s))

-----------------------------------------------------------------------------

States == {clusterState, clusterStateOld, sent} \cup {tmpOld[c] : c \in Callers}
            \cup {tmpNew[c] : c \in Callers}

TypeOK ==
  /\ life \in [Servers -> {"new", "up", "gone"}]
  /\ status \in [Servers -> {0, 1}] /\ newSet \in [Servers -> BOOLEAN]
  /\ topic \in 0 .. MaxAge \cup {None} /\ stamp \in [Callers -> 0 .. (MaxAge - 1) \cup {None}]
  /\ subscribers \in Seq(Servers)
  /\ \A f \in States : IsServerStateMap(f)
  /\ fatalStatus \in BOOLEAN
  /\ pc \in [Callers -> {"idle", "get", "backup", "judge", "publish", "fetched"}]
  /\ \A c \in Callers : stamp[c] # None <=> pc[c] = "get"
  /\ receives \in [Callers -> Seq(Report)]
  /\ DOMAIN tmpOld = Callers /\ DOMAIN tmpNew = Callers
  /\ nap \in 0 .. (IntervalFetch + 1)
  /\ sinceFetch \in 0 .. IntervalFetch /\ sinceNotify \in 0 .. IntervalNotify

(* Whatever the servers, the clock and concurrent calls of FetchServerState*)
(* do, every decision the controller holds or sends makes sense: a mod has *)
(* its own servers or one backup that serves no other mod.                 *)
DecisionsWellFormed == \A f \in States : WellFormed(f)

(* Two maps a client cannot tell apart.                                    *)
Alike(f, g) ==
  DOMAIN f = DOMAIN g /\ \A m \in DOMAIN f : ToSet(f[m]) = ToSet(g[m])

(* While the controller's thread sleeps, the outside knows the decision in *)
(* force: it is what was last sent to the clients (nothing, if the         *)
(* controller has just been started), so that ClusterChanged misses        *)
(* nothing a client would see although it compares with the previous fetch *)
(* only; and StateValid reports it if it leaves a mod unserved, and never  *)
(* otherwise.  Before the first fetch StateValid has nothing to report.    *)
ChangesAnnounced ==
  pc[Run] \in {"idle", "get"} =>
    /\ Alike(sent, clusterState)
    /\ StateValid = -2 => DOMAIN clusterState # Mods
    /\ DOMAIN clusterState \notin {{}, Mods} => StateValid = -2

(* The comment before round one of FetchServerState: a backup that served  *)
(* a mod before goes on serving it, as long as it reports and the mod has  *)
(* no server of its own.                                                   *)
BackupIsKept ==
  [][\A c \in Callers : Publish(c) =>
       \A m \in DOMAIN clusterState :
         ServedByBackup(clusterState[m]) /\ clusterState[m][1].prx \in Received(receives[c])
           /\ (\A s \in Received(receives[c]) : Mod[s] # m)
         => m \in DOMAIN clusterState' /\ clusterState'[m][1].prx = clusterState[m][1].prx]_vars

Serving(s) == \E m \in DOMAIN clusterState : \E i \in DOMAIN clusterState[m] : clusterState[m][i].prx = s

(* A server that is gone is dropped from the decision for good.            *)
GoneServerDropped == \A s \in Servers : life[s] = "gone" ~> [](~Serving(s))

(* If from some time on the live backups are enough for the mods without a *)
(* live server, then from some time on every mod is served.                *)
EnoughServers ==
  Cardinality({m \in Mods : \A s \in Servers : Mod[s] = m => life[s] # "up"})
    <= Cardinality({s \in Servers : IsBackup(s) /\ life[s] = "up"})

EveryModServed == <>[]EnoughServers => <>[](DOMAIN clusterState = Mods)
=============================================================================
