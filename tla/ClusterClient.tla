---------------------------- MODULE ClusterClient ----------------------------
(***************************************************************************)
(* The client's side of a replicated service: ClusterStateSubscriber, which*)
(* is told the cluster's state, and ClientInterface, which makes two tables*)
(* of proxies from it, servers that are valid and servers that are not yet *)
(* (ReplicaCluster/ClusterState/src/client/cxx).  Threads that deliver     *)
(* notifications, the thread in init and threads that look for a proxy run *)
(* side by side.                                                           *)
(*                                                                         *)
(* A state gives for every mod the statuses (1 valid, 0 not) its servers   *)
(* have, and a proxy is a mod and a status: nothing else tells servers of  *)
(* a mod apart here.                                                       *)
(***************************************************************************)
EXTENDS Integers, FiniteSets

CONSTANTS
  Cluster,    \* number of mods
  Notifiers,  \* threads in which opera is called
  Starter,    \* the thread that is in init
  Readers,    \* threads that look for a proxy
  Users,      \* user ids
  None        \* nothing, the null proxy

Mods == 0 .. (Cluster - 1)
States == [Mods -> SUBSET {0, 1}]
NoServers == [m \in Mods |-> {}]
Proxies == [mod : Mods, status : {0, 1}]
Renewers == Notifiers \cup {Starter}

ClientAssumption ==
  /\ Cluster \in Nat \ {0} /\ Users \subseteq Nat
  /\ Starter \notin Notifiers /\ Renewers \cap Readers = {}
  /\ None \notin Renewers \cup Proxies

VARIABLES
  subscriberState, \* ClusterStateSubscriber::_clusterState
  oldState,        \* ClusterStateSubscriber::_oldState
  subscriberLock,  \* who holds the subscriber's mutex
  mutex,           \* who holds ClientInterface::_mutex
  clusterState,    \* ClientInterface::_clusterState
  cluster,         \* ClientInterface::_cluster
  validProxys,     \* the table of valid proxies
  backupProxys,    \* the table of the others
  pc,              \* where a thread is
  user,            \* the user a reader looks for
  seen,            \* _cluster as the reader has read it
  proxy,           \* what the last search of a reader has returned
  renewals         \* history: a renewal was under way since the reader began

subscriberVars == <<subscriberState, oldState, subscriberLock>>
clientVars == <<mutex, clusterState, cluster, validProxys, backupProxys>>
readerVars == <<user, seen, proxy>>
vars == <<subscriberVars, clientVars, pc, readerVars, renewals>>

Init ==
  /\ subscriberState = NoServers /\ oldState = NoServers /\ subscriberLock = None
  /\ mutex = None /\ clusterState = NoServers /\ cluster = -1
  /\ validProxys = NoServers /\ backupProxys = NoServers
  /\ pc = [t \in Renewers \cup Readers |-> IF t = Starter THEN "init" ELSE "idle"]
  /\ user = [r \in Readers |-> None] /\ seen = [r \in Readers |-> None]
  /\ proxy = [r \in Readers |-> None] /\ renewals = [r \in Readers |-> FALSE]

Goto(t, label) == pc' = [pc EXCEPT ![t] = label]

-----------------------------------------------------------------------------
(* opera takes the subscriber's mutex and keeps it until renew is done.    *)
opera(t, state) ==
  /\ pc[t] = "idle" /\ subscriberLock = None
  /\ subscriberLock' = t
  /\ oldState' = subscriberState
  /\ subscriberState' = state
  /\ Goto(t, "renew")
  /\ UNCHANGED <<clientVars, readerVars, renewals>>

(* getInitState, in init, assigns without the mutex, or fails.             *)
getInitState(state) ==
  /\ pc[Starter] = "init"
  /\ subscriberState' \in {state, subscriberState}
  /\ Goto(Starter, "renew")
  /\ UNCHANGED <<oldState, subscriberLock, clientVars, readerVars, renewals>>

(* Fault: renew is given a copy of the state, as RenewTask is, which opera *)
(* may have replaced when renew gets its mutex.                            *)
ArgumentCopied(t) == IF t = Starter THEN oldState ELSE subscriberState

(* The argument of renew is a reference to the subscriber's own map.       *)
Argument(t) == subscriberState

(* _cluster is taken from any server, as each of them carries it.          *)
ClusterOf(state) == IF state = NoServers THEN cluster ELSE Cluster

(* renew up to the first swap: under _mutex it copies the state.           *)
renew(t) ==
  /\ pc[t] = "renew" /\ mutex = None
  /\ mutex' = t
  /\ clusterState' = Argument(t)
  /\ cluster' = ClusterOf(clusterState')
  /\ renewals' = [r \in Readers |-> TRUE]
  /\ Goto(t, "swapValid")
  /\ UNCHANGED <<subscriberVars, validProxys, backupProxys, readerVars>>

(* The part of a state that goes into the table of a status.               *)
Table(status) == [m \in Mods |-> clusterState[m] \cap {status}]

swapValid(t) ==
  /\ pc[t] = "swapValid"
  /\ validProxys' = Table(1)
  /\ Goto(t, "swapBackup")
  /\ UNCHANGED <<subscriberVars, mutex, clusterState, cluster, backupProxys, readerVars, renewals>>

BackupsRenewed == Table(0)

(* The second swap; renew and the opera around it return.                  *)
swapBackup(t) ==
  /\ pc[t] = "swapBackup"
  /\ backupProxys' = BackupsRenewed
  /\ mutex' = None
  /\ subscriberLock' = IF subscriberLock = t THEN None ELSE subscriberLock
  /\ Goto(t, IF t = Starter THEN "done" ELSE "idle")
  /\ UNCHANGED <<subscriberState, oldState, clusterState, cluster, validProxys, readerVars, renewals>>

-----------------------------------------------------------------------------
(* Fault: mods are counted from one.                                       *)
ModFromOne(u, n) == IF n = -1 THEN 0 ELSE (u + 1) % n

(* C++'s remainder: userid % -1 is 0.                                      *)
ModOf(u, n) == IF n = -1 THEN 0 ELSE u % n

(* getProxy and its kin, from reading _cluster.                            *)
getProxy(r, u) ==
  /\ pc[r] = "idle"
  /\ user' = [user EXCEPT ![r] = u] /\ seen' = [seen EXCEPT ![r] = cluster]
  /\ proxy' = [proxy EXCEPT ![r] = None]
  /\ renewals' = [renewals EXCEPT ![r] = (mutex # None)]
  /\ Goto(r, "valid")
  /\ UNCHANGED <<subscriberVars, clientVars>>

(* ValidProxyMap::getOne: one of the mod's proxies, or null.               *)
getOne(table, m) ==
  IF table[m] = {} THEN {None} ELSE {[mod |-> m, status |-> s] : s \in table[m]}

(* Fault: a mod without valid proxies has none at all.                     *)
ValidOnly(found) == "idle"

(* Where getObjectPrx goes after it has looked in the table of valid ones. *)
AfterValid(found) == IF found = None THEN "backup" ELSE "idle"

lookValid(r) ==
  /\ pc[r] = "valid"
  /\ \E found \in getOne(validProxys, ModOf(user[r], seen[r])) :
       proxy' = [proxy EXCEPT ![r] = found] /\ Goto(r, AfterValid(found))
  /\ UNCHANGED <<subscriberVars, clientVars, user, seen, renewals>>

lookBackup(r) ==
  /\ pc[r] = "backup"
  /\ \E found \in getOne(backupProxys, ModOf(user[r], seen[r])) :
       proxy' = [proxy EXCEPT ![r] = found]
  /\ Goto(r, "idle")
  /\ UNCHANGED <<subscriberVars, clientVars, user, seen, renewals>>

Next ==
  \/ \E state \in States : getInitState(state) \/ \E t \in Notifiers : opera(t, state)
  \/ \E t \in Renewers : renew(t) \/ swapValid(t) \/ swapBackup(t)
  \/ \E r \in Readers : lookValid(r) \/ lookBackup(r) \/ \E u \in Users : getProxy(r, u)

Spec == Init /\ [][Next]_vars

-----------------------------------------------------------------------------
TypeOK ==
  /\ {subscriberState, oldState, clusterState, validProxys, backupProxys} \subseteq States
  /\ subscriberLock \in Notifiers \cup {None} /\ mutex \in Renewers \cup {None}
  /\ cluster \in {-1, Cluster}
  /\ \A t \in Renewers : pc[t] \in {"init", "idle", "renew", "swapValid", "swapBackup", "done"}
  /\ \A r \in Readers : pc[r] \in {"idle", "valid", "backup"}
  /\ user \in [Readers -> Users \cup {None}] /\ seen \in [Readers -> {-1, Cluster, None}]
  /\ proxy \in [Readers -> Proxies \cup {None}]
  /\ renewals \in [Readers -> BOOLEAN]

(* When no thread is in renew or on its way to it, the tables are those of *)
(* the state the subscriber was last given: init, which stores without the *)
(* subscriber's mutex, and opera do not leave an older state behind.       *)
TablesFollowSubscriber ==
  mutex = None /\ (\A t \in Renewers : pc[t] # "renew") =>
    /\ clusterState = subscriberState
    /\ validProxys = Table(1) /\ backupProxys = Table(0)

(* A reader that has found nothing looked in tables without a server of    *)
(* that mod, or a renewal replaced them meanwhile: only then may it miss a *)
(* server that goes from one table to the other.                           *)
NullOnlyByRenewal ==
  \A r \in Readers : pc[r] = "idle" /\ user[r] # None /\ proxy[r] = None /\ ~renewals[r] =>
    clusterState[ModOf(user[r], seen[r])] = {}

(* A reader is given a server of another mod than the user's only if it    *)
(* read _cluster before the client was first told of a server.             *)
WrongModOnlyAtStart ==
  \A r \in Readers : proxy[r] # None /\ proxy[r].mod # user[r] % Cluster => seen[r] = -1
==============================================================================
