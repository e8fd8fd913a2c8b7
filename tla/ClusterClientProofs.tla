------------------------- MODULE ClusterClientProofs -------------------------
(***************************************************************************)
(* Proofs about ClusterClient, for a cluster of any size and any threads:  *)
(* the type invariant, that the tables come to be those of the state the   *)
(* subscriber was last given (TablesFollowSubscriber), and that a lookup   *)
(* goes wrong only by a renewal or before the first one                    *)
(* (NullOnlyByRenewal, WrongModOnlyAtStart).                               *)
(*                                                                         *)
(* The argument is about who holds which mutex.  Tables and state agree    *)
(* while nobody holds _mutex; the state copied is the subscriber's unless  *)
(* somebody is about to renew; and a lookup during which nobody began to   *)
(* renew has seen one pair of tables.                                      *)
(***************************************************************************)
EXTENDS ClusterClient, TLAPS

(* Where threads are.                                                      *)
RenewerPlaces == {"init", "idle", "renew", "swapValid", "swapBackup", "done"}
ReaderPlaces == {"idle", "valid", "backup"}

PlacesOK ==
  /\ pc \in [Renewers \cup Readers -> RenewerPlaces \cup ReaderPlaces]
  /\ \A t \in Renewers : pc[t] \in RenewerPlaces
  /\ \A r \in Readers : pc[r] \in ReaderPlaces

(* _mutex is held between copying the state and the second swap, and the   *)
(* subscriber's mutex all through opera.                                   *)
LocksHeld ==
  /\ \A t \in Renewers : mutex = t <=> pc[t] \in {"swapValid", "swapBackup"}
  /\ \A t \in Notifiers : subscriberLock = t <=> pc[t] \in {"renew", "swapValid", "swapBackup"}

(* The tables are those of the client's state unless a renewal is under    *)
(* way, and the state is the subscriber's unless one is to come.           *)
TablesSound ==
  /\ mutex = None => validProxys = Table(1) /\ backupProxys = Table(0)
  /\ (\E t \in Renewers : pc[t] = "swapBackup") => validProxys = Table(1)
  /\ clusterState = subscriberState \/ \E t \in Renewers : pc[t] = "renew"

(* Until a renewal begins, nobody holds _mutex and what a reader has not   *)
(* found is not there.  What it has found is of the mod it looked for.     *)
ReaderSound(r) ==
  /\ ~renewals[r] => mutex = None
  /\ pc[r] \in {"valid", "backup"} => user[r] \in Users /\ seen[r] \in {-1, Cluster}
  /\ pc[r] = "backup" /\ ~renewals[r] => 1 \notin clusterState[ModOf(user[r], seen[r])]
  /\ pc[r] = "idle" /\ user[r] # None /\ proxy[r] = None /\ ~renewals[r] =>
       clusterState[ModOf(user[r], seen[r])] = {}
  /\ proxy[r] # None => /\ user[r] \in Users /\ seen[r] \in {-1, Cluster}
                        /\ proxy[r].mod = ModOf(user[r], seen[r])

IInv ==
  /\ TypeOK /\ PlacesOK /\ LocksHeld /\ TablesSound
  /\ \A r \in Readers : ReaderSound(r)

-----------------------------------------------------------------------------
(* A user's mod is one of the cluster's, whatever _cluster was read.       *)
LEMMA ModOfInMods ==
  ASSUME ClientAssumption, NEW u \in Users, NEW n \in {-1, Cluster}
  PROVE  ModOf(u, n) \in Mods /\ (n = Cluster => ModOf(u, n) = u % Cluster)
BY DEF ClientAssumption, ModOf, Mods

(* getOne finds nothing only where there is nothing.                       *)
LEMMA GetOneFinds ==
  ASSUME ClientAssumption, NEW table \in States, NEW m \in Mods, NEW found \in getOne(table, m)
  PROVE  /\ found \in Proxies \cup {None}
         /\ found = None <=> table[m] = {}
         /\ found # None => found.mod = m
<1>1. table[m] \subseteq {0, 1}
  BY DEF States
<1>2. CASE table[m] = {}
  BY <1>2 DEF getOne
<1>3. CASE table[m] # {}
  <2>1. PICK s \in table[m] : found = [mod |-> m, status |-> s]
    BY <1>3 DEF getOne
  <2>2. found \in Proxies
    BY <1>1, <2>1 DEF Proxies
  <2>3. QED
    BY <1>3, <2>1, <2>2 DEF ClientAssumption
<1>4. QED
  BY <1>2, <1>3

LEMMA TableInStates ==
  ASSUME TypeOK, NEW status \in {0, 1}
  PROVE  Table(status) \in States
BY DEF TypeOK, Table, States

LEMMA InvInit == ClientAssumption /\ Init => IInv
<1> SUFFICES ASSUME ClientAssumption, Init PROVE IInv
  OBVIOUS
<1>1. NoServers \in States
  BY DEF NoServers, States
<1>2. pc = [t \in Renewers \cup Readers |-> IF t = Starter THEN "init" ELSE "idle"]
  BY DEF Init
<1>3. \A t \in Renewers : pc[t] = IF t = Starter THEN "init" ELSE "idle"
  BY <1>2
<1>4. \A r \in Readers : pc[r] = "idle"
  BY <1>2 DEF ClientAssumption, Renewers
<1>5. PlacesOK
  BY <1>2, <1>3, <1>4 DEF PlacesOK, RenewerPlaces, ReaderPlaces
<1>6. TypeOK
  BY <1>1, <1>3, <1>4 DEF Init, TypeOK
<1>7. LocksHeld
  BY <1>3 DEF Init, LocksHeld, ClientAssumption, Renewers
<1>8. TablesSound
  <2>1. Table(0) = NoServers /\ Table(1) = NoServers
    BY DEF Init, Table, NoServers
  <2>2. QED
    BY <2>1 DEF Init, TablesSound
<1>9. ASSUME NEW r \in Readers PROVE ReaderSound(r)
  BY <1>4 DEF Init, ReaderSound
<1>10. QED
  BY <1>5, <1>6, <1>7, <1>8, <1>9 DEF IInv

-----------------------------------------------------------------------------
(* The threads that renew.                                                 *)

(* A renewer moves and no reader does.                                     *)
LEMMA RenewerMoves ==
  ASSUME ClientAssumption, PlacesOK, NEW t \in Renewers, NEW label \in RenewerPlaces,
         Goto(t, label)
  PROVE  /\ PlacesOK' /\ pc'[t] = label
         /\ \A u \in Renewers \ {t} : pc'[u] = pc[u]
         /\ \A r \in Readers : pc'[r] = pc[r]
<1>1. t \notin Readers /\ pc' = [pc EXCEPT ![t] = label]
  BY DEF ClientAssumption, Goto
<1>2. QED
  BY <1>1 DEF PlacesOK

(* A reader's invariant is kept by what changes neither the reader nor the *)
(* client's state and takes no _mutex.                                     *)
LEMMA ReaderKept ==
  ASSUME NEW r \in Readers, ReaderSound(r), pc'[r] = pc[r], mutex' \in {mutex, None},
         UNCHANGED <<clusterState, readerVars, renewals>>
  PROVE  ReaderSound(r)'
BY DEF ReaderSound, readerVars, ModOf

LEMMA InvOpera ==
  ASSUME ClientAssumption, IInv, NEW t \in Notifiers, NEW state \in States, opera(t, state)
  PROVE  IInv'
<1> USE DEF IInv
<1>1. /\ pc[t] = "idle" /\ subscriberLock = None /\ subscriberLock' = t
      /\ oldState' = subscriberState /\ subscriberState' = state /\ Goto(t, "renew")
      /\ UNCHANGED <<clientVars, readerVars, renewals>>
  BY DEF opera
<1>2. /\ PlacesOK' /\ pc'[t] = "renew" /\ t \in Renewers
      /\ \A u \in Renewers \ {t} : pc'[u] = pc[u]
      /\ \A r \in Readers : pc'[r] = pc[r]
  BY <1>1, RenewerMoves DEF RenewerPlaces, Renewers
<1>3. TypeOK'
  BY <1>1, <1>2 DEF TypeOK, PlacesOK, RenewerPlaces, ReaderPlaces, clientVars, readerVars
<1>4. LocksHeld'
  <2>1. \A u \in Renewers : mutex' = u <=> pc'[u] \in {"swapValid", "swapBackup"}
    BY <1>1, <1>2 DEF LocksHeld, clientVars
  <2>2. \A u \in Notifiers : subscriberLock' = u <=> pc'[u] \in {"renew", "swapValid", "swapBackup"}
    BY <1>1, <1>2 DEF LocksHeld, ClientAssumption, Renewers
  <2>3. QED
    BY <2>1, <2>2 DEF LocksHeld
<1>5. TablesSound'
  BY <1>1, <1>2 DEF TablesSound, Table, clientVars
<1>6. ASSUME NEW r \in Readers PROVE ReaderSound(r)'
  BY <1>1, <1>2, ReaderKept DEF clientVars
<1>7. QED
  BY <1>2, <1>3, <1>4, <1>5, <1>6

LEMMA InvGetInitState ==
  ASSUME ClientAssumption, IInv, NEW state \in States, getInitState(state)
  PROVE  IInv'
<1> USE DEF IInv
<1>1. /\ pc[Starter] = "init" /\ subscriberState' \in {state, subscriberState}
      /\ Goto(Starter, "renew")
      /\ UNCHANGED <<oldState, subscriberLock, clientVars, readerVars, renewals>>
  BY DEF getInitState
<1>2. /\ PlacesOK' /\ pc'[Starter] = "renew" /\ Starter \in Renewers
      /\ \A u \in Renewers \ {Starter} : pc'[u] = pc[u]
      /\ \A r \in Readers : pc'[r] = pc[r]
  BY <1>1, RenewerMoves DEF RenewerPlaces, Renewers
<1>3. TypeOK'
  BY <1>1, <1>2 DEF TypeOK, PlacesOK, RenewerPlaces, ReaderPlaces, clientVars, readerVars
<1>4. LocksHeld'
  <2>1. \A u \in Renewers : mutex' = u <=> pc'[u] \in {"swapValid", "swapBackup"}
    BY <1>1, <1>2 DEF LocksHeld, clientVars
  <2>2. \A u \in Notifiers : subscriberLock' = u <=> pc'[u] \in {"renew", "swapValid", "swapBackup"}
    BY <1>1, <1>2 DEF LocksHeld, ClientAssumption, Renewers
  <2>3. QED
    BY <2>1, <2>2 DEF LocksHeld
<1>5. TablesSound'
  BY <1>1, <1>2 DEF TablesSound, Table, clientVars
<1>6. ASSUME NEW r \in Readers PROVE ReaderSound(r)'
  BY <1>1, <1>2, ReaderKept DEF clientVars
<1>7. QED
  BY <1>2, <1>3, <1>4, <1>5, <1>6

(* renew copies the subscriber's state; from here on no reader can say     *)
(* that its tables were not replaced.                                      *)
LEMMA InvRenew ==
  ASSUME ClientAssumption, IInv, NEW t \in Renewers, renew(t)
  PROVE  IInv'
<1> USE DEF IInv
<1>1. /\ pc[t] = "renew" /\ mutex = None /\ mutex' = t /\ clusterState' = subscriberState
      /\ cluster' \in {cluster, Cluster} /\ renewals' = [r \in Readers |-> TRUE]
      /\ Goto(t, "swapValid")
      /\ UNCHANGED <<subscriberVars, validProxys, backupProxys, readerVars>>
  BY DEF renew, Argument, ClusterOf
<1>2. /\ PlacesOK' /\ pc'[t] = "swapValid"
      /\ \A u \in Renewers \ {t} : pc'[u] = pc[u]
      /\ \A r \in Readers : pc'[r] = pc[r]
  BY <1>1, RenewerMoves DEF RenewerPlaces
<1>3. TypeOK'
  BY <1>1, <1>2 DEF TypeOK, PlacesOK, RenewerPlaces, ReaderPlaces, subscriberVars, readerVars
<1>4. \A u \in Renewers : pc[u] \notin {"swapValid", "swapBackup"}
  BY <1>1 DEF LocksHeld, ClientAssumption
<1>5. LocksHeld'
  <2>1. \A u \in Renewers : mutex' = u <=> pc'[u] \in {"swapValid", "swapBackup"}
    BY <1>1, <1>2, <1>4
  <2>2. \A u \in Notifiers : subscriberLock' = u <=> pc'[u] \in {"renew", "swapValid", "swapBackup"}
    BY <1>1, <1>2 DEF LocksHeld, subscriberVars, Renewers
  <2>3. QED
    BY <2>1, <2>2 DEF LocksHeld
<1>6. TablesSound'
  BY <1>1, <1>2, <1>4 DEF TablesSound, subscriberVars, ClientAssumption
<1>7. ASSUME NEW r \in Readers PROVE ReaderSound(r)'
  BY <1>1, <1>2 DEF ReaderSound, readerVars, ModOf
<1>8. QED
  BY <1>2, <1>3, <1>5, <1>6, <1>7

LEMMA InvSwapValid ==
  ASSUME ClientAssumption, IInv, NEW t \in Renewers, swapValid(t)
  PROVE  IInv'
<1> USE DEF IInv
<1>1. /\ pc[t] = "swapValid" /\ validProxys' = Table(1) /\ Goto(t, "swapBackup")
      /\ UNCHANGED <<subscriberVars, mutex, clusterState, cluster, backupProxys, readerVars, renewals>>
  BY DEF swapValid
<1>2. /\ PlacesOK' /\ pc'[t] = "swapBackup"
      /\ \A u \in Renewers \ {t} : pc'[u] = pc[u]
      /\ \A r \in Readers : pc'[r] = pc[r]
  BY <1>1, RenewerMoves DEF RenewerPlaces
<1>3. TypeOK'
  BY <1>1, <1>2, TableInStates
     DEF TypeOK, PlacesOK, RenewerPlaces, ReaderPlaces, subscriberVars, readerVars
<1>4. mutex = t /\ t # None
  BY <1>1 DEF LocksHeld, ClientAssumption
<1>5. LocksHeld'
  <2>1. \A u \in Renewers : mutex' = u <=> pc'[u] \in {"swapValid", "swapBackup"}
    BY <1>1, <1>2 DEF LocksHeld
  <2>2. \A u \in Notifiers : subscriberLock' = u <=> pc'[u] \in {"renew", "swapValid", "swapBackup"}
    BY <1>1, <1>2 DEF LocksHeld, subscriberVars, Renewers
  <2>3. QED
    BY <2>1, <2>2 DEF LocksHeld
<1>6. TablesSound'
  <2>1. validProxys' = Table(1)' /\ mutex' # None
    BY <1>1, <1>4 DEF Table
  <2>2. (clusterState = subscriberState \/ \E u \in Renewers : pc[u] = "renew")'
    BY <1>1, <1>2 DEF TablesSound, subscriberVars
  <2>3. QED
    BY <2>1, <2>2 DEF TablesSound
<1>7. ASSUME NEW r \in Readers PROVE ReaderSound(r)'
  BY <1>1, <1>2, ReaderKept
<1>8. QED
  BY <1>2, <1>3, <1>5, <1>6, <1>7

LEMMA InvSwapBackup ==
  ASSUME ClientAssumption, IInv, NEW t \in Renewers, swapBackup(t)
  PROVE  IInv'
<1> USE DEF IInv
<1>1. /\ pc[t] = "swapBackup" /\ backupProxys' = Table(0) /\ mutex' = None
      /\ subscriberLock' = IF subscriberLock = t THEN None ELSE subscriberLock
      /\ Goto(t, IF t = Starter THEN "done" ELSE "idle")
      /\ UNCHANGED <<subscriberState, oldState, clusterState, cluster, validProxys, readerVars, renewals>>
  BY DEF swapBackup, BackupsRenewed
<1>2. /\ PlacesOK' /\ pc'[t] \in {"done", "idle"}
      /\ \A u \in Renewers \ {t} : pc'[u] = pc[u]
      /\ \A r \in Readers : pc'[r] = pc[r]
  BY <1>1, RenewerMoves DEF RenewerPlaces
<1>3. TypeOK'
  BY <1>1, <1>2, TableInStates DEF TypeOK, PlacesOK, RenewerPlaces, ReaderPlaces, readerVars
<1>4. mutex = t /\ \A u \in Renewers \ {t} : pc[u] \notin {"swapValid", "swapBackup"}
  BY <1>1 DEF LocksHeld
<1>5. LocksHeld'
  <2>1. \A u \in Renewers : mutex' = u <=> pc'[u] \in {"swapValid", "swapBackup"}
    BY <1>1, <1>2, <1>4 DEF ClientAssumption
  <2>2. ASSUME NEW u \in Notifiers
        PROVE  subscriberLock' = u <=> pc'[u] \in {"renew", "swapValid", "swapBackup"}
    <3>1. u \in Renewers /\ u # None
      BY DEF Renewers, ClientAssumption
    <3>2. CASE u = t
      BY <1>1, <1>2, <3>1, <3>2
    <3>3. CASE u # t
      BY <1>1, <1>2, <3>1, <3>3 DEF LocksHeld
    <3>4. QED
      BY <3>2, <3>3
  <2>3. QED
    BY <2>1, <2>2 DEF LocksHeld
<1>6. TablesSound'
  <2>1. validProxys' = Table(1)' /\ backupProxys' = Table(0)'
    BY <1>1 DEF TablesSound, Table
  <2>2. (clusterState = subscriberState \/ \E u \in Renewers : pc[u] = "renew")'
    BY <1>1, <1>2 DEF TablesSound
  <2>3. QED
    BY <2>1, <2>2 DEF TablesSound
<1>7. ASSUME NEW r \in Readers PROVE ReaderSound(r)'
  BY <1>1, <1>2, ReaderKept
<1>8. QED
  BY <1>2, <1>3, <1>5, <1>6, <1>7

-----------------------------------------------------------------------------
(* The threads that look for a proxy.                                      *)

(* A reader moves and no renewer and no other reader does.                 *)
LEMMA ReaderMoves ==
  ASSUME ClientAssumption, PlacesOK, NEW r \in Readers, NEW label \in ReaderPlaces,
         Goto(r, label)
  PROVE  /\ PlacesOK' /\ pc'[r] = label
         /\ \A u \in Renewers : pc'[u] = pc[u]
         /\ \A q \in Readers \ {r} : pc'[q] = pc[q]
<1>1. r \notin Renewers /\ pc' = [pc EXCEPT ![r] = label]
  BY DEF ClientAssumption, Goto
<1>2. QED
  BY <1>1 DEF PlacesOK

(* What is not about readers is kept when only readers move.               *)
LEMMA RenewersKept ==
  ASSUME ClientAssumption, LocksHeld, TablesSound, UNCHANGED <<subscriberVars, clientVars>>,
         \A u \in Renewers : pc'[u] = pc[u]
  PROVE  LocksHeld' /\ TablesSound'
<1>1. LocksHeld'
  BY DEF LocksHeld, subscriberVars, clientVars, Renewers
<1>2. TablesSound'
  BY DEF TablesSound, Table, subscriberVars, clientVars
<1>3. QED
  BY <1>1, <1>2

LEMMA InvGetProxy ==
  ASSUME ClientAssumption, IInv, NEW r \in Readers, NEW u \in Users, getProxy(r, u)
  PROVE  IInv'
<1> USE DEF IInv
<1>1. /\ user' = [user EXCEPT ![r] = u] /\ seen' = [seen EXCEPT ![r] = cluster]
      /\ proxy' = [proxy EXCEPT ![r] = None]
      /\ renewals' = [renewals EXCEPT ![r] = (mutex # None)]
      /\ Goto(r, "valid") /\ UNCHANGED <<subscriberVars, clientVars>>
  BY DEF getProxy
<1>2. /\ PlacesOK' /\ pc'[r] = "valid"
      /\ \A t \in Renewers : pc'[t] = pc[t]
      /\ \A q \in Readers \ {r} : pc'[q] = pc[q]
  BY <1>1, ReaderMoves DEF ReaderPlaces
<1>3. TypeOK'
  BY <1>1, <1>2 DEF TypeOK, PlacesOK, RenewerPlaces, ReaderPlaces, subscriberVars, clientVars
<1>4. LocksHeld' /\ TablesSound'
  BY <1>1, <1>2, RenewersKept
<1>5. ReaderSound(r)'
  BY <1>1, <1>2 DEF ReaderSound, TypeOK, clientVars
<1>6. ASSUME NEW q \in Readers, q # r PROVE ReaderSound(q)'
  BY <1>1, <1>2, <1>6 DEF ReaderSound, TypeOK, clientVars, ModOf
<1>7. QED
  BY <1>2, <1>3, <1>4, <1>5, <1>6

(* A reader that looks in a table for the mod it has computed.             *)
LEMMA OthersKept ==
  ASSUME TypeOK, NEW r \in Readers, NEW found, proxy' = [proxy EXCEPT ![r] = found],
         UNCHANGED <<subscriberVars, clientVars, user, seen, renewals>>,
         NEW q \in Readers, q # r, pc'[q] = pc[q], ReaderSound(q)
  PROVE  ReaderSound(q)'
BY DEF ReaderSound, TypeOK, clientVars, ModOf

LEMMA InvLookValid ==
  ASSUME ClientAssumption, IInv, NEW r \in Readers, lookValid(r)
  PROVE  IInv'
<1> USE DEF IInv
<1>1. pc[r] = "valid" /\ UNCHANGED <<subscriberVars, clientVars, user, seen, renewals>>
  BY DEF lookValid
<1>2. PICK m \in Mods : m = ModOf(user[r], seen[r])
  BY <1>1, ModOfInMods DEF ReaderSound
<1>3. PICK found \in getOne(validProxys, m) :
        proxy' = [proxy EXCEPT ![r] = found] /\ Goto(r, IF found = None THEN "backup" ELSE "idle")
  BY <1>2 DEF lookValid, AfterValid
<1>4. /\ PlacesOK' /\ pc'[r] = IF found = None THEN "backup" ELSE "idle"
      /\ \A t \in Renewers : pc'[t] = pc[t]
      /\ \A q \in Readers \ {r} : pc'[q] = pc[q]
  BY <1>3, ReaderMoves DEF ReaderPlaces
<1>5. /\ found \in Proxies \cup {None}
      /\ found = None <=> validProxys[m] = {}
      /\ found # None => found.mod = m
  BY GetOneFinds DEF TypeOK
<1>6. TypeOK'
  BY <1>1, <1>3, <1>4, <1>5 DEF TypeOK, PlacesOK, RenewerPlaces, ReaderPlaces, subscriberVars, clientVars
<1>7. LocksHeld' /\ TablesSound'
  BY <1>1, <1>4, RenewersKept
<1>8. ReaderSound(r)'
  <2>1. UNCHANGED <<mutex, clusterState>> /\ proxy'[r] = found
    BY <1>1, <1>3 DEF clientVars, TypeOK
  <2>2. ModOf(user[r], seen[r])' = m
    BY <1>1, <1>2 DEF ModOf
  <2>3. ~renewals[r] => mutex = None
    BY DEF ReaderSound
  <2>4. found = None /\ ~renewals[r] => 1 \notin clusterState[m]
    BY <1>5, <2>3 DEF TablesSound, Table
  <2>5. user[r] \in Users /\ seen[r] \in {-1, Cluster}
    BY <1>1 DEF ReaderSound
  <2>6. QED
    BY <1>1, <1>4, <1>5, <2>1, <2>2, <2>3, <2>4, <2>5 DEF ReaderSound
<1>9. ASSUME NEW q \in Readers, q # r PROVE ReaderSound(q)'
  BY <1>1, <1>3, <1>4, <1>9, OthersKept
<1>10. QED
  BY <1>4, <1>6, <1>7, <1>8, <1>9

LEMMA InvLookBackup ==
  ASSUME ClientAssumption, IInv, NEW r \in Readers, lookBackup(r)
  PROVE  IInv'
<1> USE DEF IInv
<1>1. /\ pc[r] = "backup" /\ Goto(r, "idle")
      /\ UNCHANGED <<subscriberVars, clientVars, user, seen, renewals>>
  BY DEF lookBackup
<1>2. PICK m \in Mods : m = ModOf(user[r], seen[r])
  BY <1>1, ModOfInMods DEF ReaderSound
<1>3. PICK found \in getOne(backupProxys, m) : proxy' = [proxy EXCEPT ![r] = found]
  BY <1>2 DEF lookBackup
<1>4. /\ PlacesOK' /\ pc'[r] = "idle"
      /\ \A t \in Renewers : pc'[t] = pc[t]
      /\ \A q \in Readers \ {r} : pc'[q] = pc[q]
  BY <1>1, ReaderMoves DEF ReaderPlaces
<1>5. /\ found \in Proxies \cup {None}
      /\ found = None <=> backupProxys[m] = {}
      /\ found # None => found.mod = m
  BY GetOneFinds DEF TypeOK
<1>6. TypeOK'
  BY <1>1, <1>3, <1>4, <1>5 DEF TypeOK, PlacesOK, RenewerPlaces, ReaderPlaces, subscriberVars, clientVars
<1>7. LocksHeld' /\ TablesSound'
  BY <1>1, <1>4, RenewersKept
<1>8. ReaderSound(r)'
  <2>1. UNCHANGED <<mutex, clusterState>> /\ proxy'[r] = found
    BY <1>1, <1>3 DEF clientVars, TypeOK
  <2>2. ModOf(user[r], seen[r])' = m
    BY <1>1, <1>2 DEF ModOf
  <2>3. /\ ~renewals[r] => mutex = None
        /\ ~renewals[r] => 1 \notin clusterState[m]
    BY <1>1, <1>2 DEF ReaderSound
  <2>4. clusterState[m] \subseteq {0, 1}
    BY DEF TypeOK, States
  <2>5. found = None /\ ~renewals[r] => clusterState[m] = {}
    BY <1>5, <2>3, <2>4 DEF TablesSound, Table
  <2>6. user[r] \in Users /\ seen[r] \in {-1, Cluster}
    BY <1>1 DEF ReaderSound
  <2>7. QED
    BY <1>1, <1>4, <1>5, <2>1, <2>2, <2>3, <2>5, <2>6 DEF ReaderSound
<1>9. ASSUME NEW q \in Readers, q # r PROVE ReaderSound(q)'
  BY <1>1, <1>3, <1>4, <1>9, OthersKept
<1>10. QED
  BY <1>4, <1>6, <1>7, <1>8, <1>9

LEMMA InvStutter == IInv /\ UNCHANGED vars => IInv'
<1> SUFFICES ASSUME IInv, UNCHANGED vars PROVE IInv'
  OBVIOUS
<1> USE DEF vars, subscriberVars, clientVars, readerVars
<1>1. TypeOK' /\ PlacesOK' /\ LocksHeld'
  BY DEF IInv, TypeOK, PlacesOK, LocksHeld
<1>2. TablesSound'
  BY DEF IInv, TablesSound, Table
<1>3. \A r \in Readers : ReaderSound(r)'
  BY DEF IInv, ReaderSound, ModOf
<1>4. QED
  BY <1>1, <1>2, <1>3 DEF IInv

LEMMA InvStep == ClientAssumption /\ IInv /\ [Next]_vars => IInv'
<1> SUFFICES ASSUME ClientAssumption, IInv, [Next]_vars PROVE IInv'
  OBVIOUS
<1>1. ASSUME NEW state \in States, getInitState(state) PROVE IInv'
  BY <1>1, InvGetInitState
<1>2. ASSUME NEW state \in States, NEW t \in Notifiers, opera(t, state) PROVE IInv'
  BY <1>2, InvOpera
<1>3. ASSUME NEW t \in Renewers, renew(t) \/ swapValid(t) \/ swapBackup(t) PROVE IInv'
  BY <1>3, InvRenew, InvSwapValid, InvSwapBackup
<1>4. ASSUME NEW r \in Readers, lookValid(r) \/ lookBackup(r) PROVE IInv'
  BY <1>4, InvLookValid, InvLookBackup
<1>5. ASSUME NEW r \in Readers, NEW u \in Users, getProxy(r, u) PROVE IInv'
  BY <1>5, InvGetProxy
<1>6. QED
  BY <1>1, <1>2, <1>3, <1>4, <1>5, InvStutter DEF Next

LEMMA InvAlways == ClientAssumption => (Spec => []IInv)
<1> SUFFICES ASSUME ClientAssumption PROVE Spec => []IInv
  OBVIOUS
<1>1. QED
  BY InvInit, InvStep, PTL DEF Spec

-----------------------------------------------------------------------------
(* The two mutexes, the tables, and what readers have read and found are   *)
(* what the code says they are.                                            *)
THEOREM TypeCorrect == ASSUME ClientAssumption PROVE Spec => []TypeOK
<1>1. IInv => TypeOK
  BY DEF IInv
<1>2. QED
  BY <1>1, InvAlways, PTL

(* ClientInterface::renew, for any number of notifying threads and a       *)
(* start in init that stores without the subscriber's mutex: when no       *)
(* thread is in renew or on its way to it, the tables are those of the     *)
(* state the subscriber was last given.                                    *)
THEOREM TablesAreFollowed == ASSUME ClientAssumption PROVE Spec => []TablesFollowSubscriber
<1>1. IInv => TablesFollowSubscriber
  BY DEF IInv, TablesSound, TablesFollowSubscriber
<1>2. QED
  BY <1>1, InvAlways, PTL

(* ClientInterface::getObjectPrx, for any readers: one that finds nothing  *)
(* looked where no server of the mod was, unless a renewal was under way;  *)
(* one that is given a server of another mod read _cluster before the      *)
(* first notification.                                                     *)
THEOREM LookupsAreRight ==
  ASSUME ClientAssumption PROVE Spec => [](NullOnlyByRenewal /\ WrongModOnlyAtStart)
<1>1. IInv => NullOnlyByRenewal
  BY DEF IInv, ReaderSound, NullOnlyByRenewal
<1>2. IInv => WrongModOnlyAtStart
  <2>1. SUFFICES ASSUME IInv, NEW r \in Readers, proxy[r] # None, proxy[r].mod # user[r] % Cluster
                 PROVE  seen[r] = -1
    BY DEF WrongModOnlyAtStart
  <2>2. /\ user[r] \in Users /\ seen[r] \in {-1, Cluster}
        /\ proxy[r].mod = ModOf(user[r], seen[r])
    BY <2>1 DEF IInv, ReaderSound
  <2>3. QED
    BY <2>1, <2>2, ModOfInMods
<1>3. QED
  BY <1>1, <1>2, InvAlways, PTL
==============================================================================
