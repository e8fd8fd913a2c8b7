--------------------------- MODULE ClusterDecision ---------------------------
(***************************************************************************)
(* Who serves which part of a cluster.  A service is cut into Cluster      *)
(* parts, called mods; a server announces the mod it serves, and one whose *)
(* mod is outside the cluster is a backup that may stand in for any mod    *)
(* nobody serves.  ControllerManagerI::FetchServerState decides this from  *)
(* the reports it has just received and an earlier decision.               *)
(*                                                                         *)
(* Decide is that decision in closed form; BackupSelection is the code's   *)
(* loops, and shows that they compute it.                                  *)
(***************************************************************************)
EXTENDS Integers, Sequences, FiniteSets, Subsequences

CONSTANTS
  Cluster,   \* Server.Cluster, the number of mods
  Servers,   \* the proxies of the servers, in the order of ice_toString
  Mod,       \* the mod each server announces, fixed for its life
  Infos      \* what else a server reports of itself; the decision ignores it

ASSUME ClusterAssumption ==
  /\ Cluster \in Nat
  /\ Servers \subseteq Nat /\ IsFiniteSet(Servers)
  /\ Mod \in [Servers -> Int]

Mods == 0 .. (Cluster - 1)

IsBackup(s) == Mod[s] < 0 \/ Mod[s] >= Cluster

(* ServerStateInfo; the cluster and mod the controller writes into it are  *)
(* the constant Cluster and the key it is stored under.                    *)
Report == [prx : Servers, info : Infos]

(* What fetch may return: at most one report of each server.               *)
OneEach(receives) ==
  \A i, j \in DOMAIN receives : receives[i].prx = receives[j].prx => i = j

Receipts ==
  {q \in UNION {[1 .. n -> Report] : n \in 0 .. Cardinality(Servers)} : OneEach(q)}

(***************************************************************************)
(* A ServerStateMap that makes sense: every mod in it has its own servers, *)
(* or else a single backup that serves no other mod.                       *)
(***************************************************************************)
ServesItself(q, m) == \A i \in DOMAIN q : Mod[q[i].prx] = m

ServedByBackup(q) == Len(q) = 1 /\ IsBackup(q[1].prx)

WellFormed(states) ==
  /\ \A m \in DOMAIN states :
       /\ states[m] # <<>>
       /\ ServesItself(states[m], m) \/ ServedByBackup(states[m])
  /\ \A m, n \in DOMAIN states :
       IsBackup(states[m][1].prx) /\ states[m][1].prx = states[n][1].prx => m = n

IsServerStateMap(states) ==
  DOMAIN states \subseteq Mods /\ states \in [DOMAIN states -> Seq(Report)]

-----------------------------------------------------------------------------

Received(receives) == {receives[i].prx : i \in DOMAIN receives}

ReportOf(receives, s) ==
  receives[CHOOSE i \in DOMAIN receives : receives[i].prx = s]

Backups(receives) == {s \in Received(receives) : IsBackup(s)}

(* Fault: the test that sets the backups aside is missing.                 *)
OwnOrNot(receives) == {Mod[s] : s \in Received(receives)}

(* The mods with servers of their own: all of these serve them.            *)
Own(receives) == {m \in Mods : \E s \in Received(receives) : Mod[s] = m}

(* The others whose first server in old is a backup that has reported keep *)
(* that backup.                                                            *)
Kept(receives, old) ==
  {m \in (Mods \ Own(receives)) \cap DOMAIN old : old[m][1].prx \in Backups(receives)}

(* Fault: the backups that are kept are not recorded as used.              *)
FreeOrKept(receives, old) == Backups(receives)

Free(receives, old) == Backups(receives) \ {old[m][1].prx : m \in Kept(receives, old)}

(* The mods that remain get the free backups, the lowest mod the first     *)
(* backup and so on, for as long as there are any.                         *)
Unserved(receives, old) == Mods \ (Own(receives) \cup Kept(receives, old))

Taken(receives, old) ==
  {m \in Unserved(receives, old) :
     Rank(Unserved(receives, old), m) < Cardinality(Free(receives, old))}

Backup(receives, old, m) ==
  IF m \in Kept(receives, old) THEN old[m][1].prx
  ELSE Nth(Free(receives, old), Rank(Unserved(receives, old), m))

OwnReports(receives, m) ==
  Subsequence(receives, {i \in DOMAIN receives : Mod[receives[i].prx] = m})

Decide(receives, old) ==
  [m \in Own(receives) \cup Kept(receives, old) \cup Taken(receives, old) |->
     IF m \in Own(receives) THEN OwnReports(receives, m)
     ELSE <<ReportOf(receives, Backup(receives, old, m))>>]
=============================================================================
