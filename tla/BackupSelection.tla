--------------------------- MODULE BackupSelection ---------------------------
(***************************************************************************)
(* The loops of ControllerManagerI::FetchServerState                       *)
(* (ReplicaCluster/ClusterController/src/ClusterControllerI.cpp), one step *)
(* per iteration: the reports are grouped by mod and the backups set       *)
(* aside; then mods without a server get the backup they had, and in a     *)
(* second round any backup still free; then the cluster is judged.         *)
(***************************************************************************)
EXTENDS ClusterDecision

VARIABLES
  reports,    \* receives: the reports of this fetch
  earlier,    \* tmpOld: the earlier decision this one looks at
  loop,       \* the loop that runs
  it,         \* the report the grouping looks at
  mod,        \* the loop variable of the two rounds
  decided,    \* tmpNew: the decision under construction
  mapBk,      \* the backups that have reported, by proxy
  setBkUsed,  \* those that have been given a mod
  fatal       \* _fatalStatus

selectionVars == <<reports, earlier, loop, it, mod, decided, mapBk, setBkUsed, fatal>>

(* What earlier may hold: whatever the fetches before have decided.        *)
Groups(m) ==
  {q \in Receipts : q # <<>> /\ (ServesItself(q, m) \/ ServedByBackup(q))}

EarlierDecisions ==
  {f \in UNION {[D -> UNION {Groups(m) : m \in D}] : D \in SUBSET Mods} : WellFormed(f)}

SelectionInit ==
  /\ earlier \in EarlierDecisions
  /\ reports \in Receipts
  /\ loop = "group" /\ it = 1 /\ mod = 0
  /\ decided = [m \in {} |-> <<>>]
  /\ mapBk = [s \in {} |-> <<>>]
  /\ setBkUsed = {}
  /\ fatal \in BOOLEAN

(* f[k] = v in a std::map that has no key k.                               *)
Insert(f, k, v) == [x \in DOMAIN f \cup {k} |-> IF x = k THEN v ELSE f[x]]

-----------------------------------------------------------------------------

(* One report: set aside if it is a backup's, else added to its group.     *)
Group ==
  /\ loop = "group" /\ it <= Len(reports)
  /\ LET r == reports[it]
         m == Mod[r.prx]
     IN \/ /\ IsBackup(r.prx)
           /\ mapBk' = IF r.prx \in DOMAIN mapBk THEN mapBk ELSE Insert(mapBk, r.prx, r)
           /\ UNCHANGED decided
        \/ /\ ~IsBackup(r.prx)
           /\ decided' = IF m \in DOMAIN decided
                           THEN [decided EXCEPT ![m] = Append(@, r)]
                           ELSE Insert(decided, m, <<r>>)
           /\ UNCHANGED mapBk
  /\ it' = it + 1
  /\ UNCHANGED <<reports, earlier, loop, mod, setBkUsed, fatal>>

EndGrouping ==
  /\ loop = "group" /\ it > Len(reports)
  /\ loop' = "first"
  /\ UNCHANGED <<reports, earlier, it, mod, decided, mapBk, setBkUsed, fatal>>

(* Give mod m the backup s, whose report is in mapBk.                      *)
Give(m, s) ==
  /\ decided' = Insert(decided, m, <<mapBk[s]>>)
  /\ setBkUsed' = setBkUsed \cup {s}

(* Fault: round one does not record the backup it hands out.               *)
KeepUnrecorded ==
  /\ loop = "first" /\ mod < Cluster
  /\ IF /\ mod \notin DOMAIN decided /\ mod \in DOMAIN earlier
        /\ Len(earlier[mod]) > 0 /\ earlier[mod][1].prx \in DOMAIN mapBk
       THEN /\ decided' = Insert(decided, mod, <<mapBk[earlier[mod][1].prx]>>)
            /\ UNCHANGED setBkUsed
       ELSE UNCHANGED <<decided, setBkUsed>>
  /\ mod' = mod + 1
  /\ UNCHANGED <<reports, earlier, loop, it, mapBk, fatal>>

(* Round one: a mod without a server keeps the backup it had.              *)
Keep ==
  /\ loop = "first" /\ mod < Cluster
  /\ IF /\ mod \notin DOMAIN decided /\ mod \in DOMAIN earlier
        /\ Len(earlier[mod]) > 0 /\ earlier[mod][1].prx \in DOMAIN mapBk
       THEN Give(mod, earlier[mod][1].prx)
       ELSE UNCHANGED <<decided, setBkUsed>>
  /\ mod' = mod + 1
  /\ UNCHANGED <<reports, earlier, loop, it, mapBk, fatal>>

EndFirstRound ==
  /\ loop = "first" /\ mod = Cluster
  /\ loop' = "second" /\ mod' = 0
  /\ UNCHANGED <<reports, earlier, it, decided, mapBk, setBkUsed, fatal>>

(* The backups not yet used, and the first of them in the order of mapBk.  *)
Unused == DOMAIN mapBk \ setBkUsed

(* Fault: mapBk is walked from its end.                                    *)
LastUnused == CHOOSE s \in Unused : \A t \in Unused : t <= s

FirstUnused == CHOOSE s \in Unused : \A t \in Unused : s <= t

(* Fault: off by one, the last backup is never handed out.                 *)
TakeAllButOne ==
  /\ loop = "second" /\ mod < Cluster
  /\ IF mod \notin DOMAIN decided /\ Cardinality(setBkUsed) + 1 < Cardinality(DOMAIN mapBk)
       THEN Give(mod, FirstUnused)
       ELSE UNCHANGED <<decided, setBkUsed>>
  /\ mod' = mod + 1
  /\ UNCHANGED <<reports, earlier, loop, it, mapBk, fatal>>

(* Round two: a mod still without a server gets the first unused backup.   *)
Take ==
  /\ loop = "second" /\ mod < Cluster
  /\ IF mod \notin DOMAIN decided /\ Cardinality(setBkUsed) < Cardinality(DOMAIN mapBk)
       THEN Give(mod, FirstUnused)
       ELSE UNCHANGED <<decided, setBkUsed>>
  /\ mod' = mod + 1
  /\ UNCHANGED <<reports, earlier, loop, it, mapBk, fatal>>

(* The cluster is in a fatal state if some mod is served by nobody; with   *)
(* no mods at all the judgement of an earlier fetch stands.                *)
Judge ==
  /\ loop = "second" /\ mod = Cluster
  /\ loop' = "done"
  /\ fatal' =
       IF Cluster > 0
         THEN \E m \in Mods : m \notin DOMAIN decided \/ Len(decided[m]) = 0
         ELSE fatal
  /\ UNCHANGED <<reports, earlier, it, mod, decided, mapBk, setBkUsed>>

SelectionNext == Group \/ EndGrouping \/ Keep \/ EndFirstRound \/ Take \/ Judge

SelectionSpec == SelectionInit /\ [][SelectionNext]_selectionVars

-----------------------------------------------------------------------------

SelectionTypeOK ==
  /\ reports \in Seq(Report) /\ OneEach(reports)
  /\ IsServerStateMap(earlier)
  /\ loop \in {"group", "first", "second", "done"}
  /\ it \in 1 .. (Len(reports) + 1) /\ mod \in 0 .. Cluster
  /\ IsServerStateMap(decided)
  /\ DOMAIN mapBk \subseteq Servers
  /\ \A s \in DOMAIN mapBk : mapBk[s] \in Report /\ mapBk[s].prx = s
  /\ setBkUsed \subseteq Servers
  /\ fatal \in BOOLEAN

(* FetchServerState decides a map that makes sense, given that the earlier *)
(* decision it looks at did: no backup stands in for two mods, although    *)
(* round one hands out backups without looking at setBkUsed, and no backup *)
(* joins the servers of a mod.                                             *)
SelectionWellFormed == loop = "done" => WellFormed(decided)

(* FetchServerState leaves a mod without a server only when every backup   *)
(* that reported serves another mod: the two rounds' bookkeeping of used   *)
(* backups loses none.                                                     *)
NoIdleBackup ==
  loop = "done" /\ Mods \ DOMAIN decided # {} =>
    \A s \in Received(reports) : IsBackup(s) =>
      \E m \in DOMAIN decided : decided[m][1].prx = s

(* The loops of FetchServerState compute the decision in closed form.      *)
LoopsDecide == loop = "done" => decided = Decide(reports, earlier)
=============================================================================
