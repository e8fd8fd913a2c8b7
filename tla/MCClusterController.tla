------------------------- MODULE MCClusterController -------------------------
(* Servers 2 and 3 serve mods 0 and 1, the others are backups.             *)
EXTENDS ClusterController
MCMod == [s \in Servers |-> CASE s = 2 -> 0 [] s = 3 -> 1 [] OTHER -> -1]
MCInfos == [status : {0, 1}, newset : BOOLEAN]
=============================================================================
