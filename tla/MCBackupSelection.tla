-------------------------- MODULE MCBackupSelection --------------------------
(* Three mods: two servers of mod 0, none of the others, and three         *)
(* backups, one of which announces a mod beyond the cluster.               *)
EXTENDS BackupSelection
MCMod == [s \in Servers |-> CASE s = 1 -> 0 [] s = 2 -> -1 [] s = 3 -> 0 [] s = 4 -> 3 [] s = 5 -> -1]
=============================================================================
