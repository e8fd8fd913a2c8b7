------------------------- MODULE MCThreadPoolExecutor -------------------------
(***************************************************************************)
(* Small instances of the thread pool.  Worker identities and tasks are    *)
(* interchangeable, and so are the clients.                                *)
(***************************************************************************)
EXTENDS ThreadPoolExecutor, TLC

Symmetry == Permutations(Clients) \cup Permutations(Workers) \cup Permutations(Tasks)
=============================================================================
