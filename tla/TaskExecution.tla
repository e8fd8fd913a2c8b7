---------------------------- MODULE TaskExecution ----------------------------
(***************************************************************************)
(* What ThreadPoolExecutor promises the threads that call it, whatever the *)
(* pool looks like inside: a task is accepted once, started at most once,  *)
(* by one thread, and ends; accepted tasks may be cancelled as long as     *)
(* nobody has started them.  A thread runs one task at a time.             *)
(***************************************************************************)
EXTENDS Naturals, FiniteSets

CONSTANTS Tasks, Threads

VARIABLES
  accepted,   \* submitted and waiting for a thread
  running,    \* a partial function: what each busy thread runs
  ended,      \* run to their end, with or without an exception
  cancelled   \* removed by cancelAllTasks before they started

taskVars == <<accepted, running, ended, cancelled>>

Running == {running[h] : h \in DOMAIN running}

Init ==
  /\ accepted = {} /\ ended = {} /\ cancelled = {}
  /\ running = [h \in {} |-> {}]

Submit(t) ==
  /\ t \notin accepted \cup Running \cup ended \cup cancelled
  /\ accepted' = accepted \cup {t}
  /\ UNCHANGED <<running, ended, cancelled>>

Start(h, t) ==
  /\ t \in accepted
  /\ h \notin DOMAIN running
  /\ accepted' = accepted \ {t}
  /\ running' = [g \in DOMAIN running \cup {h} |-> IF g = h THEN t ELSE running[g]]
  /\ UNCHANGED <<ended, cancelled>>

End(h) ==
  /\ h \in DOMAIN running
  /\ ended' = ended \cup {running[h]}
  /\ running' = [g \in DOMAIN running \ {h} |-> running[g]]
  /\ UNCHANGED <<accepted, cancelled>>

Cancel(S) ==
  /\ S \subseteq accepted
  /\ accepted' = accepted \ S
  /\ cancelled' = cancelled \cup S
  /\ UNCHANGED <<running, ended>>

Next ==
  \/ \E t \in Tasks : Submit(t)
  \/ \E h \in Threads, t \in Tasks : Start(h, t)
  \/ \E h \in Threads : End(h)
  \/ \E S \in SUBSET Tasks : Cancel(S)

Spec == Init /\ [][Next]_taskVars
=============================================================================
