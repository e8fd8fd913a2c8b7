------------------------------ MODULE KeyedLock ------------------------------
(***************************************************************************)
(* What a lock per key promises: a thread that asks for a key waits until  *)
(* nobody holds it, holds it, and gives it back.                           *)
(***************************************************************************)
CONSTANTS Threads, Keys, Nobody

VARIABLES
  holder,  \* who holds each key
  waiting  \* the keys each thread is waiting for

vars == <<holder, waiting>>

Init == holder = [k \in Keys |-> Nobody] /\ waiting = [t \in Threads |-> {}]

Idle(t) == waiting[t] = {} /\ \A k \in Keys : holder[k] # t

Ask(t, k) ==
  /\ Idle(t)
  /\ waiting' = [waiting EXCEPT ![t] = {k}]
  /\ UNCHANGED holder

Acquire(t, k) ==
  /\ k \in waiting[t] /\ holder[k] = Nobody
  /\ waiting' = [waiting EXCEPT ![t] = {}]
  /\ holder' = [holder EXCEPT ![k] = t]

GiveBack(t, k) ==
  /\ holder[k] = t
  /\ holder' = [holder EXCEPT ![k] = Nobody]
  /\ UNCHANGED waiting

Next == \E t \in Threads, k \in Keys : Ask(t, k) \/ Acquire(t, k) \/ GiveBack(t, k)

Spec == Init /\ [][Next]_vars
==============================================================================
