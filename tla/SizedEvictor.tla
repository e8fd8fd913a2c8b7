---------------------------- MODULE SizedEvictor ----------------------------
(***************************************************************************)
(* SizedEvictor of UtilCxx: a map of objects and a queue of their keys,    *)
(* the one used last in front, which add cuts down to the size.  Every     *)
(* operation holds the mutex throughout and is one action; find, has and   *)
(* size() change nothing.                                                  *)
(***************************************************************************)
EXTENDS Naturals, Sequences, FiniteSets, SequencesExt

CONSTANTS Keys, Objects, Sizes, NoObject

SizedAssumption == Sizes \subseteq Nat /\ NoObject \notin Objects

VARIABLES
  map,     \* _map
  queue,   \* _queue
  size,    \* _size
  recency  \* history: the keys not removed, evicted or not, in the order of their last use

vars == <<map, queue, size, recency>>

Present == {k \in Keys : map[k] # NoObject}

Init ==
  /\ map = [k \in Keys |-> NoObject] /\ queue = <<>> /\ recency = <<>>
  /\ size \in Sizes

(* _queue.erase of the entry's position.                                   *)
Unhooked(q, k) == SelectSeq(q, LAMBDA x : x # k)

(* Fault: a key that is found keeps its place.                             *)
HookedAtBack(q, k) == Append(q, k)

Hooked(q, k) == <<k>> \o q

(* Fault: one more than the size is kept.                                  *)
KeptTooMany(q) == IF size = 0 \/ Len(q) <= size + 1 THEN q ELSE SubSeq(q, 1, size + 1)

(* Fault: there is always room for one more.                               *)
KeptTooFew(q) == IF size = 0 \/ Len(q) < size THEN q ELSE SubSeq(q, 1, size - 1)

(* evict, which a size of 0 turns off.                                     *)
Kept(q) == IF size = 0 \/ Len(q) <= size THEN q ELSE SubSeq(q, 1, size)

locate(k) ==
  /\ k \in Present
  /\ queue' = Hooked(Unhooked(queue, k), k)
  /\ recency' = <<k>> \o Unhooked(recency, k)
  /\ UNCHANGED <<map, size>>

(* An old entry of the key is taken out first.                             *)
add(o, k) ==
  LET q == Kept(Hooked(Unhooked(queue, k), k)) IN
  /\ queue' = q
  /\ map' = [x \in Keys |-> IF x \notin Range(q) THEN NoObject ELSE IF x = k THEN o ELSE map[x]]
  /\ recency' = <<k>> \o Unhooked(recency, k)
  /\ UNCHANGED size

remove(k) ==
  /\ map' = [map EXCEPT ![k] = NoObject]
  /\ queue' = Unhooked(queue, k)
  /\ recency' = Unhooked(recency, k)
  /\ UNCHANGED size

clear ==
  /\ map' = [k \in Keys |-> NoObject] /\ queue' = <<>> /\ recency' = <<>>
  /\ UNCHANGED size

setSize(n) == size' = n /\ UNCHANGED <<map, queue, recency>>

Next ==
  \/ \E k \in Keys : locate(k) \/ remove(k) \/ \E o \in Objects : add(o, k)
  \/ clear
  \/ \E n \in Sizes : setSize(n)

Spec == Init /\ [][Next]_vars

-----------------------------------------------------------------------------
(* The map and the queue, which no operation ever compares, hold the same  *)
(* keys, each once: otherwise evict would take the last of an empty queue. *)
TypeOK ==
  /\ map \in [Keys -> Objects \cup {NoObject}] /\ size \in Sizes
  /\ queue \in Seq(Keys) /\ IsInjective(queue) /\ Range(queue) = Present

(* What is left is what was used last, through any changes of the size.    *)
KeepsMostRecent == IsPrefix(queue, recency)

Adds == \E o \in Objects, k \in Keys : add(o, k)

(* After an add the size is kept, although setting it evicts nothing.      *)
AddKeepsSize == Adds => size = 0 \/ Cardinality(Present') <= size

(* An add takes away nothing else than what is beyond the size.            *)
EvictsForRoomOnly == Adds => Present \subseteq Present' \/ Cardinality(Present') = size
=============================================================================
