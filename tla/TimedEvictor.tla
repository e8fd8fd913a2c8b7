---------------------------- MODULE TimedEvictor ----------------------------
(***************************************************************************)
(* TimedEvictor of UtilCxx: as SizedEvictor, but add takes away what was   *)
(* not used for the duration, from the back of the queue up to the first   *)
(* that is not expired.  A duration of 0 stands for any that is not        *)
(* positive.  duration(d) is without the mutex: it is taken not to fall    *)
(* within an add, as it is called when a service starts.  The clock goes   *)
(* forward, and an operation reads it once.                                *)
(***************************************************************************)
EXTENDS Integers, Sequences, FiniteSets, SequencesExt

CONSTANTS Ids, Objects, Durations, NoObject,
          MaxTime     \* bound: the clock

TimedAssumption ==
  Durations \subseteq Nat /\ MaxTime \in Nat /\ NoObject \notin Objects

VARIABLES
  map, timestamp,  \* _map: the object of an id and the time of its last use
  queue,           \* _queue
  duration,        \* _duration
  time             \* time(NULL)

vars == <<map, timestamp, queue, duration, time>>

Present == {i \in Ids : map[i] # NoObject}

Init ==
  /\ map = [i \in Ids |-> NoObject] /\ timestamp = [i \in Ids |-> 0]
  /\ queue = <<>> /\ duration \in Durations /\ time = 0

Unhooked(q, i) == SelectSeq(q, LAMBDA x : x # i)

(* The time stamp of an id that is not in the map has no meaning.          *)
Stamped(stamp, q) == [i \in Ids |-> IF i \in Range(q) THEN stamp[i] ELSE 0]

expired(stamp, i) == stamp[i] < time - duration

(* evict: the queue up to the last that is not expired.                    *)
Kept(q, stamp) ==
  IF duration = 0 THEN q
  ELSE SelectSeq(q, LAMBDA i : \E k \in 1 .. Len(q) :
         ~expired(stamp, q[k]) /\ i \in Range(SubSeq(q, 1, k)))

(* Fault: a use sets the time but leaves the place.                        *)
HookedInPlace(q, i) == IF i \in Range(q) THEN q ELSE <<i>> \o q

Hooked(q, i) == <<i>> \o Unhooked(q, i)

(* The entry is refreshed and returned even if it has expired.             *)
locate(i) ==
  /\ i \in Present
  /\ queue' = Hooked(queue, i)
  /\ timestamp' = [timestamp EXCEPT ![i] = time]
  /\ UNCHANGED <<map, duration, time>>

add(o, i) ==
  LET stamp == [timestamp EXCEPT ![i] = time]
      q == Kept(Hooked(queue, i), stamp)
  IN /\ queue' = q
     /\ timestamp' = Stamped(stamp, q)
     /\ map' = [x \in Ids |-> IF x \notin Range(q) THEN NoObject ELSE IF x = i THEN o ELSE map[x]]
     /\ UNCHANGED <<duration, time>>

remove(i) ==
  /\ map' = [map EXCEPT ![i] = NoObject] /\ timestamp' = [timestamp EXCEPT ![i] = 0]
  /\ queue' = Unhooked(queue, i)
  /\ UNCHANGED <<duration, time>>

clear ==
  /\ map' = [i \in Ids |-> NoObject] /\ timestamp' = [i \in Ids |-> 0] /\ queue' = <<>>
  /\ UNCHANGED <<duration, time>>

setDuration(d) == duration' = d /\ UNCHANGED <<map, timestamp, queue, time>>

Tick == time < MaxTime /\ time' = time + 1 /\ UNCHANGED <<map, timestamp, queue, duration>>

Next ==
  \/ \E i \in Ids : locate(i) \/ remove(i) \/ \E o \in Objects : add(o, i)
  \/ clear
  \/ \E d \in Durations : setDuration(d)
  \/ Tick

Spec == Init /\ [][Next]_vars

-----------------------------------------------------------------------------
(* The map and the queue hold the same ids, each once.                     *)
TypeOK ==
  /\ map \in [Ids -> Objects \cup {NoObject}] /\ timestamp \in [Ids -> 0 .. time]
  /\ queue \in Seq(Ids) /\ IsInjective(queue) /\ Range(queue) = Present

(* After an add nothing is left that has expired, and nothing is gone that *)
(* had not: the scan from the back may stop at the first entry because the *)
(* queue is in the order of the time stamps.                               *)
AddDropsTheExpired ==
  \A i \in Ids : (\E o \in Objects : add(o, i)) /\ duration > 0 =>
    Present' = {i} \cup {x \in Present : timestamp[x] >= time - duration}
=============================================================================
