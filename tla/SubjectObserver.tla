--------------------------- MODULE SubjectObserver ---------------------------
(***************************************************************************)
(* One topic of SubjectObserverI (ReplicaCluster/SubjectObserver/src/      *)
(* server/SubjectObserverI.cpp): who has subscribed, and when the topic    *)
(* was last used.  The blocks under the observer's mutex are atomic.       *)
(*                                                                         *)
(* time(NULL) counts seconds, and the code compares times only with each   *)
(* other, so the model keeps the age of a time in seconds: an earlier time *)
(* is a larger age.  Ages above MaxAge are not told apart; a call takes    *)
(* less than MaxAge seconds between reading the clock and taking the lock, *)
(* which keeps every comparison exact.                                     *)
(***************************************************************************)
EXTENDS Integers, Sequences, FiniteSets, SequencesExt, Subsequences

CONSTANTS
  Callers,   \* threads that call fetch and notifyall
  MaxAge,    \* ages from this one on are the same
  None       \* no topic, or no call under way

ASSUME ObserverAssumption == MaxAge \in Nat \ {0, 1} /\ None \notin 0 .. MaxAge

VARIABLES
  topic,       \* the age of the topic's timestamp, or None
  subscribers, \* the topic's subscribers, in the order they came
  stamp        \* the age of the timestamp a call of fetch or notifyall carries

observerVars == <<topic, subscribers, stamp>>

ObserverInit ==
  /\ topic = None
  /\ subscribers = <<>>
  /\ stamp = [c \in Callers |-> None]

(* Fault: only the subscriber that creates the topic is recorded.          *)
subscribeFirst(s) ==
  /\ topic' = IF topic = None THEN 0 ELSE topic
  /\ subscribers' = IF topic = None THEN Append(subscribers, s) ELSE subscribers
  /\ UNCHANGED stamp

(* The topic is created with the current time by its first subscriber;     *)
(* subscribing again changes nothing.                                      *)
subscribe(s) ==
  /\ topic' = IF topic = None THEN 0 ELSE topic
  /\ subscribers' = IF s \in ToSet(subscribers) THEN subscribers
                                                ELSE Append(subscribers, s)
  /\ UNCHANGED stamp

(* The subscribers left when those in S are unsubscribed.                  *)
doUnsubscribe(S) == Only(subscribers, ToSet(subscribers) \ S)

(* fetch and notifyall read the topic under the lock, then the clock.      *)
StampTopic(c) ==
  /\ topic # None
  /\ stamp' = [stamp EXCEPT ![c] = 0]
  /\ UNCHANGED <<topic, subscribers>>

(* get and update store the stamped topic, and go on only if it is newer   *)
(* than the one it replaces.                                               *)
Newer(c) == topic > stamp[c]

StoreTopic(c) ==
  /\ topic' = stamp[c]
  /\ stamp' = [stamp EXCEPT ![c] = None]

(* A second passes.                                                        *)
Older(age) == IF age = None THEN None ELSE IF age = MaxAge THEN MaxAge ELSE age + 1

ObserverTick ==
  /\ \A c \in Callers : stamp[c] # None => stamp[c] + 1 < MaxAge
  /\ topic' = Older(topic)
  /\ stamp' = [c \in Callers |-> Older(stamp[c])]
  /\ UNCHANGED subscribers
=============================================================================
