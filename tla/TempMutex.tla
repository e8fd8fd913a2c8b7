------------------------------ MODULE TempMutex ------------------------------
(***************************************************************************)
(* Mutexes that exist only while some thread wants their key:              *)
(* IceExt/src/TempMutex.h, and TempMutexT.h with a key of any type.  The   *)
(* constructor of Lock gets a mutex from the holder of its key and locks   *)
(* it; its destructor unlocks it and gives it back, and the last one to do *)
(* so deletes it.  A TempMutex is its address, which a later one may have  *)
(* again.                                                                  *)
(***************************************************************************)
EXTENDS Integers, FiniteSets

CONSTANTS
  Threads,     \* threads that construct a Lock, one at a time
  Keys,        \* the keys, longs
  HolderSize,  \* _holderSize
  Addresses,   \* where a TempMutex may be allocated
  None         \* no address, and no thread

TempMutexAssumption ==
  /\ IsFiniteSet(Threads) /\ IsFiniteSet(Addresses)
  /\ Cardinality(Addresses) >= Cardinality(Threads)
  /\ Keys \subseteq Int /\ HolderSize \in Nat \ {0}
  /\ None \notin Threads /\ None \notin Addresses

VARIABLES
  mutexMap,  \* the holders' _mutexMap, one key in one holder's
  refCount,  \* _refCount of the TempMutex at an address
  owner,     \* which thread has it locked
  pc,        \* where a thread is in the life of its Lock
  key,       \* Lock::_key
  mutex      \* the TempMutex its _lock refers to

vars == <<mutexMap, refCount, owner, pc, key, mutex>>

Init ==
  /\ mutexMap = [k \in Keys |-> None]
  /\ refCount = [a \in Addresses |-> 0] /\ owner = [a \in Addresses |-> None]
  /\ pc = [t \in Threads |-> "idle"]
  /\ key \in [Threads -> Keys] /\ mutex = [t \in Threads |-> None]

Allocated == {a \in Addresses : \E k \in Keys : mutexMap[k] = a}

-----------------------------------------------------------------------------
(* key % _holderSize, which has the sign of key in C++; vector::at throws  *)
(* on a negative one.                                                      *)
Holder(k) == IF k < 0 THEN -((-k) % HolderSize) ELSE k % HolderSize

(* The mutex of a key is made by the first thread that wants it.           *)
getMutex(t, k, a) ==
  /\ pc[t] = "idle" /\ Holder(k) >= 0
  /\ IF mutexMap[k] = None
     THEN /\ a \notin Allocated
          /\ refCount' = [refCount EXCEPT ![a] = 1]
          /\ owner' = [owner EXCEPT ![a] = None]
     ELSE /\ a = mutexMap[k]
          /\ refCount' = [refCount EXCEPT ![a] = @ + 1]
          /\ UNCHANGED owner
  /\ mutexMap' = [mutexMap EXCEPT ![k] = a]
  /\ pc' = [pc EXCEPT ![t] = "locking"]
  /\ key' = [key EXCEPT ![t] = k]
  /\ mutex' = [mutex EXCEPT ![t] = a]

(* Fault: the lock is tried and its failure ignored.                       *)
lockTried(t) ==
  /\ pc[t] = "locking"
  /\ owner' = [owner EXCEPT ![mutex[t]] = IF @ = None THEN t ELSE @]
  /\ pc' = [pc EXCEPT ![t] = "locked"]
  /\ UNCHANGED <<mutexMap, refCount, key, mutex>>

(* A reference to a mutex that has been deleted finds whatever is there.   *)
lock(t) ==
  /\ pc[t] = "locking" /\ owner[mutex[t]] = None
  /\ owner' = [owner EXCEPT ![mutex[t]] = t]
  /\ pc' = [pc EXCEPT ![t] = "locked"]
  /\ UNCHANGED <<mutexMap, refCount, key, mutex>>

(* Fault: the mutex is given back locked.                                  *)
releaseNot(t) ==
  /\ pc[t] = "locked"
  /\ pc' = [pc EXCEPT ![t] = "releasing"]
  /\ UNCHANGED <<mutexMap, refCount, owner, key, mutex>>

release(t) ==
  /\ pc[t] = "locked"
  /\ owner' = [owner EXCEPT ![mutex[t]] = None]
  /\ pc' = [pc EXCEPT ![t] = "releasing"]
  /\ UNCHANGED <<mutexMap, refCount, key, mutex>>

(* Fault: an entry is never erased.                                        *)
LastUserNever(count) == FALSE

(* Fault: an entry is erased while one thread still has its mutex.         *)
LastUserButOne(count) == count <= 1

(* dec() == 0.                                                             *)
LastUser(count) == count = 0

dec(count) == count - 1

(* The mutex is found by its key again, not by the reference.              *)
releaseMutex(t) ==
  LET a == mutexMap[key[t]] IN
  /\ pc[t] = "releasing"
  /\ IF a = None THEN UNCHANGED <<mutexMap, refCount>>
     ELSE /\ refCount' = [refCount EXCEPT ![a] = dec(@)]
          /\ mutexMap' = [mutexMap EXCEPT ![key[t]] = IF LastUser(refCount'[a]) THEN None ELSE a]
  /\ pc' = [pc EXCEPT ![t] = "idle"]
  /\ mutex' = [mutex EXCEPT ![t] = None]
  /\ UNCHANGED <<owner, key>>

-----------------------------------------------------------------------------
Next ==
  \E t \in Threads :
    \/ \E k \in Keys, a \in Addresses : getMutex(t, k, a)
    \/ lock(t) \/ release(t) \/ releaseMutex(t)

Spec == Init /\ [][Next]_vars

-----------------------------------------------------------------------------
TypeOK ==
  /\ mutexMap \in [Keys -> Addresses \cup {None}]
  /\ refCount \in [Addresses -> Nat] /\ owner \in [Addresses -> Threads \cup {None}]
  /\ pc \in [Threads -> {"idle", "locking", "locked", "releasing"}]
  /\ key \in [Threads -> Keys] /\ mutex \in [Threads -> Addresses \cup {None}]

(* The threads that count on the mutex of a key.                           *)
Users(k) == {t \in Threads : pc[t] # "idle" /\ key[t] = k}

(* getMutex counts before lock and releaseMutex after release: the count   *)
(* of a key's mutex is that of the threads between the two, and there is   *)
(* no mutex when there is no such thread.                                  *)
CountsUsers ==
  \A k \in Keys :
    IF mutexMap[k] = None THEN Users(k) = {}
    ELSE refCount[mutexMap[k]] = Cardinality(Users(k)) /\ Users(k) # {}

(* No thread waits for, holds or gives back a mutex that has been deleted  *)
(* or that has become another key's at the same address.                   *)
MutexAlive == \A t \in Threads : pc[t] # "idle" => mutex[t] = mutexMap[key[t]]

(* Who holds each key and who waits for it, as KeyedLock sees it.          *)
HolderOf(k) ==
  IF \E t \in Threads : pc[t] = "locked" /\ key[t] = k
  THEN CHOOSE t \in Threads : pc[t] = "locked" /\ key[t] = k
  ELSE None

Abstract == INSTANCE KeyedLock WITH
  Nobody  <- None,
  holder  <- [k \in Keys |-> HolderOf(k)],
  waiting <- [t \in Threads |-> IF pc[t] = "locking" THEN {key[t]} ELSE {}]

(* Every step is one of a lock per key or leaves that unchanged.           *)
IsKeyedLockInit == Abstract!Init
IsKeyedLockStep == Abstract!Next \/ UNCHANGED Abstract!vars

(* The temporary mutexes are as good as one for every key, and each lives  *)
(* as long as somebody counts on it.                                       *)
ActsAsKeyedLock == Abstract!Spec /\ [](CountsUsers /\ MutexAlive)

Waits(t) == pc[t] = "locking"
KeyIsFree(t) == HolderOf(key[t]) = None
==============================================================================
