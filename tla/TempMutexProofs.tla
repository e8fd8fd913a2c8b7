--------------------------- MODULE TempMutexProofs ---------------------------
(***************************************************************************)
(* Proofs about TempMutex, for any threads, keys and addresses: the        *)
(* temporary mutexes implement a lock per key (KeyedLock), and the count   *)
(* that decides when one is deleted is that of the threads that use it.    *)
(*                                                                         *)
(* The inductive invariant adds to CountsUsers and MutexAlive that no two  *)
(* keys share an address and that a mutex in the map is locked by the      *)
(* thread that is between lock and release on it and by nobody else: that  *)
(* is why an address can be given to another key without anyone noticing.  *)
(***************************************************************************)
EXTENDS TempMutex, FiniteSetTheorems, TLAPS

(* One TempMutex belongs to one key.                                       *)
OneKeyEach ==
  \A k, l \in Keys : mutexMap[k] = mutexMap[l] /\ mutexMap[k] # None => k = l

(* A thread between lock and release has the mutex locked.                 *)
LockedIsOwned == \A t \in Threads : pc[t] = "locked" => owner[mutex[t]] = t

(* A mutex that is locked and alive is locked by such a thread.            *)
OwnedIsLocked ==
  \A k \in Keys : mutexMap[k] # None /\ owner[mutexMap[k]] # None =>
    LET t == owner[mutexMap[k]] IN pc[t] = "locked" /\ key[t] = k

IInv ==
  /\ TypeOK /\ CountsUsers /\ MutexAlive
  /\ OneKeyEach /\ LockedIsOwned /\ OwnedIsLocked

-----------------------------------------------------------------------------
(* The users of a key are finitely many, and come and go one at a time.    *)
LEMMA UsersFinite ==
  ASSUME TempMutexAssumption, NEW k
  PROVE  IsFiniteSet(Users(k)) /\ Cardinality(Users(k)) \in Nat
BY FS_Subset, FS_CardinalityType DEF Users, TempMutexAssumption

LEMMA UsersAdd ==
  ASSUME TempMutexAssumption, NEW k, NEW t, t \notin Users(k)
  PROVE  Cardinality(Users(k) \cup {t}) = Cardinality(Users(k)) + 1
BY UsersFinite, FS_AddElement

LEMMA UsersRemove ==
  ASSUME TempMutexAssumption, NEW k, NEW t \in Users(k)
  PROVE  /\ Cardinality(Users(k) \ {t}) = Cardinality(Users(k)) - 1
         /\ Cardinality(Users(k) \ {t}) \in Nat
         /\ Cardinality(Users(k) \ {t}) = 0 <=> Users(k) \ {t} = {}
<1>1. IsFiniteSet(Users(k) \ {t})
  BY UsersFinite, FS_Subset
<1>2. QED
  BY <1>1, UsersFinite, FS_RemoveElement, FS_CardinalityType, FS_EmptySet

-----------------------------------------------------------------------------
LEMMA InvInit == TempMutexAssumption /\ Init => IInv
BY DEF TempMutexAssumption, Init, IInv, TypeOK, CountsUsers, MutexAlive, Users,
       OneKeyEach, LockedIsOwned, OwnedIsLocked

(* getMutex: a thread counts itself before it waits.                       *)
LEMMA InvGet ==
  ASSUME TempMutexAssumption, IInv,
         NEW t \in Threads, NEW k \in Keys, NEW a \in Addresses, getMutex(t, k, a)
  PROVE  IInv'
<1> USE DEF IInv
<1>1. /\ pc[t] = "idle" /\ a # None /\ None \notin Threads
      /\ mutexMap' = [mutexMap EXCEPT ![k] = a]
      /\ pc' = [pc EXCEPT ![t] = "locking"]
      /\ key' = [key EXCEPT ![t] = k]
      /\ mutex' = [mutex EXCEPT ![t] = a]
  BY DEF getMutex, TempMutexAssumption
<1>2. TypeOK'
  BY DEF getMutex, TypeOK
<1>3. \A l \in Keys : l # k /\ mutexMap[l] # None => mutexMap[l] # a
  <2>1. CASE mutexMap[k] = None
    BY <1>1, <2>1 DEF getMutex, Allocated, TypeOK
  <2>2. CASE mutexMap[k] # None
    BY <1>1, <2>2 DEF getMutex, OneKeyEach
  <2>3. QED
    BY <2>1, <2>2
<1>4. OneKeyEach'
  BY <1>1, <1>3 DEF OneKeyEach, TypeOK
<1>5. t \notin Users(k) /\ Users(k)' = Users(k) \cup {t}
  BY <1>1 DEF Users, TypeOK
<1>6. \A l \in Keys \ {k} : Users(l)' = Users(l)
  BY <1>1 DEF Users, TypeOK
<1>7. CountsUsers'
  <2> SUFFICES ASSUME NEW l \in Keys
               PROVE  IF mutexMap'[l] = None THEN Users(l)' = {}
                      ELSE refCount'[mutexMap'[l]] = Cardinality(Users(l)') /\ Users(l)' # {}
    BY DEF CountsUsers
  <2>1. CASE l = k
    <3>1. mutexMap'[l] = a
      BY <1>1, <2>1 DEF TypeOK
    <3>2. refCount'[a] = Cardinality(Users(k)) + 1
      <4>1. CASE mutexMap[k] = None
        <5>1. Users(k) = {}
          BY <4>1 DEF CountsUsers
        <5>2. refCount'[a] = 1
          BY <4>1 DEF getMutex, TypeOK
        <5>3. QED
          BY <5>1, <5>2, FS_EmptySet
      <4>2. CASE mutexMap[k] # None
        BY <4>2 DEF getMutex, CountsUsers, TypeOK
      <4>3. QED
        BY <4>1, <4>2
    <3>3. Cardinality(Users(k)') = Cardinality(Users(k)) + 1
      BY <1>5, UsersAdd
    <3>4. QED
      BY <1>1, <1>5, <2>1, <3>1, <3>2, <3>3
  <2>2. CASE l # k
    <3>1. mutexMap'[l] = mutexMap[l]
      BY <1>1, <2>2 DEF TypeOK
    <3>2. mutexMap[l] # None => refCount'[mutexMap[l]] = refCount[mutexMap[l]]
      BY <1>3, <2>2 DEF getMutex, TypeOK
    <3>3. QED
      BY <1>6, <2>2, <3>1, <3>2 DEF CountsUsers
  <2>3. QED
    BY <2>1, <2>2
<1>8. MutexAlive'
  <2> SUFFICES ASSUME NEW u \in Threads, pc'[u] # "idle" PROVE mutex'[u] = mutexMap'[key'[u]]
    BY DEF MutexAlive
  <2>1. CASE u = t
    BY <1>1, <2>1 DEF TypeOK
  <2>2. CASE u # t
    <3>1. mutex[u] = mutexMap[key[u]] /\ mutex'[u] = mutex[u] /\ key'[u] = key[u]
      BY <1>1, <2>2 DEF MutexAlive, TypeOK
    <3>2. CASE key[u] # k
      BY <1>1, <3>1, <3>2 DEF TypeOK
    <3>3. CASE key[u] = k
      <4>1. u \in Users(k)
        BY <1>1, <2>2, <3>3 DEF Users, TypeOK
      <4>2. mutexMap[k] # None
        BY <4>1 DEF CountsUsers
      <4>3. mutexMap[k] = a
        BY <4>2 DEF getMutex
      <4>4. QED
        BY <1>1, <3>1, <3>3, <4>3 DEF TypeOK
    <3>4. QED
      BY <3>2, <3>3
  <2>3. QED
    BY <2>1, <2>2
<1>9. LockedIsOwned'
  <2> SUFFICES ASSUME NEW u \in Threads, pc'[u] = "locked" PROVE owner'[mutex'[u]] = u
    BY DEF LockedIsOwned
  <2>1. u # t /\ pc[u] = "locked" /\ mutex'[u] = mutex[u] /\ owner[mutex[u]] = u
    BY <1>1 DEF TypeOK, LockedIsOwned
  <2>2. mutex[u] = mutexMap[key[u]] /\ key[u] \in Keys
    BY <2>1 DEF MutexAlive, TypeOK
  <2>3. mutexMap[key[u]] # None
    <3>1. u \in Users(key[u])
      BY <2>1 DEF Users
    <3>2. QED
      BY <2>2, <3>1 DEF CountsUsers
  <2>4. CASE mutexMap[k] = None
    <3>1. mutex[u] # a
      BY <1>3, <2>2, <2>3, <2>4
    <3>2. QED
      BY <2>1, <2>2, <2>3, <2>4, <3>1 DEF getMutex, TypeOK
  <2>5. CASE mutexMap[k] # None
    BY <2>1, <2>5 DEF getMutex
  <2>6. QED
    BY <2>4, <2>5
<1>10. OwnedIsLocked'
  <2> SUFFICES ASSUME NEW l \in Keys, mutexMap'[l] # None, owner'[mutexMap'[l]] # None
               PROVE  LET u == owner'[mutexMap'[l]] IN pc'[u] = "locked" /\ key'[u] = l
    BY DEF OwnedIsLocked
  <2>1. mutexMap[l] # None /\ owner'[mutexMap'[l]] = owner[mutexMap[l]]
    <3>1. CASE mutexMap[k] = None
      <4>1. owner' = [owner EXCEPT ![a] = None]
        BY <3>1 DEF getMutex
      <4>2. l # k
        BY <1>1, <4>1 DEF TypeOK
      <4>3. mutexMap'[l] = mutexMap[l]
        BY <1>1, <4>2 DEF TypeOK
      <4>4. QED
        BY <1>3, <4>1, <4>2, <4>3 DEF TypeOK
    <3>2. CASE mutexMap[k] # None
      BY <1>1, <3>2 DEF getMutex, TypeOK
    <3>3. QED
      BY <3>1, <3>2
  <2>2. PICK u \in Threads : u = owner[mutexMap[l]]
    BY <2>1 DEF TypeOK
  <2>3. pc[u] = "locked" /\ key[u] = l
    BY <2>1, <2>2 DEF OwnedIsLocked
  <2>4. u # t /\ pc'[u] = pc[u] /\ key'[u] = key[u]
    BY <1>1, <2>3 DEF TypeOK
  <2>5. QED
    BY <2>1, <2>2, <2>3, <2>4
<1>11. QED
  BY <1>2, <1>4, <1>7, <1>8, <1>9, <1>10

(* A thread that uses a key has its mutex, which is in the map.            *)
LEMMA UserHasMutex ==
  ASSUME IInv, NEW t \in Threads, pc[t] # "idle"
  PROVE  /\ key[t] \in Keys /\ mutex[t] = mutexMap[key[t]]
         /\ mutex[t] # None /\ mutex[t] \in Addresses
<1>1. key[t] \in Keys /\ mutex[t] = mutexMap[key[t]]
  BY DEF IInv, TypeOK, MutexAlive
<1>2. t \in Users(key[t])
  BY DEF Users
<1>3. QED
  BY <1>1, <1>2 DEF IInv, CountsUsers, TypeOK

(* lock and release change neither the map nor the counts, and of the      *)
(* threads only whether one of them has its mutex locked.                  *)
LEMMA InvLock ==
  ASSUME TempMutexAssumption, IInv, NEW t \in Threads, lock(t) \/ release(t)
  PROVE  IInv'
<1> USE DEF IInv
<1> DEFINE to == IF pc[t] = "locking" THEN t ELSE None
           place == IF pc[t] = "locking" THEN "locked" ELSE "releasing"
<1>1. /\ pc[t] \in {"locking", "locked"} /\ None \notin Threads
      /\ pc[t] = "locking" => owner[mutex[t]] = None
      /\ owner' = [owner EXCEPT ![mutex[t]] = to]
      /\ pc' = [pc EXCEPT ![t] = place]
      /\ mutexMap' = mutexMap /\ refCount' = refCount /\ key' = key /\ mutex' = mutex
  BY DEF lock, release, TempMutexAssumption
<1>2. /\ key[t] \in Keys /\ mutex[t] = mutexMap[key[t]]
      /\ mutex[t] # None /\ mutex[t] \in Addresses
  BY <1>1, UserHasMutex
<1>3. TypeOK'
  BY <1>1 DEF TypeOK
<1>4. \A k \in Keys : Users(k)' = Users(k)
  BY <1>1 DEF Users, TypeOK
<1>5. CountsUsers'
  BY <1>1, <1>4 DEF CountsUsers
<1>6. MutexAlive' /\ OneKeyEach'
  BY <1>1 DEF MutexAlive, OneKeyEach, TypeOK
<1>7. LockedIsOwned'
  <2> SUFFICES ASSUME NEW u \in Threads, pc'[u] = "locked" PROVE owner'[mutex[u]] = u
    BY <1>1 DEF LockedIsOwned
  <2>1. CASE u = t
    BY <1>1, <1>2, <2>1 DEF TypeOK
  <2>2. CASE u # t
    <3>1. pc[u] = "locked" /\ owner[mutex[u]] = u
      BY <1>1, <2>2 DEF TypeOK, LockedIsOwned
    <3>2. mutex[u] # mutex[t]
      BY <1>1, <2>2, <3>1 DEF LockedIsOwned
    <3>3. QED
      BY <1>1, <1>2, <3>1, <3>2 DEF TypeOK
  <2>3. QED
    BY <2>1, <2>2
<1>8. OwnedIsLocked'
  <2> SUFFICES ASSUME NEW l \in Keys, mutexMap[l] # None, owner'[mutexMap[l]] # None
               PROVE  LET u == owner'[mutexMap[l]] IN pc'[u] = "locked" /\ key[u] = l
    BY <1>1 DEF OwnedIsLocked
  <2>1. CASE l = key[t]
    <3>1. owner'[mutexMap[l]] = to
      BY <1>1, <1>2, <2>1 DEF TypeOK
    <3>2. to = t /\ pc[t] = "locking"
      BY <3>1
    <3>3. pc'[t] = "locked"
      BY <1>1, <3>2 DEF TypeOK
    <3>4. QED
      BY <2>1, <3>1, <3>2, <3>3
  <2>2. CASE l # key[t]
    <3>1. mutexMap[l] # mutex[t]
      BY <1>2, <2>2 DEF OneKeyEach
    <3>2. owner'[mutexMap[l]] = owner[mutexMap[l]]
      BY <1>1, <3>1 DEF TypeOK
    <3>3. PICK u \in Threads : u = owner[mutexMap[l]]
      BY <3>2 DEF TypeOK
    <3>4. pc[u] = "locked" /\ key[u] = l
      BY <3>2, <3>3 DEF OwnedIsLocked
    <3>5. pc'[u] = "locked"
      BY <1>1, <2>2, <3>4 DEF TypeOK
    <3>6. QED
      BY <3>2, <3>3, <3>4, <3>5
  <2>3. QED
    BY <2>1, <2>2
<1>9. QED
  BY <1>3, <1>5, <1>6, <1>7, <1>8

(* releaseMutex: the mutex that is found by the key is the one that was    *)
(* locked, and it is deleted when its user was the last.                   *)
LEMMA InvReleaseMutex ==
  ASSUME TempMutexAssumption, IInv, NEW t \in Threads, releaseMutex(t)
  PROVE  IInv'
<1> USE DEF IInv
<1>1. pc[t] = "releasing" /\ None \notin Threads /\ None \notin Addresses
  BY DEF releaseMutex, TempMutexAssumption
<1>2. PICK k \in Keys, a \in Addresses :
        key[t] = k /\ mutex[t] = a /\ mutexMap[k] = a /\ a # None
  BY <1>1, UserHasMutex
<1>3. /\ refCount' = [refCount EXCEPT ![a] = refCount[a] - 1]
      /\ mutexMap' = [mutexMap EXCEPT ![k] = IF refCount'[a] = 0 THEN None ELSE a]
      /\ pc' = [pc EXCEPT ![t] = "idle"]
      /\ mutex' = [mutex EXCEPT ![t] = None]
      /\ owner' = owner /\ key' = key
  BY <1>2 DEF releaseMutex, LastUser, dec
<1>4. t \in Users(k) /\ Users(k)' = Users(k) \ {t}
  BY <1>1, <1>2, <1>3 DEF Users, TypeOK
<1>5. \A l \in Keys \ {k} : Users(l)' = Users(l)
  BY <1>2, <1>3 DEF Users, TypeOK
<1>6. /\ refCount'[a] = Cardinality(Users(k)') /\ refCount'[a] \in Nat
      /\ refCount'[a] = 0 <=> Users(k)' = {}
  <2>1. refCount[a] = Cardinality(Users(k))
    BY <1>2 DEF CountsUsers
  <2>2. refCount'[a] = refCount[a] - 1
    BY <1>2, <1>3 DEF TypeOK
  <2>3. /\ Cardinality(Users(k) \ {t}) = Cardinality(Users(k)) - 1
        /\ Cardinality(Users(k) \ {t}) \in Nat
        /\ Cardinality(Users(k) \ {t}) = 0 <=> Users(k) \ {t} = {}
    BY <1>4, UsersRemove
  <2>4. QED
    BY <1>4, <2>1, <2>2, <2>3
<1>7. TypeOK'
  BY <1>2, <1>3, <1>6 DEF TypeOK
<1>8. \A l \in Keys : l # k => mutexMap'[l] = mutexMap[l] /\ (mutexMap[l] # None => mutexMap[l] # a)
  BY <1>2, <1>3 DEF TypeOK, OneKeyEach
<1>9. mutexMap'[k] = IF refCount'[a] = 0 THEN None ELSE a
  BY <1>2, <1>3 DEF TypeOK
<1>10. OneKeyEach'
  BY <1>8, <1>9 DEF OneKeyEach
<1>11. CountsUsers'
  <2> SUFFICES ASSUME NEW l \in Keys
               PROVE  IF mutexMap'[l] = None THEN Users(l)' = {}
                      ELSE refCount'[mutexMap'[l]] = Cardinality(Users(l)') /\ Users(l)' # {}
    BY DEF CountsUsers
  <2>1. CASE l = k
    BY <1>2, <1>6, <1>9, <2>1
  <2>2. CASE l # k
    <3>1. mutexMap[l] # None => refCount'[mutexMap[l]] = refCount[mutexMap[l]]
      BY <1>3, <1>8, <2>2 DEF TypeOK
    <3>2. QED
      BY <1>5, <1>8, <2>2, <3>1 DEF CountsUsers
  <2>3. QED
    BY <2>1, <2>2
<1>12. MutexAlive'
  <2> SUFFICES ASSUME NEW u \in Threads, pc'[u] # "idle" PROVE mutex'[u] = mutexMap'[key'[u]]
    BY DEF MutexAlive
  <2>1. u # t /\ pc[u] # "idle" /\ mutex'[u] = mutex[u] /\ key'[u] = key[u] /\ key[u] \in Keys
    BY <1>3 DEF TypeOK
  <2>2. mutex[u] = mutexMap[key[u]]
    BY <2>1 DEF MutexAlive
  <2>3. CASE key[u] = k
    <3>1. u \in Users(k)'
      BY <2>1, <2>3 DEF Users
    <3>2. mutexMap'[k] = a
      BY <1>6, <1>9, <3>1
    <3>3. QED
      BY <1>2, <2>1, <2>2, <2>3, <3>2
  <2>4. CASE key[u] # k
    BY <1>8, <2>1, <2>2, <2>4
  <2>5. QED
    BY <2>3, <2>4
<1>13. LockedIsOwned'
  BY <1>1, <1>3 DEF LockedIsOwned, TypeOK
<1>14. OwnedIsLocked'
  <2> SUFFICES ASSUME NEW l \in Keys, mutexMap'[l] # None, owner[mutexMap'[l]] # None
               PROVE  LET u == owner[mutexMap'[l]] IN pc'[u] = "locked" /\ key[u] = l
    BY <1>3 DEF OwnedIsLocked
  <2>1. mutexMap'[l] = mutexMap[l]
    BY <1>2, <1>8, <1>9
  <2>2. PICK u \in Threads : u = owner[mutexMap[l]]
    BY <2>1 DEF TypeOK
  <2>3. pc[u] = "locked" /\ key[u] = l
    BY <2>1, <2>2 DEF OwnedIsLocked
  <2>4. pc'[u] = "locked"
    BY <1>1, <1>3, <2>3 DEF TypeOK
  <2>5. QED
    BY <2>1, <2>2, <2>3, <2>4
<1>15. QED
  BY <1>7, <1>10, <1>11, <1>12, <1>13, <1>14

LEMMA InvStep == TempMutexAssumption /\ IInv /\ [Next]_vars => IInv'
<1> SUFFICES ASSUME TempMutexAssumption, IInv, [Next]_vars PROVE IInv'
  OBVIOUS
<1>1. ASSUME NEW t \in Threads, NEW k \in Keys, NEW a \in Addresses, getMutex(t, k, a)
      PROVE  IInv'
  BY <1>1, InvGet
<1>2. ASSUME NEW t \in Threads, lock(t) \/ release(t) PROVE IInv'
  BY <1>2, InvLock
<1>3. ASSUME NEW t \in Threads, releaseMutex(t) PROVE IInv'
  BY <1>3, InvReleaseMutex
<1>4. CASE UNCHANGED vars
  <2>1. \A k \in Keys : Users(k)' = Users(k)
    BY <1>4 DEF vars, Users
  <2>2. CountsUsers'
    BY <1>4, <2>1 DEF vars, IInv, CountsUsers
  <2>3. QED
    BY <1>4, <2>2 DEF vars, IInv, TypeOK, MutexAlive, OneKeyEach, LockedIsOwned, OwnedIsLocked
<1>5. QED
  BY <1>1, <1>2, <1>3, <1>4 DEF Next

LEMMA InvAlways == TempMutexAssumption => (Spec => []IInv)
<1> SUFFICES ASSUME TempMutexAssumption PROVE Spec => []IInv
  OBVIOUS
<1>1. QED
  BY InvInit, InvStep, PTL DEF Spec

(* For any threads, keys and addresses: a mutex is never counted below     *)
(* zero, and no state of a thread refers to what is no address.            *)
THEOREM TypeCorrect == ASSUME TempMutexAssumption PROVE Spec => []TypeOK
<1>1. IInv => TypeOK
  BY DEF IInv
<1>2. QED
  BY <1>1, InvAlways, PTL

-----------------------------------------------------------------------------
(* The refinement.  A key is held by the one thread that is between lock   *)
(* and release with it.                                                    *)
LEMMA OneHolder ==
  ASSUME TempMutexAssumption, IInv, NEW k \in Keys
  PROVE  /\ \A t \in Threads : HolderOf(k) = t <=> pc[t] = "locked" /\ key[t] = k
         /\ HolderOf(k) \in Threads \cup {None}
<1>1. ASSUME NEW t \in Threads, NEW u \in Threads,
             pc[t] = "locked" /\ key[t] = k, pc[u] = "locked" /\ key[u] = k
      PROVE  t = u
  BY <1>1 DEF IInv, LockedIsOwned, MutexAlive
<1>2. None \notin Threads
  BY DEF TempMutexAssumption
<1>3. CASE \E t \in Threads : pc[t] = "locked" /\ key[t] = k
  <2>1. HolderOf(k) \in Threads /\ pc[HolderOf(k)] = "locked" /\ key[HolderOf(k)] = k
    BY <1>3 DEF HolderOf
  <2>2. QED
    BY <1>1, <2>1
<1>4. CASE ~\E t \in Threads : pc[t] = "locked" /\ key[t] = k
  BY <1>2, <1>4 DEF HolderOf
<1>5. QED
  BY <1>3, <1>4

LEMMA OneHolderNext ==
  ASSUME TempMutexAssumption, IInv', NEW k \in Keys
  PROVE  /\ \A t \in Threads : HolderOf(k)' = t <=> pc'[t] = "locked" /\ key'[t] = k
         /\ HolderOf(k)' \in Threads \cup {None}
<1>1. TempMutexAssumption'
  BY DEF TempMutexAssumption
<1>2. (IInv /\ TempMutexAssumption =>
         /\ \A t \in Threads : HolderOf(k) = t <=> pc[t] = "locked" /\ key[t] = k
         /\ HolderOf(k) \in Threads \cup {None})'
  BY OneHolder, PTL
<1>3. QED
  BY <1>1, <1>2

(* HolderOf in the next state, from the threads that stay locked.          *)
LEMMA HolderKept ==
  ASSUME TempMutexAssumption, IInv, IInv', NEW k \in Keys,
         \A t \in Threads : (pc'[t] = "locked" /\ key'[t] = k) <=> (pc[t] = "locked" /\ key[t] = k)
  PROVE  HolderOf(k)' = HolderOf(k)
<1>1. /\ \A t \in Threads : HolderOf(k) = t <=> pc[t] = "locked" /\ key[t] = k
      /\ HolderOf(k) \in Threads \cup {None}
  BY OneHolder
<1>2. /\ \A t \in Threads : HolderOf(k)' = t <=> pc'[t] = "locked" /\ key'[t] = k
      /\ HolderOf(k)' \in Threads \cup {None}
  BY OneHolderNext
<1>3. None \notin Threads
  BY DEF TempMutexAssumption
<1>4. QED
  BY <1>1, <1>2, <1>3

LEMMA RefinesInit == TempMutexAssumption /\ Init => Abstract!Init
<1> SUFFICES ASSUME TempMutexAssumption, Init PROVE Abstract!Init
  OBVIOUS
<1>1. \A k \in Keys : HolderOf(k) = None
  BY DEF Init, HolderOf
<1>2. QED
  BY <1>1 DEF Init, Abstract!Init

(* getMutex asks for the key.                                              *)
LEMMA GetAsks ==
  ASSUME TempMutexAssumption, IInv, IInv',
         NEW t \in Threads, NEW k \in Keys, NEW a \in Addresses, getMutex(t, k, a)
  PROVE  Abstract!Ask(t, k)
<1>1. /\ pc[t] = "idle"
      /\ pc' = [pc EXCEPT ![t] = "locking"]
      /\ key' = [key EXCEPT ![t] = k]
      /\ pc \in [Threads -> {"idle", "locking", "locked", "releasing"}]
      /\ key \in [Threads -> Keys]
  BY DEF getMutex, IInv, TypeOK
<1>2. \A l \in Keys : HolderOf(l)' = HolderOf(l)
  BY <1>1, HolderKept
<1>3. \A l \in Keys : HolderOf(l) # t
  BY <1>1, OneHolder
<1>4. [u \in Threads |-> IF pc'[u] = "locking" THEN {key'[u]} ELSE {}]
        = [[u \in Threads |-> IF pc[u] = "locking" THEN {key[u]} ELSE {}] EXCEPT ![t] = {k}]
  BY <1>1
<1>5. [l \in Keys |-> HolderOf(l)'] = [l \in Keys |-> HolderOf(l)]
  BY <1>2
<1>6. QED
  BY <1>1, <1>3, <1>4, <1>5 DEF Abstract!Ask, Abstract!Idle

(* lock acquires it: the mutex of the key is free, so nobody holds it.     *)
LEMMA LockAcquires ==
  ASSUME TempMutexAssumption, IInv, IInv', NEW t \in Threads, NEW k \in Keys, k = key[t], lock(t)
  PROVE  Abstract!Acquire(t, k)
<1>1. /\ pc[t] = "locking" /\ owner[mutex[t]] = None
      /\ pc' = [pc EXCEPT ![t] = "locked"] /\ key' = key
      /\ pc \in [Threads -> {"idle", "locking", "locked", "releasing"}]
      /\ key \in [Threads -> Keys] /\ None \notin Threads
  BY DEF lock, IInv, TypeOK, TempMutexAssumption
<1>2. k = key[t]
  OBVIOUS
<1>3. HolderOf(k) = None
  <2> SUFFICES ASSUME NEW u \in Threads, HolderOf(k) = u PROVE FALSE
    BY OneHolder
  <2>1. pc[u] = "locked" /\ key[u] = k
    BY OneHolder
  <2>2. mutex[u] = mutex[t]
    BY <1>1, <1>2, <2>1 DEF IInv, MutexAlive
  <2>3. QED
    BY <1>1, <2>1, <2>2 DEF IInv, LockedIsOwned
<1>4. HolderOf(k)' = t
  <2>1. pc'[t] = "locked" /\ key'[t] = k
    BY <1>1, <1>2
  <2>2. QED
    BY <2>1, OneHolderNext
<1>5. \A l \in Keys \ {k} : HolderOf(l)' = HolderOf(l)
  BY <1>1, <1>2, HolderKept
<1>6. [l \in Keys |-> HolderOf(l)'] = [[l \in Keys |-> HolderOf(l)] EXCEPT ![k] = t]
  BY <1>4, <1>5
<1>7. [u \in Threads |-> IF pc'[u] = "locking" THEN {key'[u]} ELSE {}]
        = [[u \in Threads |-> IF pc[u] = "locking" THEN {key[u]} ELSE {}] EXCEPT ![t] = {}]
  BY <1>1
<1>8. QED
  BY <1>1, <1>2, <1>3, <1>6, <1>7 DEF Abstract!Acquire

(* release gives it back.                                                  *)
LEMMA ReleaseGivesBack ==
  ASSUME TempMutexAssumption, IInv, IInv', NEW t \in Threads, NEW k \in Keys, k = key[t], release(t)
  PROVE  Abstract!GiveBack(t, k)
<1>1. /\ pc[t] = "locked"
      /\ pc' = [pc EXCEPT ![t] = "releasing"] /\ key' = key
      /\ pc \in [Threads -> {"idle", "locking", "locked", "releasing"}]
      /\ key \in [Threads -> Keys] /\ None \notin Threads
  BY DEF release, IInv, TypeOK, TempMutexAssumption
<1>2. k = key[t]
  OBVIOUS
<1>3. HolderOf(k) = t
  BY <1>1, <1>2, OneHolder
<1>4. HolderOf(k)' = None
  <2>1. \A u \in Threads : ~(pc'[u] = "locked" /\ key'[u] = k)
    <3> SUFFICES ASSUME NEW u \in Threads, pc'[u] = "locked", key'[u] = k PROVE FALSE
      OBVIOUS
    <3>1. u # t /\ pc[u] = "locked" /\ key[u] = k
      BY <1>1
    <3>2. HolderOf(k) = u
      BY <3>1, OneHolder
    <3>3. QED
      BY <1>3, <3>1, <3>2
  <2>2. QED
    BY <2>1 DEF HolderOf
<1>5. \A l \in Keys \ {k} : HolderOf(l)' = HolderOf(l)
  BY <1>1, <1>2, HolderKept
<1>6. [l \in Keys |-> HolderOf(l)'] = [[l \in Keys |-> HolderOf(l)] EXCEPT ![k] = None]
  BY <1>4, <1>5
<1>7. [u \in Threads |-> IF pc'[u] = "locking" THEN {key'[u]} ELSE {}]
        = [u \in Threads |-> IF pc[u] = "locking" THEN {key[u]} ELSE {}]
  BY <1>1
<1>8. QED
  BY <1>2, <1>3, <1>6, <1>7 DEF Abstract!GiveBack

(* Giving back the TempMutex itself is not seen.                           *)
LEMMA ReleaseMutexUnseen ==
  ASSUME TempMutexAssumption, IInv, IInv', NEW t \in Threads, releaseMutex(t)
  PROVE  UNCHANGED Abstract!vars
<1>1. /\ pc[t] = "releasing" /\ pc' = [pc EXCEPT ![t] = "idle"] /\ key' = key
      /\ pc \in [Threads -> {"idle", "locking", "locked", "releasing"}]
      /\ key \in [Threads -> Keys]
  BY DEF releaseMutex, IInv, TypeOK
<1>2. \A l \in Keys : HolderOf(l)' = HolderOf(l)
  BY <1>1, HolderKept
<1>3. [l \in Keys |-> HolderOf(l)'] = [l \in Keys |-> HolderOf(l)]
  BY <1>2
<1>4. [u \in Threads |-> IF pc'[u] = "locking" THEN {key'[u]} ELSE {}]
        = [u \in Threads |-> IF pc[u] = "locking" THEN {key[u]} ELSE {}]
  BY <1>1
<1>5. QED
  BY <1>3, <1>4 DEF Abstract!vars

LEMMA RefinesStep ==
  TempMutexAssumption /\ IInv /\ IInv' /\ [Next]_vars => [Abstract!Next]_(Abstract!vars)
<1> SUFFICES ASSUME TempMutexAssumption, IInv, IInv', [Next]_vars
             PROVE  [Abstract!Next]_(Abstract!vars)
  OBVIOUS
<1>1. ASSUME NEW t \in Threads, NEW k \in Keys, NEW a \in Addresses, getMutex(t, k, a)
      PROVE  Abstract!Next
  BY <1>1, GetAsks DEF Abstract!Next
<1>2. ASSUME NEW t \in Threads, lock(t)
      PROVE  Abstract!Next
  <2>1. PICK k \in Keys : k = key[t]
    BY DEF IInv, TypeOK
  <2>2. Abstract!Acquire(t, k)
    BY <1>2, <2>1, LockAcquires
  <2>3. QED
    BY <2>2 DEF Abstract!Next
<1>3. ASSUME NEW t \in Threads, release(t)
      PROVE  Abstract!Next
  <2>1. PICK k \in Keys : k = key[t]
    BY DEF IInv, TypeOK
  <2>2. Abstract!GiveBack(t, k)
    BY <1>3, <2>1, ReleaseGivesBack
  <2>3. QED
    BY <2>2 DEF Abstract!Next
<1>4. ASSUME NEW t \in Threads, releaseMutex(t)
      PROVE  UNCHANGED Abstract!vars
  BY <1>4, ReleaseMutexUnseen
<1>5. CASE UNCHANGED vars
  BY <1>5 DEF vars, Abstract!vars, HolderOf
<1>6. QED
  BY <1>1, <1>2, <1>3, <1>4, <1>5 DEF Next

(* For any threads, keys and addresses TempMutexManager::Lock implements a *)
(* lock per key: whoever is between lock and release of a key is alone     *)
(* there, although the mutex of a key is made, deleted and made again at   *)
(* an address another key's had.  The count of a key's mutex is that of    *)
(* its users, and nobody waits for, holds or gives back a deleted one.     *)
THEOREM ImplementsKeyedLock == ASSUME TempMutexAssumption PROVE Spec => ActsAsKeyedLock
<1>1. IInv => CountsUsers /\ MutexAlive
  BY DEF IInv
<1>2. QED
  BY <1>1, InvAlways, RefinesInit, RefinesStep, PTL DEF Spec, Abstract!Spec, ActsAsKeyedLock
==============================================================================
