---------------------------- MODULE LibraryProofs ----------------------------
(***************************************************************************)
(* What the run LibrarySafety checks of the components whose promises are  *)
(* proved: the theorems of ReadWriteLockProofs, ObjectCacheProofs,         *)
(* TempMutexProofs, ConnectionPoolProofs and ClusterClientProofs carry     *)
(* over to their instances in MCLibrary.                                   *)
(*                                                                         *)
(* The argument is the same for each.  A behaviour of the suite is one of  *)
(* a single part; if it is the component's, then Init and Next of the      *)
(* suite are those of its instance, and the part stays what it is.         *)
(***************************************************************************)
EXTENDS MCLibrary, TLAPS

OfLock == part = "lock"
OfCache == part = "cache"
OfCacheApart == part = "cacheApart"
OfMutexes == part = "mutexes"
OfDbPool == part = "dbPool"
OfClient == part = "client"

(* No step takes a behaviour from one part to another.                     *)
LEMMA PartStays ==
  ASSUME [Next]_vars
  PROVE  /\ OfLock <=> OfLock'
         /\ OfCache <=> OfCache'
         /\ OfCacheApart <=> OfCacheApart'
         /\ OfMutexes <=> OfMutexes'
         /\ OfDbPool <=> OfDbPool'
         /\ OfClient <=> OfClient'
<1>1. part' = part
  BY DEF Next, BaseNext, Moves, vars
<1>2. QED
  BY <1>1 DEF OfLock, OfCache, OfCacheApart, OfMutexes, OfDbPool, OfClient

(* ReadWriteLock in the suite: a writer is alone, the counters are exact   *)
(* and no thread sleeps that nobody will wake, by LockIsSound.             *)
THEOREM LockOfSuiteSound == Spec => []LockSound
<1>1. Lock!ThreadsAssumption
  BY BaseAssumption
<1>2. Lock!Spec => []Lock!LockSound
  BY <1>1, Lock!LockIsSound
<1>3. Init /\ OfLock => Lock!Init
  BY DEF Init, BaseInit, Begins, OfLock
<1>4. [Next]_vars /\ OfLock => [Lock!Next]_Lock!vars
  BY DEF Next, BaseNext, Moves, OfLock, vars, Lock!vars
<1>5. (OfLock => Lock!LockSound) => LockSound
  BY DEF LockSound, OfLock
<1>6. QED
  BY <1>2, <1>3, <1>4, <1>5, PartStays, PTL DEF Spec, Lock!Spec

(* ObjectFactory::create and ObjectEvictor in the suite: requests count    *)
(* their waiters and are finished by their tasks, and wrong or stale       *)
(* objects come only where ids are cut or a creation overlaps a change, by *)
(* CacheIsSound.                                                           *)
THEOREM CacheOfSuiteSound == Spec => []CacheSound
<1>1. Cache!CacheAssumption /\ CacheApart!CacheAssumption
  BY LibraryAssumption
<1>2. Cache!Spec => []Cache!CacheSound
  BY <1>1, Cache!CacheIsSound
<1>3. Init /\ OfCache => Cache!Init
  BY DEF Init, BaseInit, Begins, OfCache
<1>4. [Next]_vars /\ OfCache => [Cache!Next]_Cache!vars
  BY DEF Next, BaseNext, Moves, OfCache, vars, Cache!vars
<1>5. CacheApart!Spec => []CacheApart!CacheSound
  BY <1>1, CacheApart!CacheIsSound
<1>6. Init /\ OfCacheApart => CacheApart!Init
  BY DEF Init, BaseInit, Begins, OfCacheApart
<1>7. [Next]_vars /\ OfCacheApart => [CacheApart!Next]_CacheApart!vars
  BY DEF Next, BaseNext, Moves, OfCacheApart, vars, CacheApart!vars
<1>8. (OfCache => Cache!CacheSound) /\ (OfCacheApart => CacheApart!CacheSound) => CacheSound
  BY DEF CacheSound, OfCache, OfCacheApart
<1>9. QED
  BY <1>2, <1>3, <1>4, <1>5, <1>6, <1>7, <1>8, PartStays, PTL
     DEF Spec, Cache!Spec, CacheApart!Spec

(* TempMutexManager::Lock in the suite: every step of the temporary        *)
(* mutexes is one of a lock per key, their counts are exact and no deleted *)
(* mutex is used, by ImplementsKeyedLock.                                  *)
THEOREM MutexesOfSuiteImplement == Spec => ActsAsKeyedLock
<1>1. Mutexes!TempMutexAssumption
  BY LibraryAssumption
<1>2. Mutexes!Spec => Mutexes!ActsAsKeyedLock
  BY <1>1, Mutexes!ImplementsKeyedLock
<1>3. Init /\ OfMutexes => Mutexes!Init
  BY DEF Init, BaseInit, Begins, OfMutexes
<1>4. [Next]_vars /\ OfMutexes => [Mutexes!Next]_Mutexes!vars
  BY DEF Next, BaseNext, Moves, OfMutexes, vars, Mutexes!vars
<1>5. OfMutexes <=> part = "mutexes"
  BY DEF OfMutexes
<1>6. Mutexes!Abstract!Init => Mutexes!IsKeyedLockInit
  BY DEF Mutexes!IsKeyedLockInit
<1>7. [Mutexes!Abstract!Next]_(Mutexes!Abstract!vars) => Mutexes!IsKeyedLockStep
  BY DEF Mutexes!IsKeyedLockStep
<1>8. QED
  BY <1>2, <1>3, <1>4, <1>5, <1>6, <1>7, PartStays, PTL
     DEF Spec, Mutexes!Spec, Mutexes!ActsAsKeyedLock, Mutexes!Abstract!Spec, ActsAsKeyedLock

(* ConnectionPool in the suite: the counters agree with the connections in *)
(* use and the idle lists, no more than _max are in use unless two clients *)
(* opened at once, and between two updates at most one read server is      *)
(* taken out, never the last, by PoolCounts.                               *)
THEOREM PoolOfSuiteCounts == Spec => []ConnectionsCounted
<1>1. DbPool!PoolAssumption
  BY LibraryAssumption
<1>2. DbPool!Spec => []DbPool!ConnectionsCounted
  BY <1>1, DbPool!PoolCounts
<1>3. Init /\ OfDbPool => DbPool!Init
  BY DEF Init, BaseInit, Begins, OfDbPool
<1>4. [Next]_vars /\ OfDbPool => [DbPool!Next]_DbPool!vars
  BY DEF Next, BaseNext, Moves, OfDbPool, vars, DbPool!vars,
         DbPool!poolVars, DbPool!clientVars
<1>5. (OfDbPool => DbPool!ConnectionsCounted) => ConnectionsCounted
  BY DEF ConnectionsCounted, OfDbPool
<1>6. QED
  BY <1>2, <1>3, <1>4, <1>5, PartStays, PTL DEF Spec, DbPool!Spec

(* ClientInterface::renew in the suite: when no thread is in it or on its  *)
(* way to it, the tables are those of the state the subscriber was last    *)
(* given, by TablesAreFollowed.                                            *)
THEOREM ClientOfSuiteFollows == Spec => []TablesFollowSubscriber
<1>1. Client!ClientAssumption
  BY LibraryAssumption
<1>2. Client!Spec => []Client!TablesFollowSubscriber
  BY <1>1, Client!TablesAreFollowed
<1>3. Init /\ OfClient => Client!Init
  BY DEF Init, BaseInit, Begins, OfClient
<1>4. [Next]_vars /\ OfClient => [Client!Next]_Client!vars
  BY DEF Next, BaseNext, Moves, OfClient, vars, Client!vars, Client!subscriberVars,
         Client!clientVars, Client!readerVars
<1>5. (OfClient => Client!TablesFollowSubscriber) => TablesFollowSubscriber
  BY DEF TablesFollowSubscriber, OfClient
<1>6. QED
  BY <1>2, <1>3, <1>4, <1>5, PartStays, PTL DEF Spec, Client!Spec

(* Its readers in the suite: one finds nothing only if the tables hold no  *)
(* server of its mod or a renewal replaced them meanwhile, and is given a  *)
(* server of another mod only if it read _cluster before the client was    *)
(* first told of a server, by LookupsAreRight.                             *)
THEOREM ClientOfSuiteLooksUp == Spec => []LookupWrongOnlyByRenewal
<1>1. Client!ClientAssumption
  BY LibraryAssumption
<1>2. Client!Spec => [](Client!NullOnlyByRenewal /\ Client!WrongModOnlyAtStart)
  BY <1>1, Client!LookupsAreRight
<1>3. Init /\ OfClient => Client!Init
  BY DEF Init, BaseInit, Begins, OfClient
<1>4. [Next]_vars /\ OfClient => [Client!Next]_Client!vars
  BY DEF Next, BaseNext, Moves, OfClient, vars, Client!vars, Client!subscriberVars,
         Client!clientVars, Client!readerVars
<1>5. (OfClient => Client!NullOnlyByRenewal /\ Client!WrongModOnlyAtStart)
        => LookupWrongOnlyByRenewal
  BY DEF LookupWrongOnlyByRenewal, OfClient
<1>6. QED
  BY <1>2, <1>3, <1>4, <1>5, PartStays, PTL DEF Spec, Client!Spec
==============================================================================
