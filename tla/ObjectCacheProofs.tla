-------------------------- MODULE ObjectCacheProofs --------------------------
(***************************************************************************)
(* Proofs about ObjectCache, for any threads, ids, chunks and widths of an *)
(* Ice::Int: CacheSound.                                                   *)
(*                                                                         *)
(* A stale object can come into the cache only through a request or a call *)
(* that already has it, so the inductive invariant says of these what      *)
(* StaleOnlyByOverlap says of the cache; and whoever has an object that is *)
(* under way has it under its key, so that remove and add see a creation.  *)
(***************************************************************************)
EXTENDS ObjectCache, FiniteSetTheorems, TLAPS

(* A call knows what it asked for until it ends, and where while it waits. *)
CallsOK ==
  \A t \in Threads :
    /\ result[t] # None <=> pc[t] = "adding"
    /\ pc[t] # "idle" => asked[t] \in Ids
    /\ pc[t] = "waiting" => via[t] \in Chunks

(* What is under way is under way for its key.                             *)
RequestsKeyed ==
  \A f \in Chunks, k \in Keys : requests[f][k] # None =>
    /\ Key(requests[f][k].id) = k
    /\ requests[f][k].object # None => Key(requests[f][k].object.id) = k

ResultsKeyed ==
  \A t \in Threads : result[t] # None => Key(result[t].id) = Key(asked[t])

(* An object that is not older than the last remove or add of its id, or   *)
(* that was being created then.                                            *)
Excused(o) == o.version < removed[o.id] => overlap[o.id]

RequestsExcused ==
  \A f \in Chunks, k \in Keys :
    requests[f][k] # None /\ requests[f][k].object # None => Excused(requests[f][k].object)

ResultsExcused == \A t \in Threads : result[t] # None => Excused(result[t])

RemovedInPast == \A id \in Ids : removed[id] <= source

IInv ==
  /\ TypeOK /\ CallsOK /\ CountsWaiters /\ FinishFindsRequest
  /\ RequestsKeyed /\ ResultsKeyed
  /\ RequestsExcused /\ ResultsExcused /\ StaleOnlyByOverlap /\ RemovedInPast

-----------------------------------------------------------------------------
LEMMA KeyOfId ==
  ASSUME NEW id \in Ids
  PROVE  Key(id) \in Keys
BY DEF Keys

LEMMA ChunkOfId ==
  ASSUME CacheAssumption, NEW id \in Ids
  PROVE  Chunk(id) \in Chunks
<1>1. id \in Nat /\ ChunkSize \in Nat /\ ChunkSize > 0
  BY DEF CacheAssumption
<1>2. QED
  BY <1>1 DEF Chunk, Chunks

(* One entry of a table with a row for every chunk is set.                 *)
LEMMA EntrySet ==
  ASSUME NEW T, NEW q \in [Chunks -> [Keys -> T]],
         NEW f \in Chunks, NEW k \in Keys, NEW r \in T,
         NEW p, p = [q EXCEPT ![f][k] = r]
  PROVE  /\ p \in [Chunks -> [Keys -> T]]
         /\ \A g \in Chunks, l \in Keys : p[g][l] = IF g = f /\ l = k THEN r ELSE q[g][l]
OBVIOUS

LEMMA ObjectNow ==
  ASSUME NEW id \in Ids, NEW v \in 0 .. MaxVersion
  PROVE  \E o \in Objects : o = [id |-> id, version |-> v] /\ o.id = id /\ o.version = v
<1>1. [id |-> id, version |-> v] \in Objects
  BY DEF Objects
<1>2. QED
  BY <1>1

(* The calls that wait for a request are finitely many.                    *)
LEMMA WaitersFinite ==
  ASSUME CacheAssumption, NEW f, NEW k
  PROVE  /\ IsFiniteSet(Waiters(f, k)) /\ Cardinality(Waiters(f, k)) \in Nat
         /\ Waiters(f, k) \subseteq Threads
         /\ Cardinality(Threads) \in Nat
BY FS_Subset, FS_CardinalityType DEF Waiters, CacheAssumption

LEMMA WaitersAdd ==
  ASSUME CacheAssumption, NEW f, NEW k, NEW t \in Threads, t \notin Waiters(f, k)
  PROVE  /\ Cardinality(Waiters(f, k) \cup {t}) = Cardinality(Waiters(f, k)) + 1
         /\ Cardinality(Waiters(f, k)) + 1 <= Cardinality(Threads)
<1>1. Cardinality(Waiters(f, k) \cup {t}) = Cardinality(Waiters(f, k)) + 1
  BY WaitersFinite, FS_AddElement
<1>2. Waiters(f, k) \cup {t} \in SUBSET Threads
  BY WaitersFinite
<1>3. Cardinality(Waiters(f, k) \cup {t}) <= Cardinality(Threads)
  BY <1>2, FS_Subset DEF CacheAssumption
<1>4. QED
  BY <1>1, <1>3

LEMMA WaitersRemove ==
  ASSUME CacheAssumption, NEW f, NEW k, NEW t \in Waiters(f, k)
  PROVE  /\ Cardinality(Waiters(f, k) \ {t}) = Cardinality(Waiters(f, k)) - 1
         /\ Cardinality(Waiters(f, k) \ {t}) \in Nat
         /\ Cardinality(Waiters(f, k) \ {t}) = 0 <=> Waiters(f, k) \ {t} = {}
<1>1. IsFiniteSet(Waiters(f, k) \ {t})
  BY WaitersFinite, FS_Subset
<1>2. QED
  BY <1>1, WaitersFinite, FS_RemoveElement, FS_CardinalityType, FS_EmptySet

-----------------------------------------------------------------------------
LEMMA InvInit == CacheAssumption /\ Init => IInv
<1> SUFFICES ASSUME CacheAssumption, Init PROVE IInv
  OBVIOUS
<1>1. TypeOK
  BY DEF TypeOK, Init, CacheAssumption
<1>2. CallsOK /\ ResultsKeyed /\ ResultsExcused
  BY DEF Init, CallsOK, ResultsKeyed, ResultsExcused
<1>3. CountsWaiters /\ FinishFindsRequest /\ RequestsKeyed /\ RequestsExcused
  BY DEF Init, CountsWaiters, Waiters, FinishFindsRequest, RequestsKeyed, RequestsExcused
<1>4. StaleOnlyByOverlap /\ RemovedInPast
  BY DEF Init, StaleOnlyByOverlap, RemovedInPast
<1>5. QED
  BY <1>1, <1>2, <1>3, <1>4 DEF IInv

(* create: a call joins the request of its key or makes one, and a task    *)
(* with it.                                                                *)
LEMMA InvCreate ==
  ASSUME CacheAssumption, IInv, NEW t \in Threads, NEW id \in Ids, NEW f \in Chunks, create(t, id, f)
  PROVE  IInv'
<1>1. PICK k \in Keys : k = Key(id)
  BY KeyOfId
<1>2. /\ pc[t] = "idle"
      /\ pc' = [pc EXCEPT ![t] = "waiting"]
      /\ asked' = [asked EXCEPT ![t] = id]
      /\ via' = [via EXCEPT ![t] = f]
      /\ UNCHANGED <<map, result, source, removed, overlap>>
  BY DEF create
<1>3. t \notin Waiters(f, k)
  BY <1>2 DEF Waiters
<1>4. /\ requests \in [Chunks -> [Keys -> Requests \cup {None}]]
      /\ task \in [Chunks -> [Keys -> {"none", "queued", "handled"}]]
      /\ pc \in [Threads -> {"idle", "waiting", "adding"}]
      /\ asked \in [Threads -> Ids \cup {None}] /\ via \in [Threads -> Chunks \cup {None}]
  BY DEF IInv, TypeOK
<1>5. Waiters(f, k)' = Waiters(f, k) \cup {t}
  BY <1>1, <1>2, <1>4 DEF Waiters
<1>6. \A g \in Chunks, l \in Keys : ~(g = f /\ l = k) => Waiters(g, l)' = Waiters(g, l)
  BY <1>1, <1>2, <1>4 DEF Waiters
<1>7. PICK r \in Requests :
        /\ requests' = [requests EXCEPT ![f][k] = r]
        /\ r.count = Cardinality(Waiters(f, k) \cup {t})
        /\ Key(r.id) = k
        /\ requests[f][k] # None => r.object = requests[f][k].object /\ r.finished = requests[f][k].finished
        /\ requests[f][k] = None => r.object = None /\ ~r.finished
  <2>1. CASE requests[f][k] # None
    <3>1. PICK q \in Requests : q = requests[f][k]
      BY <1>4, <2>1
    <3>2. q.count = Cardinality(Waiters(f, k)) /\ Key(q.id) = k
      BY <2>1, <3>1 DEF IInv, CountsWaiters, RequestsKeyed
    <3>3. q.count + 1 = Cardinality(Waiters(f, k) \cup {t}) /\ q.count + 1 <= Cardinality(Threads)
      BY <1>3, <3>2, WaitersAdd
    <3>4. q.count \in Nat /\ Cardinality(Threads) \in Nat
      BY <3>2, WaitersFinite
    <3>5. q.count + 1 \in 1 .. Cardinality(Threads)
      BY <3>3, <3>4
    <3>6. PICK r : r = [q EXCEPT !.count = q.count + 1]
      OBVIOUS
    <3>7. /\ r \in Requests /\ r.count = q.count + 1 /\ r.id = q.id
          /\ r.object = q.object /\ r.finished = q.finished
      BY <3>1, <3>5, <3>6 DEF Requests
    <3>8. requests' = [requests EXCEPT ![f][k] = r]
      BY <1>1, <1>4, <2>1, <3>1, <3>6 DEF create, Join
    <3>9. QED
      BY <2>1, <3>1, <3>2, <3>3, <3>7, <3>8
  <2>2. CASE requests[f][k] = None
    <3>1. Waiters(f, k) = {}
      BY <2>2 DEF IInv, CountsWaiters
    <3>2. Cardinality(Waiters(f, k) \cup {t}) = 1 /\ 1 <= Cardinality(Threads)
      BY <1>3, <3>1, WaitersAdd, FS_EmptySet
    <3>3. 1 \in 1 .. Cardinality(Threads)
      BY <3>2, WaitersFinite
    <3>4. PICK r : r = [id |-> id, finished |-> FALSE, count |-> 1, object |-> None]
      OBVIOUS
    <3>5. r \in Requests
      BY <3>3, <3>4 DEF Requests
    <3>6. requests' = [requests EXCEPT ![f][k] = r]
      BY <1>1, <2>2, <3>4 DEF create
    <3>7. QED
      BY <1>1, <2>2, <3>2, <3>4, <3>5, <3>6
  <2>3. QED
    BY <2>1, <2>2
<1>8. /\ requests' \in [Chunks -> [Keys -> Requests \cup {None}]]
      /\ \A g \in Chunks, l \in Keys :
           requests'[g][l] = IF g = f /\ l = k THEN r ELSE requests[g][l]
  BY <1>4, <1>7, EntrySet
<1>9. /\ task' \in [Chunks -> [Keys -> {"none", "queued", "handled"}]]
      /\ \A g \in Chunks, l \in Keys :
           task'[g][l] = IF g = f /\ l = k /\ requests[f][k] = None THEN "queued" ELSE task[g][l]
  <2>1. CASE requests[f][k] # None
    <3>1. task' = task
      BY <1>1, <2>1 DEF create
    <3>2. QED
      BY <1>4, <2>1, <3>1
  <2>2. CASE requests[f][k] = None
    <3>1. task' = [task EXCEPT ![f][k] = "queued"]
      BY <1>1, <2>2 DEF create
    <3>2. QED
      BY <1>4, <2>2, <3>1, EntrySet
  <2>3. QED
    BY <2>1, <2>2
<1>10. r # None /\ None \notin Requests
  BY <1>7 DEF CacheAssumption
<1>11. TypeOK'
  BY <1>2, <1>8, <1>9 DEF IInv, TypeOK
<1>12. CallsOK'
  BY <1>2, <1>4 DEF IInv, CallsOK
<1>13. CountsWaiters'
  <2> SUFFICES ASSUME NEW g \in Chunks, NEW l \in Keys
               PROVE  IF requests'[g][l] = None THEN Waiters(g, l)' = {}
                      ELSE /\ requests'[g][l].count = Cardinality(Waiters(g, l)')
                           /\ Waiters(g, l)' # {}
    BY DEF CountsWaiters
  <2>1. CASE g = f /\ l = k
    BY <1>5, <1>7, <1>8, <1>10, <2>1
  <2>2. CASE ~(g = f /\ l = k)
    <3>1. requests'[g][l] = requests[g][l] /\ Waiters(g, l)' = Waiters(g, l)
      BY <1>6, <1>8, <2>2
    <3>2. QED
      BY <3>1 DEF IInv, CountsWaiters
  <2>3. QED
    BY <2>1, <2>2
<1>14. FinishFindsRequest'
  BY <1>7, <1>8, <1>9, <1>10 DEF IInv, FinishFindsRequest
<1>15. RequestsKeyed' /\ ResultsKeyed'
  <2>1. RequestsKeyed'
    BY <1>7, <1>8, <1>10 DEF IInv, RequestsKeyed
  <2>2. ResultsKeyed'
    BY <1>2, <1>4 DEF IInv, ResultsKeyed, CallsOK
  <2>3. QED
    BY <2>1, <2>2
<1>16. RequestsExcused'
  BY <1>2, <1>7, <1>8 DEF IInv, RequestsExcused, Excused
<1>17. ResultsExcused' /\ StaleOnlyByOverlap' /\ RemovedInPast'
  BY <1>2 DEF IInv, ResultsExcused, Excused, StaleOnlyByOverlap, RemovedInPast
<1>18. QED
  BY <1>11, <1>12, <1>13, <1>14, <1>15, <1>16, <1>17 DEF IInv

(* The end of create's loop: the request is there, since the call waits    *)
(* for it, and goes with the last call that does.                          *)
LEMMA InvCreateReturns ==
  ASSUME CacheAssumption, IInv, NEW t \in Threads, createReturns(t)
  PROVE  IInv'
<1>1. pc[t] = "waiting" /\ result[t] = None
  BY DEF createReturns, IInv, CallsOK
<1>2. PICK f \in Chunks : f = via[t]
  BY <1>1 DEF IInv, CallsOK
<1>3. PICK k \in Keys : k = Key(asked[t]) /\ asked[t] \in Ids
  BY <1>1, KeyOfId DEF IInv, CallsOK
<1>4. /\ requests \in [Chunks -> [Keys -> Requests \cup {None}]]
      /\ pc \in [Threads -> {"idle", "waiting", "adding"}]
      /\ asked \in [Threads -> Ids \cup {None}] /\ via \in [Threads -> Chunks \cup {None}]
      /\ result \in [Threads -> Objects \cup {None}]
  BY DEF IInv, TypeOK
<1>5. t \in Waiters(f, k)
  BY <1>1, <1>2, <1>3 DEF Waiters
<1>6. PICK q \in Requests : q = requests[f][k] /\ q # None
  <2>1. requests[f][k] # None
    BY <1>5 DEF IInv, CountsWaiters
  <2>2. QED
    BY <1>4, <2>1
<1>7. q.count = Cardinality(Waiters(f, k)) /\ Key(q.id) = k
  BY <1>6 DEF IInv, CountsWaiters, RequestsKeyed
<1>8. /\ q.finished
      /\ requests' = [requests EXCEPT ![f][k] =
                        IF LastWaiter(q.count - 1) THEN None ELSE [q EXCEPT !.count = q.count - 1]]
      /\ via' = [via EXCEPT ![t] = None]
      /\ UNCHANGED <<map, task, source, removed, overlap>>
  BY <1>2, <1>3, <1>6 DEF createReturns
<1>9. \/ /\ q.object = None
         /\ pc' = [pc EXCEPT ![t] = "idle"] /\ asked' = [asked EXCEPT ![t] = None]
         /\ result' = result
      \/ /\ q.object # None
         /\ pc' = [pc EXCEPT ![t] = "adding"] /\ asked' = asked
         /\ result' = [result EXCEPT ![t] = q.object]
  BY <1>2, <1>3, <1>6 DEF createReturns
<1>10. q.object \in Objects \cup {None} /\ q.count \in 1 .. Cardinality(Threads)
  BY DEF Requests
<1>11. Waiters(f, k)' = Waiters(f, k) \ {t}
  BY <1>1, <1>4, <1>9, <1>8 DEF Waiters
<1>12. \A g \in Chunks, l \in Keys : ~(g = f /\ l = k) => Waiters(g, l)' = Waiters(g, l)
  BY <1>2, <1>3, <1>1, <1>4, <1>9, <1>8 DEF Waiters
<1>13. PICK r \in Requests \cup {None} :
         /\ requests' = [requests EXCEPT ![f][k] = r]
         /\ r = None => Waiters(f, k) \ {t} = {}
         /\ r # None => /\ r.count = Cardinality(Waiters(f, k) \ {t}) /\ Waiters(f, k) \ {t} # {}
                        /\ r.id = q.id /\ r.object = q.object /\ r.finished
  <2>1. /\ Cardinality(Waiters(f, k) \ {t}) = q.count - 1 /\ q.count - 1 \in Nat
        /\ q.count - 1 = 0 <=> Waiters(f, k) \ {t} = {}
    <3>1. PICK S : S = Waiters(f, k) \ {t}
      OBVIOUS
    <3>2. Cardinality(S) = q.count - 1 /\ Cardinality(S) \in Nat
      BY <1>5, <1>7, <3>1, WaitersRemove
    <3>3. IsFiniteSet(S)
      BY <3>1, FS_Subset, WaitersFinite
    <3>4. Cardinality(S) = 0 <=> S = {}
      BY <3>3, FS_EmptySet
    <3>5. QED
      BY <3>1, <3>2, <3>4
  <2>2. Cardinality(Threads) \in Nat
    BY WaitersFinite
  <2>3. CASE q.count - 1 = 0
    <3>1. LastWaiter(q.count - 1)
      BY <2>3 DEF LastWaiter
    <3>2. QED
      BY <1>8, <2>1, <2>3, <3>1
  <2>4. CASE q.count - 1 # 0
    <3>1. ~LastWaiter(q.count - 1) /\ q.count - 1 \in 1 .. Cardinality(Threads)
      BY <1>10, <2>1, <2>2, <2>4 DEF LastWaiter
    <3>2. PICK r : r = [q EXCEPT !.count = q.count - 1]
      OBVIOUS
    <3>3. /\ r \in Requests /\ r.count = q.count - 1
          /\ r.id = q.id /\ r.object = q.object /\ r.finished = q.finished
      BY <3>1, <3>2 DEF Requests
    <3>4. requests' = [requests EXCEPT ![f][k] = r]
      BY <1>8, <3>1, <3>2
    <3>5. r # None
      BY <3>3 DEF CacheAssumption
    <3>6. QED
      BY <1>8, <2>1, <2>4, <3>3, <3>4, <3>5
  <2>5. QED
    BY <2>3, <2>4
<1>14. /\ requests' \in [Chunks -> [Keys -> Requests \cup {None}]]
       /\ \A g \in Chunks, l \in Keys :
            requests'[g][l] = IF g = f /\ l = k THEN r ELSE requests[g][l]
  BY <1>4, <1>13, EntrySet
<1>15. TypeOK'
  <2>1. /\ pc' \in [Threads -> {"idle", "waiting", "adding"}]
        /\ asked' \in [Threads -> Ids \cup {None}] /\ via' \in [Threads -> Chunks \cup {None}]
        /\ result' \in [Threads -> Objects \cup {None}]
    BY <1>4, <1>8, <1>9, <1>10
  <2>2. QED
    BY <1>8, <1>14, <2>1 DEF IInv, TypeOK
<1>16. CallsOK'
  <2>1. CASE q.object = None
    BY <1>1, <1>4, <1>8, <1>9, <2>1 DEF IInv, CallsOK
  <2>2. CASE q.object # None
    BY <1>3, <1>4, <1>8, <1>9, <2>2 DEF IInv, CallsOK
  <2>3. QED
    BY <2>1, <2>2
<1>17. CountsWaiters'
  <2> SUFFICES ASSUME NEW g \in Chunks, NEW l \in Keys
               PROVE  IF requests'[g][l] = None THEN Waiters(g, l)' = {}
                      ELSE /\ requests'[g][l].count = Cardinality(Waiters(g, l)')
                           /\ Waiters(g, l)' # {}
    BY DEF CountsWaiters
  <2>1. CASE g = f /\ l = k
    BY <1>11, <1>13, <1>14, <2>1
  <2>2. CASE ~(g = f /\ l = k)
    <3>1. requests'[g][l] = requests[g][l] /\ Waiters(g, l)' = Waiters(g, l)
      BY <1>12, <1>14, <2>2
    <3>2. QED
      BY <3>1 DEF IInv, CountsWaiters
  <2>3. QED
    BY <2>1, <2>2
<1>18. FinishFindsRequest'
  BY <1>6, <1>8, <1>13, <1>14 DEF IInv, FinishFindsRequest
<1>19. RequestsKeyed'
  BY <1>6, <1>13, <1>14 DEF IInv, RequestsKeyed
<1>20. ResultsKeyed'
  <2>1. q.object # None => Key(q.object.id) = k
    BY <1>6 DEF IInv, RequestsKeyed
  <2>2. CASE q.object = None
    BY <1>1, <1>4, <1>9, <2>2 DEF IInv, ResultsKeyed
  <2>3. CASE q.object # None
    BY <1>3, <1>4, <1>9, <2>1, <2>3 DEF IInv, ResultsKeyed
  <2>4. QED
    BY <2>2, <2>3
<1>21. RequestsExcused'
  <2> SUFFICES ASSUME NEW g \in Chunks, NEW l \in Keys, requests'[g][l] # None,
                      requests'[g][l].object # None
               PROVE  Excused(requests'[g][l].object)
    BY <1>8 DEF RequestsExcused, Excused
  <2>1. requests[g][l] # None /\ requests'[g][l].object = requests[g][l].object
    BY <1>6, <1>13, <1>14
  <2>2. Excused(requests[g][l].object)
    BY <2>1 DEF IInv, RequestsExcused
  <2>3. QED
    BY <2>1, <2>2 DEF Excused
<1>22. ResultsExcused'
  <2>1. q.object # None => Excused(q.object)
    BY <1>6 DEF IInv, RequestsExcused
  <2>2. QED
    BY <1>4, <1>8, <1>9, <2>1 DEF IInv, ResultsExcused, Excused
<1>23. StaleOnlyByOverlap' /\ RemovedInPast'
  BY <1>8 DEF IInv, StaleOnlyByOverlap, RemovedInPast
<1>24. QED
  BY <1>15, <1>16, <1>17, <1>18, <1>19, <1>20, <1>21, <1>22, <1>23 DEF IInv

(* Steps that leave the calls and their requests alone.                    *)
LEMMA WaitersKept ==
  ASSUME CountsWaiters, FinishFindsRequest, UNCHANGED <<requests, task, pc, asked, via>>
  PROVE  CountsWaiters' /\ FinishFindsRequest'
<1>1. \A f, k : Waiters(f, k)' = Waiters(f, k)
  BY DEF Waiters
<1>2. QED
  BY <1>1 DEF CountsWaiters, FinishFindsRequest

(* The rest of ObjectEvictor::create.                                      *)
LEMMA InvAddCreated ==
  ASSUME CacheAssumption, IInv, NEW t \in Threads, addCreated(t)
  PROVE  IInv'
<1>1. /\ pc[t] = "adding" /\ asked[t] \in Ids /\ result[t] # None
      /\ map' = [map EXCEPT ![asked[t]] = result[t]]
      /\ pc' = [pc EXCEPT ![t] = "idle"]
      /\ result' = [result EXCEPT ![t] = None]
      /\ asked' = [asked EXCEPT ![t] = None]
      /\ UNCHANGED <<requests, task, via, source, removed, overlap>>
  BY DEF addCreated, IInv, CallsOK
<1>2. /\ map \in [Ids -> Objects \cup {None}]
      /\ pc \in [Threads -> {"idle", "waiting", "adding"}]
      /\ asked \in [Threads -> Ids \cup {None}]
      /\ result \in [Threads -> Objects \cup {None}]
  BY DEF IInv, TypeOK
<1>3. TypeOK'
  BY <1>1, <1>2 DEF IInv, TypeOK
<1>4. CallsOK'
  BY <1>1, <1>2 DEF IInv, CallsOK
<1>5. CountsWaiters' /\ FinishFindsRequest'
  <2>1. \A f, k : Waiters(f, k)' = Waiters(f, k)
    BY <1>1, <1>2 DEF Waiters
  <2>2. QED
    BY <1>1, <2>1 DEF IInv, CountsWaiters, FinishFindsRequest
<1>6. RequestsKeyed' /\ RequestsExcused' /\ RemovedInPast'
  BY <1>1 DEF IInv, RequestsKeyed, RequestsExcused, Excused, RemovedInPast
<1>7. ResultsKeyed' /\ ResultsExcused'
  BY <1>1, <1>2 DEF IInv, ResultsKeyed, ResultsExcused, Excused
<1>8. StaleOnlyByOverlap'
  <2>1. Excused(result[t])
    BY <1>1 DEF IInv, ResultsExcused
  <2>2. \A id \in Ids : map'[id] = IF id = asked[t] THEN result[t] ELSE map[id]
    BY <1>1, <1>2
  <2>3. QED
    BY <1>1, <2>1, <2>2 DEF IInv, StaleOnlyByOverlap, Excused
<1>9. QED
  BY <1>3, <1>4, <1>5, <1>6, <1>7, <1>8 DEF IInv

(* handle: what is created now is not older than any remove or add.        *)
LEMMA InvHandle ==
  ASSUME CacheAssumption, IInv, NEW f \in Chunks, NEW k \in Keys, NEW found \in BOOLEAN,
         handle(f, k, found)
  PROVE  IInv'
<1>1. /\ task[f][k] = "queued"
      /\ task' = [task EXCEPT ![f][k] = "handled"]
      /\ UNCHANGED <<map, pc, asked, via, result, source, removed, overlap>>
  BY DEF handle
<1>2. /\ requests \in [Chunks -> [Keys -> Requests \cup {None}]]
      /\ task \in [Chunks -> [Keys -> {"none", "queued", "handled"}]]
      /\ source \in 0 .. MaxVersion /\ removed \in [Ids -> 0 .. MaxVersion]
  BY DEF IInv, TypeOK
<1>3. PICK q \in Requests : q = requests[f][k] /\ q # None /\ ~q.finished
  <2>1. requests[f][k] # None /\ ~requests[f][k].finished
    BY <1>1 DEF IInv, FinishFindsRequest
  <2>2. QED
    BY <1>2, <2>1
<1>4. q.id \in Ids /\ Key(q.id) = k
  BY <1>3 DEF Requests, IInv, RequestsKeyed
<1>5. PICK o \in Objects : o = [id |-> q.id, version |-> source] /\ o.id = q.id /\ o.version = source
  BY <1>2, <1>4, ObjectNow
<1>6. o # None /\ Key(o.id) = k /\ Excused(o)
  <2>1. o # None
    BY DEF CacheAssumption
  <2>2. ~(source < removed[q.id])
    <3>1. removed[q.id] <= source
      BY <1>4 DEF IInv, RemovedInPast
    <3>2. removed[q.id] \in 0 .. MaxVersion /\ source \in 0 .. MaxVersion
      BY <1>2, <1>4
    <3>3. QED
      BY <3>1, <3>2 DEF CacheAssumption
  <2>3. QED
    BY <1>4, <1>5, <2>1, <2>2 DEF Excused
<1>7. PICK r \in Requests :
        /\ requests' = [requests EXCEPT ![f][k] = r]
        /\ r.id = q.id /\ r.count = q.count /\ r.finished = q.finished
        /\ r.object \in {o, q.object}
  <2>1. CASE found
    <3>1. PICK r : r = [q EXCEPT !.object = o]
      OBVIOUS
    <3>2. /\ r \in Requests /\ r.id = q.id /\ r.count = q.count /\ r.finished = q.finished
          /\ r.object = o
      BY <3>1 DEF Requests
    <3>3. requests' = [requests EXCEPT ![f][k] = r]
      BY <1>2, <1>3, <1>5, <2>1, <3>1 DEF handle
    <3>4. QED
      BY <3>2, <3>3
  <2>2. CASE ~found
    <3>1. requests' = [requests EXCEPT ![f][k] = q]
      BY <1>2, <1>3, <2>2 DEF handle
    <3>2. QED
      BY <3>1
  <2>3. QED
    BY <2>1, <2>2
<1>8. /\ requests' \in [Chunks -> [Keys -> Requests \cup {None}]]
      /\ \A g \in Chunks, l \in Keys :
           requests'[g][l] = IF g = f /\ l = k THEN r ELSE requests[g][l]
  BY <1>2, <1>7, EntrySet
<1>9. /\ task' \in [Chunks -> [Keys -> {"none", "queued", "handled"}]]
      /\ \A g \in Chunks, l \in Keys :
           task'[g][l] = IF g = f /\ l = k THEN "handled" ELSE task[g][l]
  BY <1>1, <1>2, EntrySet
<1>10. r # None
  BY <1>7 DEF CacheAssumption
<1>11. TypeOK'
  BY <1>1, <1>8, <1>9 DEF IInv, TypeOK
<1>12. CountsWaiters'
  <2>1. \A g, l : Waiters(g, l)' = Waiters(g, l)
    BY <1>1 DEF Waiters
  <2>2. QED
    BY <1>3, <1>7, <1>8, <1>10, <2>1 DEF IInv, CountsWaiters
<1>13. FinishFindsRequest'
  BY <1>1, <1>3, <1>7, <1>8, <1>9, <1>10 DEF IInv, FinishFindsRequest
<1>14. RequestsKeyed'
  BY <1>3, <1>4, <1>6, <1>7, <1>8 DEF IInv, RequestsKeyed
<1>15. RequestsExcused'
  BY <1>1, <1>3, <1>6, <1>7, <1>8 DEF IInv, RequestsExcused, Excused
<1>16. CallsOK' /\ ResultsKeyed' /\ ResultsExcused'
  BY <1>1 DEF IInv, CallsOK, ResultsKeyed, ResultsExcused, Excused
<1>17. StaleOnlyByOverlap' /\ RemovedInPast'
  BY <1>1 DEF IInv, StaleOnlyByOverlap, RemovedInPast
<1>18. QED
  BY <1>11, <1>12, <1>13, <1>14, <1>15, <1>16, <1>17 DEF IInv

(* finish: the request is there and not finished.                          *)
LEMMA InvFinish ==
  ASSUME CacheAssumption, IInv, NEW f \in Chunks, NEW k \in Keys, finish(f, k)
  PROVE  IInv'
<1>1. /\ task[f][k] = "handled"
      /\ task' = [task EXCEPT ![f][k] = "none"]
      /\ UNCHANGED <<map, pc, asked, via, result, source, removed, overlap>>
  BY DEF finish
<1>2. /\ requests \in [Chunks -> [Keys -> Requests \cup {None}]]
      /\ task \in [Chunks -> [Keys -> {"none", "queued", "handled"}]]
  BY DEF IInv, TypeOK
<1>3. PICK q \in Requests : q = requests[f][k] /\ q # None
  <2>1. requests[f][k] # None
    BY <1>1 DEF IInv, FinishFindsRequest
  <2>2. QED
    BY <1>2, <2>1
<1>4. PICK r : r = [q EXCEPT !.finished = TRUE]
  OBVIOUS
<1>5. r \in Requests /\ r.id = q.id /\ r.count = q.count /\ r.finished /\ r.object = q.object
  BY <1>4 DEF Requests
<1>6. requests' = [requests EXCEPT ![f][k] = r]
  BY <1>2, <1>3, <1>4 DEF finish, Finished
<1>7. /\ requests' \in [Chunks -> [Keys -> Requests \cup {None}]]
      /\ \A g \in Chunks, l \in Keys :
           requests'[g][l] = IF g = f /\ l = k THEN r ELSE requests[g][l]
  BY <1>2, <1>5, <1>6, EntrySet
<1>8. /\ task' \in [Chunks -> [Keys -> {"none", "queued", "handled"}]]
      /\ \A g \in Chunks, l \in Keys :
           task'[g][l] = IF g = f /\ l = k THEN "none" ELSE task[g][l]
  BY <1>1, <1>2, EntrySet
<1>9. r # None
  BY <1>5 DEF CacheAssumption
<1>10. TypeOK'
  BY <1>1, <1>7, <1>8 DEF IInv, TypeOK
<1>11. CountsWaiters'
  <2>1. \A g, l : Waiters(g, l)' = Waiters(g, l)
    BY <1>1 DEF Waiters
  <2>2. QED
    BY <1>3, <1>5, <1>7, <1>9, <2>1 DEF IInv, CountsWaiters
<1>12. FinishFindsRequest'
  BY <1>5, <1>7, <1>8, <1>9 DEF IInv, FinishFindsRequest
<1>13. RequestsKeyed' /\ RequestsExcused'
  BY <1>1, <1>3, <1>5, <1>7 DEF IInv, RequestsKeyed, RequestsExcused, Excused
<1>14. CallsOK' /\ ResultsKeyed' /\ ResultsExcused'
  BY <1>1 DEF IInv, CallsOK, ResultsKeyed, ResultsExcused, Excused
<1>15. StaleOnlyByOverlap' /\ RemovedInPast'
  BY <1>1 DEF IInv, StaleOnlyByOverlap, RemovedInPast
<1>16. QED
  BY <1>10, <1>11, <1>12, <1>13, <1>14, <1>15 DEF IInv

-----------------------------------------------------------------------------
(* An object under way for an id is under way for a call that remove and   *)
(* add of that id see.                                                     *)
LEMMA UnderWayIsCreating ==
  ASSUME CacheAssumption, IInv, NEW id \in Ids
  PROVE  /\ \A f \in Chunks, k \in Keys :
              requests[f][k] # None /\ requests[f][k].object # None
                /\ requests[f][k].object.id = id => Creating(id)
         /\ \A t \in Threads : result[t] # None /\ result[t].id = id => Creating(id)
<1>1. ASSUME NEW f \in Chunks, NEW k \in Keys, requests[f][k] # None,
             requests[f][k].object # None, requests[f][k].object.id = id
      PROVE  Creating(id)
  <2>1. Key(id) = k
    BY <1>1 DEF IInv, RequestsKeyed
  <2>2. PICK t \in Threads : pc[t] = "waiting" /\ Key(asked[t]) = k
    BY <1>1 DEF IInv, CountsWaiters, Waiters
  <2>3. QED
    BY <2>1, <2>2 DEF Creating
<1>2. ASSUME NEW t \in Threads, result[t] # None, result[t].id = id
      PROVE  Creating(id)
  <2>1. pc[t] = "adding" /\ Key(asked[t]) = Key(id)
    BY <1>2 DEF IInv, CallsOK, ResultsKeyed
  <2>2. QED
    BY <2>1 DEF Creating
<1>3. QED
  BY <1>1, <1>2

(* remove and add, which note the version and whether a creation is under  *)
(* way.                                                                    *)
LEMMA InvNoted ==
  ASSUME CacheAssumption, IInv, NEW id \in Ids, remove(id) \/ add(id)
  PROVE  IInv'
<1>1. /\ removed' = [removed EXCEPT ![id] = source]
      /\ overlap' = [overlap EXCEPT ![id] = Creating(id)]
      /\ UNCHANGED <<requests, task, pc, asked, via, result, source>>
  BY DEF remove, add, Noted
<1>2. /\ map \in [Ids -> Objects \cup {None}]
      /\ source \in 0 .. MaxVersion /\ removed \in [Ids -> 0 .. MaxVersion]
      /\ overlap \in [Ids -> BOOLEAN]
      /\ requests \in [Chunks -> [Keys -> Requests \cup {None}]]
      /\ result \in [Threads -> Objects \cup {None}]
  BY DEF IInv, TypeOK
<1>3. PICK o \in Objects : o = [id |-> id, version |-> source] /\ o.version = source
  BY <1>2, ObjectNow
<1>4. PICK v \in {o, None} : map' = [map EXCEPT ![id] = v]
  BY <1>3 DEF remove, add
<1>5. Creating(id) \in BOOLEAN
  BY DEF Creating
<1>6. TypeOK'
  <2>1. map' \in [Ids -> Objects \cup {None}]
    BY <1>2, <1>4
  <2>2. removed' \in [Ids -> 0 .. MaxVersion]
    BY <1>1, <1>2
  <2>3. overlap' \in [Ids -> BOOLEAN]
    BY <1>1, <1>2, <1>5
  <2>4. QED
    BY <1>1, <2>1, <2>2, <2>3 DEF IInv, TypeOK
<1>7. CallsOK' /\ ResultsKeyed' /\ RequestsKeyed'
  BY <1>1 DEF IInv, CallsOK, ResultsKeyed, RequestsKeyed
<1>8. CountsWaiters' /\ FinishFindsRequest'
  BY <1>1, WaitersKept DEF IInv
<1>9. \A x \in Ids : /\ removed'[x] = IF x = id THEN source ELSE removed[x]
                     /\ overlap'[x] = IF x = id THEN Creating(id) ELSE overlap[x]
  BY <1>1, <1>2
<1>10. ASSUME NEW x \in Objects, Excused(x), x.id = id => Creating(id)
       PROVE  Excused(x)'
  <2>1. x.id \in Ids
    BY DEF Objects
  <2>2. QED
    BY <1>9, <1>10, <2>1 DEF Excused
<1>11. RequestsExcused'
  <2> SUFFICES ASSUME NEW f \in Chunks, NEW k \in Keys, requests[f][k] # None,
                      requests[f][k].object # None
               PROVE  Excused(requests[f][k].object)'
    BY <1>1 DEF RequestsExcused
  <2>1. PICK x \in Objects : x = requests[f][k].object
    BY <1>2 DEF Requests
  <2>2. Excused(x) /\ (x.id = id => Creating(id))
    BY <2>1, UnderWayIsCreating DEF IInv, RequestsExcused
  <2>3. Excused(x)'
    BY <1>10, <2>2
  <2>4. QED
    BY <1>1, <2>1, <2>3 DEF Excused
<1>12. ResultsExcused'
  <2> SUFFICES ASSUME NEW t \in Threads, result[t] # None
               PROVE  Excused(result[t])'
    BY <1>1 DEF ResultsExcused
  <2>1. PICK x \in Objects : x = result[t]
    BY <1>2
  <2>2. Excused(x) /\ (x.id = id => Creating(id))
    BY <2>1, UnderWayIsCreating DEF IInv, ResultsExcused
  <2>3. Excused(x)'
    BY <1>10, <2>2
  <2>4. QED
    BY <1>1, <2>1, <2>3 DEF Excused
<1>13. source \in Int /\ \A x \in Ids : removed[x] \in Int /\ removed[x] <= source
  BY <1>2 DEF IInv, RemovedInPast, CacheAssumption
<1>14. StaleOnlyByOverlap'
  <2> SUFFICES ASSUME NEW x \in Ids, map'[x] # None, map'[x].id = x, map'[x].version < removed'[x]
               PROVE  overlap'[x]
    BY DEF StaleOnlyByOverlap
  <2>1. CASE x = id
    <3>1. map'[x] = o /\ removed'[x] = source
      BY <1>2, <1>4, <1>9, <2>1
    <3>2. QED
      BY <1>3, <1>13, <3>1
  <2>2. CASE x # id
    BY <1>2, <1>4, <1>9, <2>2 DEF IInv, StaleOnlyByOverlap
  <2>3. QED
    BY <2>1, <2>2
<1>15. RemovedInPast'
  <2>1. \A x \in Ids : removed'[x] <= source
    BY <1>9, <1>13
  <2>2. QED
    BY <1>1, <2>1 DEF RemovedInPast
<1>16. QED
  BY <1>6, <1>7, <1>8, <1>11, <1>12, <1>14, <1>15 DEF IInv

LEMMA InvEvict ==
  ASSUME CacheAssumption, IInv, NEW id \in Ids, Evict(id)
  PROVE  IInv'
<1>1. /\ map' = [map EXCEPT ![id] = None]
      /\ UNCHANGED <<requests, task, pc, asked, via, result, source, removed, overlap>>
  BY DEF Evict
<1>2. TypeOK' /\ StaleOnlyByOverlap'
  BY <1>1 DEF IInv, TypeOK, StaleOnlyByOverlap
<1>3. CountsWaiters' /\ FinishFindsRequest'
  BY <1>1, WaitersKept DEF IInv
<1>4. CallsOK' /\ ResultsKeyed' /\ RequestsKeyed'
  BY <1>1 DEF IInv, CallsOK, ResultsKeyed, RequestsKeyed
<1>5. ResultsExcused' /\ RequestsExcused' /\ RemovedInPast'
  BY <1>1 DEF IInv, ResultsExcused, RequestsExcused, Excused, RemovedInPast
<1>6. QED
  BY <1>2, <1>3, <1>4, <1>5 DEF IInv

LEMMA InvChange ==
  ASSUME CacheAssumption, IInv, Change
  PROVE  IInv'
<1>1. /\ source < MaxVersion /\ source' = source + 1
      /\ UNCHANGED <<map, requests, task, pc, asked, via, result, removed, overlap>>
  BY DEF Change
<1>2. source \in 0 .. MaxVersion /\ removed \in [Ids -> 0 .. MaxVersion] /\ MaxVersion \in Nat
  BY DEF IInv, TypeOK, CacheAssumption
<1>3. TypeOK'
  BY <1>1, <1>2 DEF IInv, TypeOK
<1>4. CountsWaiters' /\ FinishFindsRequest'
  BY <1>1, WaitersKept DEF IInv
<1>5. CallsOK' /\ ResultsKeyed' /\ RequestsKeyed' /\ StaleOnlyByOverlap'
  BY <1>1 DEF IInv, CallsOK, ResultsKeyed, RequestsKeyed, StaleOnlyByOverlap
<1>6. ResultsExcused' /\ RequestsExcused'
  BY <1>1 DEF IInv, ResultsExcused, RequestsExcused, Excused
<1>7. RemovedInPast'
  <2>1. \A id \in Ids : removed[id] \in Int /\ removed[id] <= source
    BY <1>2 DEF IInv, RemovedInPast
  <2>2. \A id \in Ids : removed[id] <= source + 1
    BY <1>2, <2>1
  <2>3. QED
    BY <1>1, <2>2 DEF RemovedInPast
<1>8. QED
  BY <1>3, <1>4, <1>5, <1>6, <1>7 DEF IInv

LEMMA InvStep == CacheAssumption /\ IInv /\ [Next]_vars => IInv'
<1> SUFFICES ASSUME CacheAssumption, IInv, [Next]_vars PROVE IInv'
  OBVIOUS
<1>1. CASE \E t \in Threads, id, front \in Ids :
             locate(t, id, Chunk(front)) \/ reload(t, id, Chunk(front))
  <2>1. PICK t \in Threads, id \in Ids, front \in Ids : create(t, id, Chunk(front))
    BY <1>1 DEF locate, reload
  <2>2. QED
    BY <2>1, ChunkOfId, InvCreate
<1>2. CASE \E t \in Threads : ThreadStep(t)
  BY <1>2, InvCreateReturns, InvAddCreated DEF ThreadStep
<1>3. CASE \E f \in Chunks, k \in Keys : TaskStep(f, k)
  BY <1>3, InvHandle, InvFinish DEF TaskStep
<1>4. CASE \E id \in Ids : remove(id) \/ add(id) \/ Evict(id)
  BY <1>4, InvNoted, InvEvict
<1>5. CASE Change
  BY <1>5, InvChange
<1>6. CASE UNCHANGED vars
  <2>1. UNCHANGED <<map, requests, task, pc, asked, via, result, source, removed, overlap>>
    BY <1>6 DEF vars
  <2>2. TypeOK' /\ CallsOK' /\ ResultsKeyed' /\ RequestsKeyed' /\ StaleOnlyByOverlap'
    BY <2>1 DEF IInv, TypeOK, CallsOK, ResultsKeyed, RequestsKeyed, StaleOnlyByOverlap
  <2>3. CountsWaiters' /\ FinishFindsRequest'
    BY <2>1, WaitersKept DEF IInv
  <2>4. ResultsExcused' /\ RequestsExcused' /\ RemovedInPast'
    BY <2>1 DEF IInv, ResultsExcused, RequestsExcused, Excused, RemovedInPast
  <2>5. QED
    BY <2>2, <2>3, <2>4 DEF IInv
<1>7. QED
  BY <1>1, <1>2, <1>3, <1>4, <1>5, <1>6 DEF Next

(* What the invariant says of the cache.                                   *)
LEMMA InvImplies == IInv => TypeOK /\ CacheSound
<1> SUFFICES ASSUME IInv PROVE CacheSound
  BY DEF IInv
<1>1. WrongObjectOnlyByTruncation
  BY DEF IInv, ResultsKeyed, Key, WrongObjectOnlyByTruncation
<1>2. QED
  BY <1>1 DEF IInv, CacheSound

(* The cache's and its factories' state always has its type: a request's   *)
(* count stays between one and the number of threads, and every index a    *)
(* call uses is one of a chunk and of a key.                               *)
THEOREM TypeCorrect ==
  ASSUME CacheAssumption
  PROVE  Spec => []TypeOK
BY InvInit, InvStep, InvImplies, PTL DEF Spec

(* SyncServantFactory and ObjectEvictor, for any number of threads: a      *)
(* request is in the map exactly while calls wait for it, counts them and  *)
(* is finished by its one task; a caller gets another id's object only if  *)
(* the ids agree as an Ice::Int; and an object older than its id's last    *)
(* remove or add is in the cache only if it was being created then.        *)
THEOREM CacheIsSound ==
  ASSUME CacheAssumption
  PROVE  Spec => []CacheSound
BY InvInit, InvStep, InvImplies, PTL DEF Spec
==============================================================================
