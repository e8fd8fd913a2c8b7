----------------------------- MODULE ObjectCache -----------------------------
(***************************************************************************)
(* One category of the object cache and the factory behind it: ObjectEvic- *)
(* tor (and ObjectRetention, which never evicts) and SyncServantFactory of *)
(* IceExt/src/ObjectCacheI.{h,cpp}.  A miss asks the factory to create the *)
(* object; the factory joins concurrent calls for one id to one request,   *)
(* served by a task of the pool.  Each chunk of ids has a factory of its   *)
(* own, but a batch uses the factory of its first id for all of them.      *)
(*                                                                         *)
(* An object is the id it was created for and the version of the source it *)
(* was created from.                                                       *)
(***************************************************************************)
EXTENDS Naturals, FiniteSets

CONSTANTS
  Threads,     \* threads that call the cache
  Ids,         \* Ice::Long identities
  IntRange,    \* how many values an Ice::Int has
  ChunkSize,   \* _chunkSize
  MaxVersion,  \* bound: how often the source changes
  None         \* the null handle

Chunks == 0..(ChunkSize - 1)
Chunk(id) == id % ChunkSize

(* Fault: requests are kept apart by half of their bits only.              *)
KeyOfHalf(id) == id % 2

(* _requests is a map<Ice::Int, RequestPtr>: an id loses its upper bits.   *)
Key(id) == id % IntRange
Keys == {Key(id) : id \in Ids}

VARIABLES
  map,      \* the chunks' evictors
  requests, \* _requests of each chunk's factory
  task,     \* where the CreateTask of a request is
  pc,       \* where a thread is
  asked,    \* the id it has asked the factory for
  via,      \* the chunk whose factory it asked
  result,   \* what the factory returned
  source,   \* the version of the data objects are created from
  removed,  \* history: the version when an id was last removed or added
  overlap   \* history: whether a creation was then under way

vars == <<map, requests, task, pc, asked, via, result, source, removed, overlap>>

Objects  == [id : Ids, version : 0..MaxVersion]
Requests == [id : Ids, finished : BOOLEAN, count : 1..Cardinality(Threads),
             object : Objects \cup {None}]

CacheAssumption ==
  /\ IsFiniteSet(Threads) /\ Ids \subseteq Nat
  /\ IntRange \in Nat \ {0} /\ ChunkSize \in Nat \ {0} /\ MaxVersion \in Nat
  /\ None \notin Nat /\ None \notin Objects /\ None \notin Requests

Init ==
  /\ map = [id \in Ids |-> None]
  /\ requests = [f \in Chunks |-> [k \in Keys |-> None]]
  /\ task = [f \in Chunks |-> [k \in Keys |-> "none"]]
  /\ pc = [t \in Threads |-> "idle"] /\ result = [t \in Threads |-> None]
  /\ asked = [t \in Threads |-> None] /\ via = [t \in Threads |-> None]
  /\ source = 0 /\ removed = [id \in Ids |-> 0]
  /\ overlap = [id \in Ids |-> FALSE]

(* Some call is creating the object of this id, or of one with its key.    *)
Creating(id) == \E t \in Threads : pc[t] # "idle" /\ Key(asked[t]) = Key(id)

-----------------------------------------------------------------------------
(* Fault: a call that joins a request is not counted.                      *)
JoinUncounted(request) == request

Join(request) == [request EXCEPT !.count = @ + 1]

(* SyncServantFactory::create, before its loop.                            *)
create(t, id, f) ==
  /\ pc[t] = "idle"
  /\ pc' = [pc EXCEPT ![t] = "waiting"]
  /\ asked' = [asked EXCEPT ![t] = id]
  /\ via' = [via EXCEPT ![t] = f]
  /\ IF requests[f][Key(id)] # None
     THEN /\ requests' = [requests EXCEPT ![f][Key(id)] = Join(@)]
          /\ UNCHANGED task
     ELSE /\ requests' = [requests EXCEPT ![f][Key(id)] =
               [id |-> id, finished |-> FALSE, count |-> 1, object |-> None]]
          /\ task' = [task EXCEPT ![f][Key(id)] = "queued"]
  /\ UNCHANGED <<map, result, source, removed, overlap>>

(* locate and preload of an id that is not in the cache.                   *)
locate(t, id, f) == map[id] = None /\ create(t, id, f)

(* reload creates the object in any case.                                  *)
reload(t, id, f) == create(t, id, f)

LastWaiter(count) == count <= 0

(* A pass through the loop of create that ends it, after a notifyAll or at *)
(* once.  The null is returned when there is no request.                   *)
createReturns(t) ==
  LET f == via[t]  k == Key(asked[t])  request == requests[f][k] IN
  /\ pc[t] = "waiting"
  /\ request = None \/ request.finished
  /\ requests' = IF request = None THEN requests
                 ELSE [requests EXCEPT ![f][k] =
                         IF LastWaiter(request.count - 1) THEN None
                         ELSE [request EXCEPT !.count = @ - 1]]
  /\ via' = [via EXCEPT ![t] = None]
  /\ IF request = None \/ request.object = None
     THEN /\ pc' = [pc EXCEPT ![t] = "idle"]
          /\ asked' = [asked EXCEPT ![t] = None]
          /\ UNCHANGED result
     ELSE /\ pc' = [pc EXCEPT ![t] = "adding"]
          /\ result' = [result EXCEPT ![t] = request.object]
          /\ UNCHANGED asked
  /\ UNCHANGED <<map, task, source, removed, overlap>>

(* The rest of ObjectEvictor::create: the object is put in the cache.      *)
addCreated(t) ==
  /\ pc[t] = "adding"
  /\ map' = [map EXCEPT ![asked[t]] = result[t]]
  /\ pc' = [pc EXCEPT ![t] = "idle"]
  /\ result' = [result EXCEPT ![t] = None]
  /\ asked' = [asked EXCEPT ![t] = None]
  /\ UNCHANGED <<requests, task, via, source, removed, overlap>>

-----------------------------------------------------------------------------
(* SyncServantFactory::handle: the real factory creates the object, finds  *)
(* none or throws.                                                         *)
handle(f, k, found) ==
  /\ task[f][k] = "queued"
  /\ requests' = IF found
                 THEN [requests EXCEPT ![f][k].object =
                         [id |-> requests[f][k].id, version |-> source]]
                 ELSE requests
  /\ task' = [task EXCEPT ![f][k] = "handled"]
  /\ UNCHANGED <<map, pc, asked, via, result, source, removed, overlap>>

(* Fault: a request without an object is not finished.                     *)
FinishedIfFound(request) == [request EXCEPT !.finished = (request.object # None)]

Finished(request) == [request EXCEPT !.finished = TRUE]

(* SyncServantFactory::finish, of a request that is there.                 *)
finish(f, k) ==
  /\ task[f][k] = "handled"
  /\ requests' = [requests EXCEPT ![f][k] = Finished(@)]
  /\ task' = [task EXCEPT ![f][k] = "none"]
  /\ UNCHANGED <<map, pc, asked, via, result, source, removed, overlap>>

-----------------------------------------------------------------------------
Noted(id) == /\ removed' = [removed EXCEPT ![id] = source]
             /\ overlap' = [overlap EXCEPT ![id] = Creating(id)]

remove(id) ==
  /\ map' = [map EXCEPT ![id] = None] /\ Noted(id)
  /\ UNCHANGED <<requests, task, pc, asked, via, result, source>>

(* Fault: an insert into the hash map, which keeps what is there.          *)
addInserts(id) ==
  /\ map' = [map EXCEPT ![id] = IF @ = None THEN [id |-> id, version |-> source] ELSE @]
  /\ Noted(id)
  /\ UNCHANGED <<requests, task, pc, asked, via, result, source>>

(* The caller has the object as it is in the source.                       *)
add(id) ==
  /\ map' = [map EXCEPT ![id] = [id |-> id, version |-> source]] /\ Noted(id)
  /\ UNCHANGED <<requests, task, pc, asked, via, result, source>>

(* SizedEvictor drops an object it has no room for.                        *)
Evict(id) ==
  /\ map[id] # None
  /\ map' = [map EXCEPT ![id] = None]
  /\ UNCHANGED <<requests, task, pc, asked, via, result, source, removed, overlap>>

(* The data behind the objects changes.                                    *)
Change ==
  /\ source < MaxVersion
  /\ source' = source + 1
  /\ UNCHANGED <<map, requests, task, pc, asked, via, result, removed, overlap>>

ThreadStep(t) == createReturns(t) \/ addCreated(t)
TaskStep(f, k) == finish(f, k) \/ \E found \in BOOLEAN : handle(f, k, found)

Next ==
  \/ \E t \in Threads, id, front \in Ids :
       locate(t, id, Chunk(front)) \/ reload(t, id, Chunk(front))
  \/ \E t \in Threads : ThreadStep(t)
  \/ \E f \in Chunks, k \in Keys : TaskStep(f, k)
  \/ \E id \in Ids : remove(id) \/ add(id) \/ Evict(id)
  \/ Change

Spec == Init /\ [][Next]_vars

-----------------------------------------------------------------------------
TypeOK ==
  /\ map \in [Ids -> Objects \cup {None}]
  /\ requests \in [Chunks -> [Keys -> Requests \cup {None}]]
  /\ task \in [Chunks -> [Keys -> {"none", "queued", "handled"}]]
  /\ pc \in [Threads -> {"idle", "waiting", "adding"}]
  /\ asked \in [Threads -> Ids \cup {None}] /\ via \in [Threads -> Chunks \cup {None}]
  /\ result \in [Threads -> Objects \cup {None}]
  /\ source \in 0..MaxVersion /\ removed \in [Ids -> 0..MaxVersion]
  /\ overlap \in [Ids -> BOOLEAN]

Waiters(f, k) ==
  {t \in Threads : pc[t] = "waiting" /\ via[t] = f /\ Key(asked[t]) = k}

(* A request is in the map exactly while calls wait for it, and counts     *)
(* them: none is left behind, and none is taken from under a waiter, which *)
(* would get the null.                                                     *)
CountsWaiters ==
  \A f \in Chunks, k \in Keys :
    IF requests[f][k] = None THEN Waiters(f, k) = {}
    ELSE requests[f][k].count = Cardinality(Waiters(f, k)) /\ Waiters(f, k) # {}

(* finish finds the request its task was made for, unfinished: the branch  *)
(* in which it makes one up, with a count nobody has set, is never taken,  *)
(* and no request is left that no task will finish.                        *)
FinishFindsRequest ==
  \A f \in Chunks, k \in Keys :
    task[f][k] # "none" <=> (requests[f][k] # None /\ ~ requests[f][k].finished)

(* A caller gets the object of another id only when the two ids are one as *)
(* an Ice::Int.                                                            *)
WrongObjectOnlyByTruncation ==
  \A t \in Threads : result[t] # None /\ result[t].id # asked[t] =>
    result[t].id % IntRange = asked[t] % IntRange

(* An object older than the id's last remove or add is in the cache only   *)
(* if it was being created at that moment: joining a request that slow     *)
(* waiters keep in the map brings back nothing older.                      *)
StaleOnlyByOverlap ==
  \A id \in Ids : map[id] # None /\ map[id].id = id /\ map[id].version < removed[id]
    => overlap[id]

WaitsForObject(t) == pc[t] = "waiting"

(* What the cache and the requests of its factory promise.                 *)
CacheSound ==
  /\ CountsWaiters /\ FinishFindsRequest
  /\ WrongObjectOnlyByTruncation /\ StaleOnlyByOverlap
==============================================================================
