---------------------------- MODULE BaseThreadPool ----------------------------
(***************************************************************************)
(* ThreadPool of base/threadpool.cc and the MessageQueue each of its       *)
(* workers is.  Posters call Post; one owner calls set_size, Stop and      *)
(* Join.  A section under the mutex of a queue is one action.  The mutex   *)
(* of the pool is held across steps only by Shrunk, which joins a worker   *)
(* while it holds it; quit_ and busy_ are read and written without a       *)
(* mutex.  A worker that Shrunk has deleted may still be in the hands of a *)
(* poster or under the cursor i_: such a use is undefined behaviour, which *)
(* the variable undefined records and after which nothing more is said.    *)
(***************************************************************************)
EXTENDS Integers, Sequences, FiniteSets, SequencesExt

CONSTANTS
  Posters,      \* threads that call Post
  MaxMessages,  \* bound: messages posted in all
  MaxWorkers,   \* bound: workers created in all
  InitSize,     \* init_size of the constructor
  InitMax,      \* max_size of the constructor
  BusyLimit,    \* 0xffff: no worker as busy as this counts as the idlest
  Sizes,        \* the sizes the owner may set
  OwnerCalls,   \* bound: calls of set_size
  MayStop       \* whether the owner stops and joins the pool

PoolAssumption ==
  /\ InitSize \in Nat /\ InitMax \in Nat \ {0} /\ MaxWorkers \in Nat
  /\ BusyLimit \in Nat \ {0} /\ MaxMessages \in Nat /\ OwnerCalls \in Nat
  /\ InitSize <= MaxWorkers /\ Sizes \subseteq Nat /\ MayStop \in BOOLEAN

Workers == 1 .. MaxWorkers
Messages == 1 .. MaxMessages
Nil == 0  \* no worker; for the cursor, end()

VARIABLES
  queue, busy, quit,        \* of each worker: message_queue_, busy_, quit_
  wpc, current,             \* where its thread is, and the message it runs
  workers, i, max_size,     \* of the pool: workers_, i_, max_size_
  ppc, chosen, batch,       \* of each poster: place, worker from GetIdle, messages
  owner,                    \* place of the owner, what it has still to do, new max_size
  created, posted, calls,   \* counters of workers, messages and calls of set_size
  deleted, undefined,       \* deleted workers; whether one has been used
  batches, done,            \* history: ranges posted, messages run,
  missed, late              \* workers that missed Close, and that were erased before a Post
queueVars == <<queue, busy, quit, wpc, current>>
poolVars == <<workers, i, max_size>>
posterVars == <<ppc, chosen, batch>>
history == <<batches, done, missed, late>>
vars == <<queueVars, poolVars, posterVars, owner, created, posted, calls, deleted, undefined, history>>

Init ==
  /\ queue = [w \in Workers |-> <<>>] /\ busy = [w \in Workers |-> 0]
  /\ quit = [w \in Workers |-> FALSE] /\ current = [w \in Workers |-> Nil]
  /\ wpc = [w \in Workers |-> IF w <= InitSize THEN "test" ELSE "unborn"]
  /\ workers = [w \in 1 .. InitSize |-> w]
  /\ i = (IF InitSize = 0 THEN Nil ELSE 1) /\ max_size = InitMax
  /\ ppc = [p \in Posters |-> "idle"] /\ chosen = [p \in Posters |-> Nil]
  /\ batch = [p \in Posters |-> <<>>]
  /\ owner = [at |-> "idle", left |-> 0, pos |-> 1, list |-> <<>>, want |-> InitSize, max |-> 0]
  /\ created = InitSize /\ posted = 0 /\ calls = 0
  /\ deleted = {} /\ undefined = FALSE
  /\ batches = {} /\ done = {} /\ missed = {} /\ late = {}

-----------------------------------------------------------------------------
(* MessageQueue: the thread of worker w runs Process.                      *)

GotoW(w, place) == wpc' = [wpc EXCEPT ![w] = place]

(* while (!quit_)                                                          *)
TestQuit(w) ==
  /\ wpc[w] = "test"
  /\ GotoW(w, IF quit[w] THEN "left" ELSE "wait")
  /\ UNCHANGED <<queue, busy, quit, current, poolVars, posterVars, owner, created, posted,
                 calls, deleted, undefined, history>>

Wait(w) ==
  /\ wpc[w] = "wait"
  /\ GotoW(w, IF queue[w] = <<>> THEN "asleep" ELSE "drain")
  /\ UNCHANGED <<queue, busy, quit, current, poolVars, posterVars, owner, created, posted,
                 calls, deleted, undefined, history>>

(* notify_all, and a wait that returns for no reason.                      *)
Notified(w) == [wpc EXCEPT ![w] = IF @ = "asleep" THEN "drain" ELSE @]

SpuriousWakeup(w) ==
  /\ wpc[w] = "asleep"
  /\ wpc' = Notified(w)
  /\ UNCHANGED <<queue, busy, quit, current, poolVars, posterVars, owner, created, posted,
                 calls, deleted, undefined, history>>

(* delete p                                                                *)
DeletedCurrent(w) == [current EXCEPT ![w] = Nil]

(* Under the mutex: take the next message, or note that none is left.  In  *)
(* ProcessAll busy_ is set on the way in and on the way out only.          *)
TakeNext(w) ==
  IF queue[w] = <<>>
  THEN /\ GotoW(w, "test")
       /\ busy' = [busy EXCEPT ![w] = 0] /\ current' = DeletedCurrent(w)
       /\ UNCHANGED queue
  ELSE /\ GotoW(w, "run")
       /\ current' = [current EXCEPT ![w] = Head(queue[w])]
       /\ queue' = [queue EXCEPT ![w] = Tail(@)]
       /\ busy' = [busy EXCEPT ![w] = IF wpc[w] = "drain" THEN Len(queue[w]) ELSE @]

ProcessAll(w) ==
  /\ wpc[w] = "drain"
  /\ TakeNext(w)
  /\ UNCHANGED <<quit, poolVars, posterVars, owner, created, posted, calls, deleted,
                 undefined, history>>

(* p->Run() has returned.                                                  *)
RunReturns(w) ==
  /\ wpc[w] = "run"
  /\ done' = done \cup {current[w]}
  /\ TakeNext(w)
  /\ UNCHANGED <<quit, poolVars, posterVars, owner, created, posted, calls, deleted,
                 undefined, batches, missed, late>>

WorkerStep(w) == TestQuit(w) \/ Wait(w) \/ ProcessAll(w) \/ RunReturns(w)

(* Fault: Close only sets quit_.                                           *)
CloseSilently(w) == quit' = [quit EXCEPT ![w] = TRUE] /\ UNCHANGED <<wpc, missed>>

(* Close, without the mutex.  A thread past its test of quit_ and not yet  *)
(* in its wait misses the notification.                                    *)
Close(w) ==
  /\ quit' = [quit EXCEPT ![w] = TRUE] /\ wpc' = Notified(w)
  /\ missed' = IF wpc[w] = "wait" THEN missed \cup {w} ELSE missed

-----------------------------------------------------------------------------
(* ThreadPool.                                                             *)

PoolMutexFree == owner.at \notin {"shrunk", "delete"}

(* The worker after w in the list.                                         *)
NextInList(w) ==
  LET k == CHOOSE k \in DOMAIN workers : workers[k] = w
  IN IF k = Len(workers) THEN Nil ELSE workers[k + 1]

(* The workers in the order in which GetIdle looks at them.                *)
Scan ==
  LET n == Len(workers)
      first == IF i = Nil THEN 1 ELSE CHOOSE k \in 1 .. n : workers[k] = i
  IN [k \in 1 .. n |-> workers[((first + k - 2) % n) + 1]]

(* The first of s with the fewest messages by busy_, if that is below the  *)
(* limit.                                                                  *)
Idlest(s) ==
  LET best == {k \in DOMAIN s : busy[s[k]] < BusyLimit
                               /\ \A j \in DOMAIN s : busy[s[k]] <= busy[s[j]]}
  IN IF best = {} THEN Nil ELSE s[CHOOSE k \in best : \A j \in best : k <= j]

(* Fault: one worker more than the maximum.                                *)
MayCreateOneMore == Len(workers) <= max_size

MayCreate == Len(workers) < max_size

(* Post with the messages of bs: GetIdle up to alock.unlock() and the      *)
(* choice that follows.                                                    *)
GetIdle(p, bs) ==
  LET idle == {k \in DOMAIN workers : busy[Scan[k]] = 0}
      stop == IF idle = {} THEN Len(workers) ELSE CHOOSE k \in idle : \A j \in idle : k <= j
  IN /\ ppc[p] = "idle" /\ PoolMutexFree
     /\ batch' = [batch EXCEPT ![p] = bs] /\ posted' = posted + Len(bs)
     /\ batches' = batches \cup {bs}
     /\ IF i \in deleted /\ workers # <<>>
        THEN undefined' = TRUE /\ UNCHANGED <<ppc, chosen, i>>
        ELSE /\ i' = IF workers = <<>> THEN i ELSE NextInList(Scan[stop])
             /\ chosen' = [chosen EXCEPT ![p] = IF idle # {} THEN Scan[stop]
                                                ELSE IF MayCreate THEN Nil ELSE Idlest(Scan)]
             /\ ppc' = [ppc EXCEPT ![p] = IF idle # {} THEN "post"
                                          ELSE IF MayCreate THEN "create"
                                          ELSE IF Idlest(Scan) # Nil THEN "post" ELSE "first"]
             /\ UNCHANGED undefined
  /\ UNCHANGED <<queueVars, workers, max_size, owner, created, calls, deleted, done, missed, late>>

(* Everybody is too busy: the first worker of the list.                    *)
GetFirst(p) ==
  /\ ppc[p] = "first" /\ PoolMutexFree
  /\ IF workers = <<>>
     THEN undefined' = TRUE /\ UNCHANGED <<ppc, chosen, i>>
     ELSE /\ i' = workers[1]
          /\ chosen' = [chosen EXCEPT ![p] = workers[1]]
          /\ ppc' = [ppc EXCEPT ![p] = "post"]
          /\ UNCHANGED undefined
  /\ UNCHANGED <<queueVars, workers, max_size, batch, owner, created, posted, calls, deleted,
                 history>>

(* Create: the thread is started and the worker entered in the list.  (A   *)
(* thread just started is joinable; boost reports failure by an exception  *)
(* that leaves Post, which is no step of the pool.)                        *)
Create ==
  /\ PoolMutexFree /\ created < MaxWorkers
  /\ created' = created + 1
  /\ GotoW(created + 1, "test")
  /\ workers' = Append(workers, created + 1)
  /\ UNCHANGED <<queue, busy, quit, current, i>>

PosterCreates(p) ==
  /\ ppc[p] = "create"
  /\ Create
  /\ chosen' = [chosen EXCEPT ![p] = created + 1]
  /\ ppc' = [ppc EXCEPT ![p] = "post"]
  /\ UNCHANGED <<max_size, batch, owner, posted, calls, deleted, undefined, history>>

(* Fault: messages go to the front of the queue.                           *)
PushedFront(q, bs) == Reverse(bs) \o q

Pushed(q, bs) == q \o bs

(* Fault: Post does not notify.                                            *)
NotWoken(w) == wpc

Woken(w) == Notified(w)

(* w->Post: the messages are queued and the worker notified.               *)
QueuePost(p) ==
  LET w == chosen[p] IN
  /\ ppc[p] = "post"
  /\ IF w \in deleted
     THEN undefined' = TRUE /\ UNCHANGED <<queue, wpc, late>>
     ELSE /\ queue' = [queue EXCEPT ![w] = Pushed(@, batch[p])]
          /\ wpc' = Woken(w)
          /\ late' = IF w \in ToSet(workers) THEN late ELSE late \cup {w}
          /\ UNCHANGED undefined
  /\ ppc' = [ppc EXCEPT ![p] = "idle"] /\ chosen' = [chosen EXCEPT ![p] = Nil]
  /\ batch' = [batch EXCEPT ![p] = <<>>]
  /\ UNCHANGED <<busy, quit, current, poolVars, owner, created, posted, calls, deleted, batches,
                 done, missed>>

Post(p) ==
  \/ \E n \in {1, 2} :
       posted + n <= MaxMessages /\ GetIdle(p, [k \in 1 .. n |-> posted + k])
  \/ GetFirst(p) \/ PosterCreates(p) \/ QueuePost(p)

-----------------------------------------------------------------------------
(* The owner.                                                              *)

(* Fault: a pool that has the size already is shrunk.                      *)
ShrinksAtSize(size) == Len(workers) >= size

Shrinks(size) == Len(workers) > size

(* set_size reads the size of the list without the mutex.  Shrunk(size)    *)
(* removes size workers.                                                   *)
SetSize(size, max) ==
  /\ owner.at = "idle" /\ calls < OwnerCalls
  /\ calls' = calls + 1
  /\ owner' = [owner EXCEPT !.at = IF Shrinks(size) THEN "shrunk" ELSE "inflate",
                            !.left = IF Shrinks(size) THEN size ELSE size - Len(workers),
                            !.pos = 1, !.want = size, !.max = max]
  /\ UNCHANGED <<queueVars, poolVars, posterVars, created, posted, deleted, undefined, history>>

Inflate ==
  /\ owner.at = "inflate" /\ owner.left > 0
  /\ Create
  /\ owner' = [owner EXCEPT !.left = @ - 1]
  /\ UNCHANGED <<max_size, posterVars, posted, calls, deleted, undefined, history>>

(* Fault: a worker is removed whatever its queue holds.                    *)
RemovableAlways(w) == TRUE

Removable(w) == queue[w] = <<>>

(* The loop of Shrunk: a worker with an empty queue is erased and closed.  *)
Shrunk ==
  /\ owner.at = "shrunk" /\ owner.pos <= Len(workers)
  /\ LET w == workers[owner.pos] IN
     IF Removable(w)
     THEN /\ workers' = RemoveAt(workers, owner.pos)
          /\ Close(w)
          /\ owner' = [owner EXCEPT !.at = "delete", !.list = <<w>>]
     ELSE /\ owner' = [owner EXCEPT !.pos = @ + 1]
          /\ UNCHANGED <<workers, quit, wpc, missed>>
  /\ UNCHANGED <<queue, busy, current, i, max_size, posterVars, created, posted, calls, deleted,
                 undefined, batches, done, late>>

(* delete w joins its thread.                                              *)
DeleteWorker ==
  /\ owner.at = "delete" /\ wpc[Head(owner.list)] = "left"
  /\ deleted' = deleted \cup {Head(owner.list)}
  /\ owner' = [owner EXCEPT !.at = "shrunk", !.list = <<>>, !.left = @ - 1,
                            !.pos = IF owner.left = 1 THEN Len(workers) + 1 ELSE @]
  /\ UNCHANGED <<queueVars, poolVars, posterVars, created, posted, calls, undefined, history>>

SetSizeReturns ==
  /\ \/ owner.at = "inflate" /\ owner.left = 0
     \/ owner.at = "shrunk" /\ owner.pos > Len(workers)
  /\ owner' = [owner EXCEPT !.at = "idle"]
  /\ max_size' = IF owner.max # 0 THEN owner.max ELSE max_size
  /\ UNCHANGED <<queueVars, workers, i, posterVars, created, posted, calls, deleted, undefined,
                 history>>

(* Stop walks the list without the mutex and closes each worker.           *)
Stop ==
  /\ \/ owner.at = "idle" /\ MayStop
        /\ owner' = [owner EXCEPT !.at = "stop", !.pos = 1]
        /\ UNCHANGED <<quit, wpc, missed>>
     \/ owner.at = "stop" /\ owner.pos <= Len(workers)
        /\ Close(workers[owner.pos])
        /\ owner' = [owner EXCEPT !.pos = @ + 1]
     \/ owner.at = "stop" /\ owner.pos > Len(workers)
        /\ owner' = [owner EXCEPT !.at = "stopped"]
        /\ UNCHANGED <<quit, wpc, missed>>
  /\ UNCHANGED <<queue, busy, current, poolVars, posterVars, created, posted, calls, deleted,
                 undefined, batches, done, late>>

(* Join copies the list under the mutex and joins each worker.             *)
Join ==
  /\ \/ owner.at = "stopped" /\ owner' = [owner EXCEPT !.at = "join", !.list = workers]
     \/ owner.at = "join" /\ owner.list # <<>> /\ wpc[Head(owner.list)] = "left"
        /\ owner' = [owner EXCEPT !.list = Tail(@)]
     \/ owner.at = "join" /\ owner.list = <<>> /\ owner' = [owner EXCEPT !.at = "joined"]
  /\ UNCHANGED <<queueVars, poolVars, posterVars, created, posted, calls, deleted, undefined,
                 history>>

Owner == Inflate \/ Shrunk \/ DeleteWorker \/ SetSizeReturns \/ Stop \/ Join

Next ==
  /\ ~undefined
  /\ \/ \E w \in Workers : WorkerStep(w) \/ SpuriousWakeup(w)
     \/ \E p \in Posters : Post(p)
     \/ \E size \in Sizes, max \in {0} \cup Sizes : SetSize(size, max)
     \/ Owner

Spec == Init /\ [][Next]_vars

(* The steps that threads take without being called.                       *)
RunningWorker(w) == ~undefined /\ WorkerStep(w)
RunningPoster(p) == ~undefined /\ ppc[p] # "idle" /\ Post(p)
RunningOwner == ~undefined /\ owner.at # "idle" /\ Owner

-----------------------------------------------------------------------------
TypeOK ==
  /\ queue \in [Workers -> Seq(Messages)] /\ busy \in [Workers -> 0 .. MaxMessages]
  /\ quit \in [Workers -> BOOLEAN] /\ current \in [Workers -> Messages \cup {Nil}]
  /\ wpc \in [Workers -> {"unborn", "test", "wait", "asleep", "drain", "run", "left"}]
  /\ workers \in Seq(Workers) /\ IsInjective(workers) /\ i \in Workers \cup {Nil}
  /\ max_size \in Nat /\ created \in 0 .. MaxWorkers /\ deleted \subseteq Workers
  /\ ppc \in [Posters -> {"idle", "create", "first", "post"}]
  /\ \A w \in Workers : wpc[w] = "run" <=> current[w] # Nil

(* The posters may take the pool past max_size_, since GetIdle gives up    *)
(* the mutex between counting the workers and Create, but by no more than  *)
(* the posters there are beside the first.                                 *)
BoundedOvershoot ==
  owner.at = "idle" /\ calls = 0 =>
    Len(workers) <= IF InitSize > InitMax + Cardinality(Posters) - 1 THEN InitSize
                    ELSE InitMax + Cardinality(Posters) - 1

(* The messages of one range run in their order and one after the other:   *)
(* when one is running, those before it are done and those after it have   *)
(* not begun.                                                              *)
RangeInOrder ==
  \A b \in batches, w \in Workers : \A k, j \in DOMAIN b :
    k < j /\ current[w] = b[k] => /\ b[j] \notin done
                                  /\ \A v \in Workers : current[v] # b[j]

(* A worker sleeps on a closed queue only if Close came between its test   *)
(* of quit_ and its wait.                                                  *)
AsleepOnlyIfMissed ==
  \A w \in Workers : quit[w] /\ wpc[w] = "asleep" => w \in missed

(* A pool that set_size does not make smaller never uses a deleted worker. *)
NoUseAfterDelete == ~undefined

(* Shrunk throws no message away: what is left in the queue of a deleted   *)
(* worker was put there by a poster that had chosen it before and posted   *)
(* after it was erased.                                                    *)
LostOnlyToLatePost == \A w \in deleted : queue[w] # <<>> => w \in late

(* What the pool's threads have come to, for the leads-to properties.      *)
Queued(m) == \E w \in Workers : m \in ToSet(queue[w])
RunOrClosed(m) == m \in done \/ \E w \in Workers : m \in ToSet(queue[w]) /\ quit[w]
OwnerAt(place) == owner.at = place
CloseMissed == missed # {}
Unclosed == \E k \in DOMAIN workers : ~quit[workers[k]]
==============================================================================
