-------------------------------- MODULE Pipe --------------------------------
(***************************************************************************)
(* Pipe and PipePool of UtilCxx: objects pushed to a pipe are collected    *)
(* and handled in batches by a timer that schedules itself again before it *)
(* does anything else.  All pipes are on one channel of ThreadPoolScheduler*)
(* and so on the one thread of its IceUtil::Timer, unless another user of  *)
(* the channel had missed the timer in the table when the first pipe made  *)
(* one: it then stores its own, and what is scheduled again goes there.    *)
(* The factory and handle(seq) are the service's, and external.            *)
(***************************************************************************)
EXTENDS Naturals, Sequences, FiniteSets, SequencesExt

CONSTANTS
  Pipes,    \* names with their index
  Makes,    \* those for which the factory makes a pipe
  Objects,  \* each is pushed once
  Threads,  \* IceUtil::Timers, each of which is one thread
  None

PipeAssumption == Makes \subseteq Pipes /\ IsFiniteSet(Objects) /\ None \notin Threads

VARIABLES
  factory,     \* whether _factory is set
  pool,        \* _pool: nothing, a null handle or a pipe
  queue,       \* _queue of each pipe
  channel,     \* the timer of the channel in ThreadPoolScheduler::_timers
  missed,      \* whether another user of the channel has missed it
  timers,      \* the timer each pipe is scheduled in
  pc, at, seq, \* a thread: place, pipe, and the batch it has popped
  fresh,       \* objects nobody has pushed yet
  pushed, handled, failed,  \* history: of each pipe
  overlap      \* history: pipes that two threads have handled at once

threadVars == <<pc, at, seq>>
history == <<pushed, handled, failed, overlap>>
vars == <<factory, pool, queue, channel, missed, timers, threadVars, fresh, history>>

Init ==
  /\ factory = FALSE /\ pool = [p \in Pipes |-> "none"]
  /\ queue = [p \in Pipes |-> <<>>] /\ timers = [p \in Pipes |-> None]
  /\ channel = None /\ missed = FALSE
  /\ pc = [t \in Threads |-> "idle"]
  /\ at = [t \in Threads |-> CHOOSE p \in Pipes : TRUE] /\ seq = [t \in Threads |-> <<>>]
  /\ fresh = Objects /\ overlap = {}
  /\ pushed = [p \in Pipes |-> <<>>] /\ handled = [p \in Pipes |-> <<>>]
  /\ failed = [p \in Pipes |-> {}]

initialize ==
  /\ ~factory /\ factory' = TRUE
  /\ UNCHANGED <<pool, queue, channel, missed, timers, threadVars, fresh, history>>

(* Another user of the channel schedules: it looks for a timer, finds none *)
(* and stores one of its own, whatever is there by now.                    *)
otherMisses ==
  /\ channel = None /\ ~missed /\ missed' = TRUE
  /\ UNCHANGED <<factory, pool, queue, channel, timers, threadVars, fresh, history>>

otherStores ==
  /\ missed /\ missed' = FALSE
  /\ channel' \in Threads \ {channel}
  /\ UNCHANGED <<factory, pool, queue, timers, threadVars, fresh, history>>

(* Fault: the object goes to the front.                                    *)
PushedInFront(p, o) == <<o>> \o queue[p]

Pushed(p, o) == Append(queue[p], o)

(* PipePool::push and Pipe::push; the object is dropped if there is no     *)
(* factory, and by the exception of a null handle.                         *)
push(p, o) ==
  LET made == pool[p] = "pipe" \/ (factory /\ pool[p] = "none" /\ p \in Makes)
      new == factory /\ pool[p] = "none"
  IN /\ o \in fresh /\ fresh' = fresh \ {o}
     /\ pool' = IF new THEN [pool EXCEPT ![p] = IF p \in Makes THEN "pipe" ELSE "null"] ELSE pool
     /\ IF new /\ made
        THEN \E t \in IF channel = None THEN Threads ELSE {channel} :
               channel' = t /\ timers' = [timers EXCEPT ![p] = t]
        ELSE UNCHANGED <<channel, timers>>
     /\ queue' = IF made THEN [queue EXCEPT ![p] = Pushed(p, o)] ELSE queue
     /\ pushed' = IF made THEN [pushed EXCEPT ![p] = Append(@, o)] ELSE pushed
     /\ UNCHANGED <<factory, missed, threadVars, handled, failed, overlap>>

(* Fault: a pipe that is empty is not scheduled again.                     *)
RescheduledIfFull(p) == IF queue[p] = <<>> THEN None ELSE channel

Rescheduled(p) == channel

(* The timer runs, and the pipe is scheduled again.                        *)
handle(t, p) ==
  /\ pc[t] = "idle" /\ timers[p] = t
  /\ timers' = [timers EXCEPT ![p] = Rescheduled(p)]
  /\ pc' = [pc EXCEPT ![t] = "pop"] /\ at' = [at EXCEPT ![t] = p]
  /\ overlap' = IF \E u \in Threads \ {t} : pc[u] # "idle" /\ at[u] = p
                THEN overlap \cup {p} ELSE overlap
  /\ UNCHANGED <<factory, pool, queue, channel, missed, seq, fresh, pushed, handled, failed>>

(* Fault: the queue is copied.                                             *)
Copied(p) == queue[p]

Emptied(p) == <<>>

pop(t) ==
  /\ pc[t] = "pop"
  /\ seq' = [seq EXCEPT ![t] = queue[at[t]]]
  /\ queue' = [queue EXCEPT ![at[t]] = Emptied(at[t])]
  /\ pc' = [pc EXCEPT ![t] = IF queue[at[t]] = <<>> THEN "idle" ELSE "handle"]
  /\ UNCHANGED <<factory, pool, channel, missed, timers, at, fresh, history>>

(* handle(seq), of which an exception leaves the rest undone.              *)
handleSeq(t, n) ==
  /\ pc[t] = "handle"
  /\ handled' = [handled EXCEPT ![at[t]] = @ \o SubSeq(seq[t], 1, n)]
  /\ failed' = [failed EXCEPT ![at[t]] = @ \cup Range(SubSeq(seq[t], n + 1, Len(seq[t])))]
  /\ pc' = [pc EXCEPT ![t] = "idle"] /\ seq' = [seq EXCEPT ![t] = <<>>]
  /\ UNCHANGED <<factory, pool, queue, channel, missed, timers, at, fresh, pushed, overlap>>

Runs(t) == pop(t) \/ \E n \in 0 .. Len(seq[t]) : handleSeq(t, n)

Next ==
  \/ initialize \/ otherMisses \/ otherStores
  \/ \E p \in Pipes, o \in Objects : push(p, o)
  \/ \E t \in Threads : Runs(t) \/ \E p \in Pipes : handle(t, p)

Spec == Init /\ [][Next]_vars

-----------------------------------------------------------------------------
TypeOK ==
  /\ pool \in [Pipes -> {"none", "null", "pipe"}] /\ \A p \in Pipes : queue[p] \in Seq(Objects)
  /\ timers \in [Pipes -> Threads \cup {None}] /\ pc \in [Threads -> {"idle", "pop", "handle"}]
  /\ channel \in Threads \cup {None} /\ missed \in BOOLEAN
  /\ \A p \in Pipes : pool[p] = "pipe" <=> timers[p] # None

(* Every object that a pipe has taken is in its queue, in one batch, was   *)
(* handled or was in a batch that failed, and not in two of these.         *)
TakenOnce ==
  \A p \in Pipes :
    LET batches == {seq[t] : t \in {u \in Threads : at[u] = p}}
        places == {Range(queue[p]), Range(handled[p]), failed[p]} \cup {Range(b) : b \in batches}
    IN /\ Range(pushed[p]) = UNION places
       /\ IsInjective(handled[p])
       /\ \A a, b \in places : a = b \/ a \cap b = {}
       /\ \A t, u \in Threads : t # u /\ at[t] = p /\ at[u] = p => Range(seq[t]) \cap Range(seq[u]) = {}

(* A pipe hands its objects on in the order they came, unless the threads  *)
(* of two timers were in its handle at once; and that happens only when    *)
(* the channel was given a second timer.                                   *)
OrderUnlessOverlap ==
  \A p \in Pipes \ overlap :
    handled[p] = SelectSeq(pushed[p], LAMBDA o : o \in Range(handled[p]))

Queued(p, o) == o \in Range(queue[p])
HandledOrFailed(p, o) == o \in Range(handled[p]) \cup failed[p]
=============================================================================
