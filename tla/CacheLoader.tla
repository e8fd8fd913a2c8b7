----------------------------- MODULE CacheLoader -----------------------------
(***************************************************************************)
(* CacheLoader of ReplicaCluster: a producer thread that lists the ids of  *)
(* all objects, consumer threads that make the objects and offer them to   *)
(* the agents of all cache servers, and renew, which begins a load when a  *)
(* server appears or has restarted.  A load of a server takes the rest of  *)
(* the round that is under way and then another one up to the id where it  *)
(* came in.  Of an agent only the status is modelled (PrxAgent has its     *)
(* queue).  The ids of the producer and the objects of the factory are     *)
(* external.  A section under one mutex is one action; invoke, which holds *)
(* the mutex of the queue but reads and writes without that of the         *)
(* producer, is two.                                                       *)
(***************************************************************************)
EXTENDS Naturals, Sequences, FiniteSets, SequencesExt

CONSTANTS
  Servers,             \* cache servers, by their endpoint
  Threads,             \* consumer threads
  ModOf,               \* mod of each server
  Cluster,             \* number of mods
  MaxId,               \* the ids are 1 .. MaxId
  produce_batch_size, consume_batch_size,
  QueueLimit,          \* _consume_batch_size * _thread_size * 100
  IdList,              \* whether the factory is given the ids of loading mods only
  MayFail,             \* whether produce may fail
  MaxRenews            \* bound: calls of renew

LoaderAssumption ==
  /\ Cluster \in Nat \ {0} /\ ModOf \in [Servers -> 0 .. Cluster - 1]
  /\ MaxId \in Nat /\ produce_batch_size \in Nat \ {0} /\ consume_batch_size \in Nat \ {0}
  /\ QueueLimit \in Nat \ {0} /\ MaxRenews \in Nat

VARIABLES
  map, agent,                          \* _mapPrx, and the status of each agent
  que, waiting, loadingMod,            \* _queIds, _waitingConsumers, _loadingMod
  targetId, nextLoop, producing,       \* _targetId, _nextLoop, _producing
  consumeTo,                           \* _consumeTo
  ppc, prod,                           \* the producer: place, and beginId, maxId, ids, next
  cpc, cv, valid, hand, top, rest,     \* a consumer: place, cValid, _valid, ids, maxId, agents to do
  rpc, toLoad, tmp, renews             \* renew: place, toBeLoad, targetIdTmp, calls

agentVars == <<map, agent>>
queueVars == <<que, waiting, loadingMod>>
loopVars == <<targetId, nextLoop, producing, consumeTo>>
producerVars == <<ppc, prod>>
consumerVars == <<cpc, cv, valid, hand, top, rest>>
renewVars == <<rpc, toLoad, tmp, renews>>
vars == <<agentVars, queueVars, loopVars, producerVars, consumerVars, renewVars>>

(* History of the load of an agent: got, the ids taken since it began;     *)
(* calm, whether it began with all threads at rest (and so at id 0) and    *)
(* was alone since; listed, up to which id the first round of a calm load  *)
(* has been listed, and failed, whether produce has failed in that round.  *)
NewLoad == [got |-> {}, listed |-> 0, failed |-> FALSE]

NewAgent == NewLoad @@ [target |-> 0, next |-> FALSE, valid |-> TRUE, calm |-> FALSE]

Init ==
  /\ map = {} /\ agent = [s \in Servers |-> NewAgent]
  /\ que = <<>> /\ waiting = 0 /\ loadingMod = {}
  /\ targetId = 0 /\ nextLoop = FALSE /\ producing = FALSE /\ consumeTo = 0
  /\ ppc = "top" /\ prod = [begin |-> 0, max |-> 0, ids |-> <<>>, next |-> FALSE]
  /\ cpc = [c \in Threads |-> "begin"] /\ cv = [c \in Threads |-> TRUE]
  /\ valid = [c \in Threads |-> TRUE] /\ hand = [c \in Threads |-> <<>>]
  /\ top = [c \in Threads |-> 0] /\ rest = [c \in Threads |-> {}]
  /\ rpc = "idle" /\ toLoad = {} /\ tmp = 0 /\ renews = 0

Asleep == {c \in Threads : cpc[c] = "asleep"}

(* _queMutex is held across steps by invoke only.                          *)
QueMutexFree == rpc # "invoking" /\ \A c \in Threads : cpc[c] # "invoking"

GotoC(c, place) == cpc' = [cpc EXCEPT ![c] = place]

-----------------------------------------------------------------------------
(* PrxAgent: setNextLoop(false), and add of one id.                        *)
NoNextLoop == [s \in Servers |-> IF s \in map THEN [agent[s] EXCEPT !.next = FALSE] ELSE agent[s]]

Added(s, a, id) ==
  IF a.valid THEN a
  ELSE [a EXCEPT !.valid = ~a.next /\ id >= a.target,
                 !.got = IF id % Cluster = ModOf[s] THEN @ \cup {id} ELSE @]

-----------------------------------------------------------------------------
(* invoke, first half: nothing to do if the producer runs; at the very end *)
(* the next load begins from the start.                                    *)
InvokeStarts == ~producing /\ nextLoop
InvokeEnds == ~producing /\ ~nextLoop

(* Fault: a round begun by renew passes for the second one.                *)
InvokeFirstAsSecond(second) ==
  /\ agent' = IF InvokeStarts THEN NoNextLoop ELSE agent
  /\ consumeTo' = IF InvokeEnds THEN 0 ELSE consumeTo

InvokeFirst(second) ==
  /\ agent' = IF InvokeStarts /\ second THEN NoNextLoop ELSE agent
  /\ consumeTo' = IF InvokeEnds THEN 0 ELSE consumeTo

(* Second half: the producer is set going.                                 *)
InvokeSecond(second) ==
  /\ nextLoop' = (nextLoop /\ ~second)
  /\ producing' = TRUE
  /\ ppc' = IF ppc = "wait" THEN "top" ELSE ppc

-----------------------------------------------------------------------------
(* The consumers.                                                          *)
begin(c) ==
  /\ cpc[c] = "begin"
  /\ cv' = [cv EXCEPT ![c] = valid[c]]
  /\ GotoC(c, "consume")
  /\ UNCHANGED <<agentVars, queueVars, loopVars, producerVars, valid, hand, top, rest, renewVars>>

(* Fault: the round is over when one consumer is left.                     *)
LastButOneWaits == waiting + 1 >= Cardinality(Threads) - 1

LastWaits == waiting + 1 = Cardinality(Threads)

(* consume, with the queue empty.                                          *)
consumeWait(c) ==
  /\ cpc[c] = "consume" /\ QueMutexFree /\ que = <<>>
  /\ waiting' = waiting + 1
  /\ IF LastWaits THEN InvokeFirst(cv[c]) ELSE UNCHANGED <<agent, consumeTo>>
  /\ GotoC(c, IF LastWaits /\ InvokeStarts THEN "invoking" ELSE "asleep")
  /\ UNCHANGED <<map, que, loadingMod, targetId, nextLoop, producing, producerVars, cv, valid,
                 hand, top, rest, renewVars>>

consumeInvokes(c) ==
  /\ cpc[c] = "invoking"
  /\ InvokeSecond(cv[c])
  /\ GotoC(c, "asleep")
  /\ UNCHANGED <<agentVars, queueVars, targetId, consumeTo, prod, cv, valid, hand, top, rest,
                 renewVars>>

NoLongerWaiting == waiting - 1

consumeWoken(c) ==
  /\ cpc[c] = "woken" /\ QueMutexFree
  /\ waiting' = NoLongerWaiting
  /\ GotoC(c, "consume")
  /\ UNCHANGED <<agentVars, que, loadingMod, loopVars, producerVars, cv, valid, hand, top, rest,
                 renewVars>>

RoomForMore(left) == waiting = 0 /\ left < consume_batch_size * Cardinality(Threads)

(* consume, with ids in the queue; notify reaches the producer alone, for  *)
(* no consumer waits.                                                      *)
consume(c) ==
  LET n == IF Len(que) < consume_batch_size THEN Len(que) ELSE consume_batch_size
      left == Len(que) - n
  IN /\ cpc[c] = "consume" /\ QueMutexFree /\ que # <<>>
     /\ hand' = [hand EXCEPT ![c] =
                   SelectSeq(SubSeq(que, 1, n), LAMBDA id : ~IdList \/ id % Cluster \in loadingMod)]
     /\ top' = [top EXCEPT ![c] = que[n]]
     /\ que' = SubSeq(que, n + 1, Len(que))
     /\ ppc' = IF RoomForMore(left) /\ ppc = "full" THEN "fullWoken" ELSE ppc
     /\ GotoC(c, "consumeTo")
     /\ UNCHANGED <<agentVars, waiting, loadingMod, loopVars, prod, cv, valid, rest, renewVars>>

(* The end of consume, and _valid = true.                                  *)
setConsumeTo(c) ==
  /\ cpc[c] = "consumeTo"
  /\ consumeTo' = IF ~cv[c] THEN 0 ELSE IF top[c] > consumeTo THEN top[c] ELSE consumeTo
  /\ valid' = [valid EXCEPT ![c] = TRUE]
  /\ GotoC(c, "create")
  /\ UNCHANGED <<agentVars, queueVars, targetId, nextLoop, producing, producerVars, cv, hand, top,
                 rest, renewVars>>

(* The objects are made and _mapPrx.getMap() copied.                       *)
create(c) ==
  /\ cpc[c] = "create"
  /\ rest' = [rest EXCEPT ![c] = map]
  /\ GotoC(c, "add")
  /\ UNCHANGED <<agentVars, queueVars, loopVars, producerVars, cv, valid, hand, top, renewVars>>

add(c) ==
  /\ cpc[c] = "add"
  /\ IF rest[c] = {}
     THEN /\ GotoC(c, "begin") /\ hand' = [hand EXCEPT ![c] = <<>>]
          /\ UNCHANGED <<agent, rest>>
     ELSE \E s \in rest[c] :
            /\ agent' = [agent EXCEPT ![s] =
                           FoldLeft(LAMBDA a, id : Added(s, a, id), @, hand[c])]
            /\ rest' = [rest EXCEPT ![c] = @ \ {s}]
            /\ UNCHANGED <<cpc, hand>>
  /\ UNCHANGED <<map, queueVars, loopVars, producerVars, cv, valid, top, renewVars>>

Consumer(c) ==
  \/ begin(c) \/ consumeWait(c) \/ consumeInvokes(c) \/ consumeWoken(c) \/ consume(c)
  \/ setConsumeTo(c) \/ create(c) \/ add(c)

-----------------------------------------------------------------------------
(* The producer.                                                           *)
runTop ==
  /\ ppc = "top"
  /\ ppc' = IF producing THEN "produce" ELSE "wait"
  /\ prod' = [begin |-> 0, max |-> 0, ids |-> <<>>, next |-> TRUE]
  /\ UNCHANGED <<agentVars, queueVars, loopVars, consumerVars, renewVars>>

(* A load that is still to have another round takes note of a call.        *)
Listed(a, end, fails) ==
  IF a.calm /\ a.next THEN [a EXCEPT !.listed = end, !.failed = @ \/ fails] ELSE a

(* _producer->produce; an exception looks like the end of the ids.         *)
produce(fails) ==
  LET last == IF prod.max + produce_batch_size < MaxId THEN prod.max + produce_batch_size ELSE MaxId
      end == IF fails THEN prod.max ELSE last
  IN /\ ppc = "produce" /\ (fails => MayFail)
     /\ prod' = [begin |-> prod.max, max |-> end, next |-> TRUE,
                 ids |-> [k \in 1 .. end - prod.max |-> prod.max + k]]
     /\ agent' = [s \in Servers |-> Listed(agent[s], end, fails)]
     /\ ppc' = "decide"
     /\ UNCHANGED <<map, queueVars, loopVars, consumerVars, renewVars>>

ReachedTarget == prod.max >= targetId \/ prod.max = prod.begin

(* Under _pMutex: whether the round is over.                               *)
decide ==
  /\ ppc = "decide"
  /\ LET over == IF nextLoop THEN prod.max = prod.begin ELSE ReachedTarget
     IN /\ producing' = (producing /\ ~over)
        /\ targetId' = IF over /\ ~nextLoop THEN prod.max ELSE targetId
        /\ prod' = [prod EXCEPT !.next = ~over /\ producing]
  /\ ppc' = "push"
  /\ UNCHANGED <<agentVars, queueVars, nextLoop, consumeTo, consumerVars, renewVars>>

AfterPush == IF prod.next THEN "produce" ELSE "top"


TellConsumer ==
  IF Asleep = {} THEN UNCHANGED cpc ELSE \E c \in Asleep : GotoC(c, "woken")

push ==
  /\ ppc = "push" /\ QueMutexFree
  /\ que' = que \o prod.ids
  /\ IF waiting # 0 THEN TellConsumer ELSE UNCHANGED cpc
  /\ ppc' = IF waiting = 0 /\ Len(que') > QueueLimit THEN "full" ELSE AfterPush
  /\ UNCHANGED <<agentVars, waiting, loadingMod, loopVars, prod, cv, valid, hand, top, rest,
                 renewVars>>

(* Woken by a consumer, or by stop.                                        *)
fullWoken ==
  /\ ppc = "fullWoken"
  /\ ppc' = IF producing THEN AfterPush ELSE "top"
  /\ UNCHANGED <<agentVars, queueVars, loopVars, prod, consumerVars, renewVars>>

Producer == runTop \/ decide \/ push \/ fullWoken \/ \E fails \in BOOLEAN : produce(fails)

-----------------------------------------------------------------------------
(* renew with the servers that are up, those of them that have restarted   *)
(* (newset) and those whose status is 0, up to setLoadingMod.              *)
Loading(up) == {s \in map \cap up : ~agent[s].valid}

renew(up, newset, empty) ==
  /\ rpc = "idle" /\ renews < MaxRenews /\ QueMutexFree
  /\ renews' = renews + 1
  /\ map' = up
  /\ toLoad' = (map \cap newset) \cup (empty \ map)
  /\ agent' = [s \in Servers |-> IF s \in up \ map THEN NewAgent
                                 ELSE [agent[s] EXCEPT !.calm = @ /\ toLoad' = {}]]
  /\ loadingMod' = {ModOf[s] : s \in Loading(up) \cup (empty \ map)}
  /\ rpc' = IF toLoad' # {} THEN "readConsumeTo" ELSE IF Loading(up) = {} THEN "stop" ELSE "idle"
  /\ UNCHANGED <<que, waiting, loopVars, producerVars, consumerVars, tmp>>

AtRest ==
  /\ que = <<>> /\ ~producing /\ ppc = "wait" /\ \A c \in Threads : cpc[c] = "asleep"

(* ProduceThread::reset.                                                   *)
resetRead ==
  /\ rpc = "readConsumeTo" /\ tmp' = consumeTo /\ rpc' = "setTarget"
  /\ UNCHANGED <<agentVars, queueVars, loopVars, producerVars, consumerVars, toLoad, renews>>

resetTarget ==
  /\ rpc = "setTarget"
  /\ agent' = [s \in Servers |-> IF s \in toLoad
                                 THEN NewLoad @@
                                      [target |-> tmp, next |-> TRUE, valid |-> FALSE,
                                       calm |-> AtRest /\ tmp = 0 /\ ModOf[s] \in loadingMod]
                                 ELSE agent[s]]
  /\ rpc' = "nextLoop"
  /\ UNCHANGED <<map, queueVars, loopVars, producerVars, consumerVars, toLoad, tmp, renews>>

resetLoop ==
  /\ rpc = "nextLoop"
  /\ targetId' = tmp /\ nextLoop' = TRUE
  /\ rpc' = "invoke"
  /\ UNCHANGED <<agentVars, queueVars, producing, consumeTo, producerVars, consumerVars, toLoad,
                 tmp, renews>>

resetInvoke ==
  LET idle == que = <<>> /\ waiting = Cardinality(Threads) IN
  /\ rpc = "invoke" /\ QueMutexFree
  /\ IF idle THEN InvokeFirst(FALSE) ELSE UNCHANGED <<agent, consumeTo>>
  /\ rpc' = (IF idle /\ InvokeStarts THEN "invoking" ELSE "idle") /\ toLoad' = {}
  /\ UNCHANGED <<map, queueVars, targetId, nextLoop, producing, producerVars, consumerVars, tmp,
                 renews>>

resetInvokes ==
  /\ rpc = "invoking"
  /\ InvokeSecond(FALSE)
  /\ rpc' = "idle"
  /\ UNCHANGED <<agentVars, queueVars, targetId, consumeTo, prod, consumerVars, toLoad, tmp, renews>>

(* ProduceThread::stop, under its four mutexes one after the other.        *)
stop ==
  /\ \/ /\ rpc = "stop" /\ rpc' = "stopQueue"
        /\ targetId' = 0 /\ nextLoop' = FALSE /\ producing' = FALSE
        /\ UNCHANGED <<que, ppc, valid, consumeTo>>
     \/ /\ rpc = "stopQueue" /\ QueMutexFree /\ rpc' = "stopConsumers"
        /\ que' = <<>> /\ ppc' = IF waiting = 0 /\ ppc = "full" THEN "fullWoken" ELSE ppc
        /\ UNCHANGED <<targetId, nextLoop, producing, valid, consumeTo>>
     \/ /\ rpc = "stopConsumers" /\ rpc' = "stopConsumeTo"
        /\ valid' = [c \in Threads |-> FALSE]
        /\ UNCHANGED <<targetId, nextLoop, producing, que, ppc, consumeTo>>
     \/ /\ rpc = "stopConsumeTo" /\ rpc' = "idle"
        /\ consumeTo' = 0
        /\ UNCHANGED <<targetId, nextLoop, producing, que, ppc, valid>>
  /\ UNCHANGED <<agentVars, waiting, loadingMod, prod, cpc, cv, hand, top, rest, toLoad, tmp, renews>>

Renew == resetRead \/ resetTarget \/ resetLoop \/ resetInvoke \/ resetInvokes \/ stop

Next ==
  \/ \E c \in Threads : Consumer(c)
  \/ Producer
  \/ Renew
  \/ \E up \in SUBSET Servers : \E newset, empty \in SUBSET up : renew(up, newset, empty)

Spec == Init /\ [][Next]_vars

-----------------------------------------------------------------------------
TypeOK ==
  /\ map \subseteq Servers /\ loadingMod \subseteq 0 .. Cluster - 1
  /\ que \in Seq(1 .. MaxId) /\ waiting \in 0 .. Cardinality(Threads)
  /\ targetId \in 0 .. MaxId /\ consumeTo \in 0 .. MaxId
  /\ ppc \in {"top", "wait", "produce", "decide", "push", "full", "fullWoken"}
  /\ cpc \in [Threads -> {"begin", "consume", "invoking", "asleep", "woken", "consumeTo",
                          "create", "add"}]

(* invoke goes on only with the queue empty and every consumer waiting, as *)
(* its comment says: a round is begun only when no consumer has an object  *)
(* of the round before in its hands.  (What the comment says next, that    *)
(* the producer is not running then, is not so and not claimed here: run   *)
(* clears _producing before it has pushed the last ids.)                   *)
NoObjectAcrossRounds ==
  (rpc = "invoking" \/ \E c \in Threads : cpc[c] = "invoking") =>
    que = <<>> /\ \A c \in Threads : cpc[c] \in {"invoking", "asleep", "woken"}

(* A server whose load began with all threads at rest, and was not joined  *)
(* by another load, is told to be valid only after it has been offered     *)
(* every object of its mod that the first round has listed; and all of     *)
(* them have been listed, unless produce has failed: its exception is      *)
(* taken for the end of the ids, and the server is valid without the rest. *)
CalmLoadComplete ==
  \A s \in map : agent[s].calm /\ agent[s].valid =>
    /\ {id \in 1 .. agent[s].listed : id % Cluster = ModOf[s]} \subseteq agent[s].got
    /\ agent[s].listed = MaxId \/ agent[s].failed

(* What becomes of a load that began with all at rest.                     *)
LoadingCalmly(s) == agent[s].calm
LoadedOrGone(s) == s \notin map \/ agent[s].valid
==============================================================================
