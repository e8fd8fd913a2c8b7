------------------------------ MODULE PrxAgent ------------------------------
(***************************************************************************)
(* PrxAgent of ReplicaCluster/CacheLoader: the queue of what is still to   *)
(* be written to one cache server, the thread that writes it, and the      *)
(* status that decides when the server is told that it is complete.  The   *)
(* consumers of the loader call add; the loader calls setTarget and        *)
(* setNextLoop.  Calls to the server are made through RedoMonitor, which   *)
(* tries twice; a call that times out may have been executed.              *)
(***************************************************************************)
EXTENDS Naturals, Sequences, FiniteSets, SequencesExt

CONSTANTS
  Consumers,         \* threads that call add
  Ids,               \* ids of objects
  OwnIds,            \* those with id % _cluster == _mod whose object is not null
  write_batch_size,  \* _write_batch_size
  MaxLoads           \* bound: calls of setTarget

AgentAssumption ==
  /\ Ids \subseteq Nat \ {0} /\ OwnIds \subseteq Ids
  /\ write_batch_size \in Nat \ {0} /\ MaxLoads \in Nat

VARIABLES
  target_id, next_loop, is_valid,  \* _target_id, _next_loop, _is_valid
  datas,                           \* datas_
  cpc, item,                       \* of each consumer: place in add, and the id it adds
  wpc, vec, tries,                 \* the writer: place, vecTmp, calls of setData left
  written, lost,                   \* ids the server has, and ids given up
  serverValid, told,               \* whether the server is valid; whether it was tried to tell it
  accepted, loads                  \* history: ids taken by add since setTarget; calls of it

status == <<target_id, next_loop, is_valid>>
consumerVars == <<cpc, item>>
writerVars == <<wpc, vec, tries>>
serverVars == <<written, lost, serverValid, told>>
vars == <<status, datas, consumerVars, writerVars, serverVars, accepted, loads>>

Nothing == 0

Init ==
  /\ target_id = 0 /\ next_loop = FALSE /\ is_valid = TRUE /\ datas = <<>>
  /\ cpc = [c \in Consumers |-> "idle"] /\ item = [c \in Consumers |-> Nothing]
  /\ wpc = "swap" /\ vec = <<>> /\ tries = 0
  /\ written = {} /\ lost = {} /\ serverValid = FALSE /\ told = FALSE
  /\ accepted = {} /\ loads = 0

-----------------------------------------------------------------------------
(* The loader.  The server has restarted, empty and not valid.             *)
setTarget(t) ==
  /\ loads < MaxLoads /\ loads' = loads + 1
  /\ target_id' = t /\ next_loop' = TRUE /\ is_valid' = FALSE
  /\ serverValid' = FALSE /\ told' = FALSE /\ accepted' = {}
  /\ UNCHANGED <<datas, consumerVars, writerVars, written, lost>>

setNextLoop ==
  /\ next_loop /\ next_loop' = FALSE
  /\ UNCHANGED <<target_id, is_valid, datas, consumerVars, writerVars, serverVars, accepted, loads>>

-----------------------------------------------------------------------------
Final(id) == ~next_loop /\ id >= target_id

(* add, under _statusMutex.                                                *)
add(c, id) ==
  /\ cpc[c] = "idle"
  /\ ~is_valid
  /\ is_valid' = Final(id)
  /\ cpc' = [cpc EXCEPT ![c] = IF id \in OwnIds THEN "invokeDelay"
                               ELSE IF Final(id) THEN "final" ELSE "idle"]
  /\ item' = [item EXCEPT ![c] = IF id \in OwnIds \/ Final(id) THEN id ELSE Nothing]
  /\ accepted' = IF id \in OwnIds THEN accepted \cup {id} ELSE accepted
  /\ UNCHANGED <<target_id, next_loop, datas, writerVars, serverVars, loads>>

(* setValid, under _statusMutex: the call may fail twice.                  *)
setValid ==
  /\ serverValid' \in IF is_valid THEN {TRUE, serverValid} ELSE {serverValid}
  /\ told' = (told \/ is_valid)

(* Fault: the final id of another server tells nobody.                     *)
SilentFinal == UNCHANGED <<serverValid, told>>

(* The final id was not for this server: with nothing in the queue nobody  *)
(* else would call setValid.                                               *)
TellIfEmpty == IF datas = <<>> THEN setValid ELSE UNCHANGED <<serverValid, told>>

addFinal(c) ==
  /\ cpc[c] = "final"
  /\ TellIfEmpty
  /\ cpc' = [cpc EXCEPT ![c] = "idle"] /\ item' = [item EXCEPT ![c] = Nothing]
  /\ UNCHANGED <<status, datas, writerVars, written, lost, accepted, loads>>

Full == Len(datas) + 1 > write_batch_size * 2

Push(c, woken) ==
  /\ datas' = Append(datas, item[c])
  /\ cpc' = [d \in Consumers |-> IF d = c THEN "idle"
                                 ELSE IF d \in woken THEN "woken" ELSE cpc[d]]
  /\ item' = [item EXCEPT ![c] = Nothing]

(* invokeDelay: the one that makes up a batch notifies one of the threads  *)
(* that wait, which may be the writer or another consumer.                 *)
invokeDelay(c) ==
  /\ cpc[c] \in {"invokeDelay", "woken"}
  /\ \/ /\ cpc[c] = "invokeDelay" /\ Len(datas) + 1 = write_batch_size
        /\ \E woken \in {{}} \cup {{d} : d \in {d \in Consumers : cpc[d] = "asleep"}} :
             Push(c, woken)
     \/ /\ cpc[c] = "invokeDelay" => Len(datas) + 1 # write_batch_size
        /\ IF Full THEN /\ cpc' = [cpc EXCEPT ![c] = "asleep"]
                        /\ UNCHANGED <<datas, item>>
           ELSE Push(c, {})
  /\ UNCHANGED <<status, writerVars, serverVars, accepted, loads>>

Add(c) == addFinal(c) \/ invokeDelay(c)

-----------------------------------------------------------------------------
(* Fault: the writer takes one batch and forgets the rest.                 *)
TakenBatch == SubSeq(datas, 1, IF Len(datas) < write_batch_size THEN Len(datas) ELSE write_batch_size)

(* datas_.swap(empty_vector)                                               *)
Taken == datas

(* Fault: a consumer that waits for room is not told.                      *)
NobodyWoken == cpc

AllWoken == [c \in Consumers |-> IF cpc[c] = "asleep" THEN "woken" ELSE cpc[c]]

(* The writer: swap waits, for five seconds at most, for a batch to make   *)
(* up; an empty vector sends it back to swap.                              *)
swap ==
  /\ \/ wpc = "swap" /\ Len(datas) >= write_batch_size
     \/ wpc = "timedWait"
  /\ vec' = Taken /\ datas' = <<>> /\ cpc' = AllWoken
  /\ wpc' = (IF datas = <<>> THEN "swap" ELSE "setData") /\ tries' = 2
  /\ UNCHANGED <<status, item, serverVars, accepted, loads>>

timedWait ==
  /\ wpc = "swap" /\ Len(datas) < write_batch_size
  /\ wpc' = "timedWait"
  /\ UNCHANGED <<status, datas, consumerVars, vec, tries, serverVars, accepted, loads>>

(* Fault: a call that failed is not made again.                            *)
NeverRedo == TRUE

(* redo() makes the second call, and there is no third.                    *)
GivenUp == tries = 1

(* monitorHandle and redo: done says whether the server executed the call, *)
(* known whether the agent learns of it.                                   *)
setData(done, known) ==
  /\ wpc = "setData" /\ (known => done)
  /\ written' = IF done THEN written \cup ToSet(vec) ELSE written
  /\ tries' = tries - 1
  /\ wpc' = IF known \/ GivenUp THEN "setValid" ELSE "setData"
  /\ lost' = IF ~known /\ GivenUp THEN lost \cup ToSet(vec) ELSE lost
  /\ UNCHANGED <<status, datas, consumerVars, vec, serverValid, told, accepted, loads>>

writerSetValid ==
  /\ wpc = "setValid"
  /\ setValid
  /\ wpc' = "swap" /\ vec' = <<>>
  /\ UNCHANGED <<status, datas, consumerVars, tries, written, lost, accepted, loads>>

Writer == swap \/ timedWait \/ writerSetValid \/ \E done, known \in BOOLEAN : setData(done, known)

Next ==
  \/ \E t \in {0} \cup Ids : setTarget(t)
  \/ setNextLoop
  \/ \E c \in Consumers : Add(c) \/ \E id \in Ids : add(c, id)
  \/ Writer

Spec == Init /\ [][Next]_vars

-----------------------------------------------------------------------------
TypeOK ==
  /\ target_id \in {0} \cup Ids /\ next_loop \in BOOLEAN /\ is_valid \in BOOLEAN
  /\ datas \in Seq(Ids) /\ vec \in Seq(Ids) /\ tries \in 0 .. 2
  /\ cpc \in [Consumers -> {"idle", "final", "invokeDelay", "asleep", "woken"}]
  /\ wpc \in {"swap", "timedWait", "setData", "setValid"}
  /\ Len(datas) <= write_batch_size * 2

(* What add has taken is written, or given up after two calls, or still on *)
(* its way: no interleaving of consumers that wait for room with the swap  *)
(* loses an object.                                                        *)
NothingDropped ==
  \A id \in accepted :
    \/ id \in written \cup lost \cup ToSet(datas) \cup ToSet(vec)
    \/ \E c \in Consumers : item[c] = id

(* An object is given up only when the server was called twice for it.     *)
GivenUpAfterTwo == \A k \in DOMAIN vec : wpc = "setValid" =>
  vec[k] \in written \/ tries = 0

WaitsForRoom(c) == cpc[c] = "asleep"
FinalTaken == is_valid /\ loads > 0
ToldOrReset == told \/ ~is_valid
=============================================================================
