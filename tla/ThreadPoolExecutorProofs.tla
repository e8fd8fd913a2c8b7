----------------------- MODULE ThreadPoolExecutorProofs -----------------------
(***************************************************************************)
(* Proofs about ThreadPoolExecutor for any number of clients, workers and  *)
(* tasks, any sizes and any mix of operations.                             *)
(***************************************************************************)
EXTENDS ThreadPoolExecutor, FiniteSetTheorems, SequenceTheorems, TLAPS

(***************************************************************************)
(* Who holds what: the part of the inductive invariant that ties the       *)
(* clients' commands and handles and the workers' tasks to their program   *)
(* counters.                                                               *)
(***************************************************************************)
Submitting == {"checkCore", "addCore", "checkQueue", "push", "addMax", "pushMax"}

Custody ==
  /\ \A c \in Clients : command[c] # None <=> pc[c] \in Submitting
  /\ \A c \in Clients : pc[c] = "start" => handle[c] \in Workers /\ wpc[handle[c]] = "created"
  /\ \A c \in Clients, d \in Clients :
       pc[c] = "start" /\ pc[d] = "start" /\ handle[c] = handle[d] => c = d
  /\ \A w \in Workers : wpc[w] = "run" => task[w] # None
  /\ \A w \in Workers : task[w] # None => wpc[w] \in {"created", "failed", "run"}

Base == TypeOK /\ CountersExact /\ Custody

-----------------------------------------------------------------------------
(* A set of workers is finite, and its cardinality is a number. *)
LEMMA WorkersFinite ==
  ASSUME NEW S \in SUBSET Workers
  PROVE  IsFiniteSet(S) /\ Cardinality(S) \in Nat
BY PoolAssumption, FS_Subset, FS_CardinalityType

(* A step that changes neither the counters nor where the workers are      *)
(* leaves the counters exact.                                              *)
LEMMA CountersKept ==
  ASSUME CountersExact, UNCHANGED <<workers, poolSize, waitPoolSize, wpc>>
  PROVE  CountersExact'
BY DEF CountersExact, Waiting

(* A worker that moves on without entering or leaving the pool or the wait *)
(* leaves the counters exact.                                              *)
LEMMA CountersMoved ==
  ASSUME TypeOK, CountersExact,
         NEW w \in Workers, NEW to \in WorkerPC,
         wpc[w] # "none", to # "none",
         wpc[w] \in {"wait", "timedWait", "notified", "timedOut"}
           <=> to \in {"wait", "timedWait", "notified", "timedOut"},
         wpc' = [wpc EXCEPT ![w] = to],
         UNCHANGED <<workers, poolSize, waitPoolSize>>
  PROVE  CountersExact'
<1>1. \A v \in Workers : wpc'[v] = IF v = w THEN to ELSE wpc[v]
  BY DEF TypeOK
<1>2. Waiting' = Waiting
  BY <1>1 DEF Waiting
<1>3. {v \in Workers : wpc'[v] # "none"} = {v \in Workers : wpc[v] # "none"}
  BY <1>1
<1>4. QED
  BY <1>2, <1>3 DEF CountersExact

(* addThread counts the worker it creates. *)
LEMMA CountersAdd ==
  ASSUME TypeOK, CountersExact,
         NEW w \in FreeWorkers, NEW to \in {"created", "get", "failed"},
         wpc' = [wpc EXCEPT ![w] = to],
         workers' = workers \cup {w},
         poolSize' = poolSize + 1,
         UNCHANGED waitPoolSize
  PROVE  CountersExact'
<1>0. w \in Workers /\ wpc[w] = "none"
  BY DEF FreeWorkers
<1>1. \A v \in Workers : wpc'[v] = IF v = w THEN to ELSE wpc[v]
  BY <1>0 DEF TypeOK
<1>2. Waiting' = Waiting
  BY <1>0, <1>1 DEF Waiting
<1>3. {v \in Workers : wpc'[v] # "none"} = {v \in Workers : wpc[v] # "none"} \cup {w}
  BY <1>0, <1>1
<1>4. w \notin workers
  BY <1>0 DEF CountersExact
<1>5. Cardinality(workers \cup {w}) = Cardinality(workers) + 1
  BY <1>4, WorkersFinite, FS_AddElement DEF TypeOK
<1>6. QED
  BY <1>2, <1>3, <1>5 DEF CountersExact

(* Going to sleep and waking up keep _waitPoolSize exact. *)
LEMMA CountersSleep ==
  ASSUME TypeOK, CountersExact, NEW w \in Workers,
         wpc[w] = "get", NEW to \in {"wait", "timedWait"},
         wpc' = [wpc EXCEPT ![w] = to],
         waitPoolSize' = waitPoolSize + 1,
         UNCHANGED <<workers, poolSize>>
  PROVE  CountersExact'
<1>1. \A v \in Workers : wpc'[v] = IF v = w THEN to ELSE wpc[v]
  BY DEF TypeOK
<1>2. Waiting' = Waiting \cup {w} /\ w \notin Waiting
  BY <1>1 DEF Waiting
<1>3. {v \in Workers : wpc'[v] # "none"} = {v \in Workers : wpc[v] # "none"}
  BY <1>1
<1>4. Cardinality(Waiting \cup {w}) = Cardinality(Waiting) + 1
  <2>1. Waiting \in SUBSET Workers
    BY DEF Waiting
  <2>2. QED
    BY <1>2, <2>1, WorkersFinite, FS_AddElement
<1>5. QED
  BY <1>2, <1>3, <1>4 DEF CountersExact

(* A worker that has the lock again is no longer counted as waiting. *)
LEMMA CountersWake ==
  ASSUME TypeOK, CountersExact, NEW w \in Workers,
         wpc[w] \in {"notified", "timedOut"}, NEW to \in {"get", "canExit"},
         wpc' = [wpc EXCEPT ![w] = to],
         waitPoolSize' = waitPoolSize - 1,
         UNCHANGED <<workers, poolSize>>
  PROVE  CountersExact' /\ waitPoolSize' \in Nat
<1>1. \A v \in Workers : wpc'[v] = IF v = w THEN to ELSE wpc[v]
  BY DEF TypeOK
<1>2. Waiting' = Waiting \ {w} /\ w \in Waiting
  BY <1>1 DEF Waiting
<1>3. {v \in Workers : wpc'[v] # "none"} = {v \in Workers : wpc[v] # "none"}
  BY <1>1
<1>4. /\ Cardinality(Waiting \ {w}) = Cardinality(Waiting) - 1
      /\ Cardinality(Waiting \ {w}) \in Nat
  <2>1. Waiting \in SUBSET Workers /\ Waiting \ {w} \in SUBSET Workers
    BY DEF Waiting
  <2>2. QED
    BY <1>2, <2>1, WorkersFinite, FS_RemoveElement
<1>5. QED
  BY <1>2, <1>3, <1>4 DEF CountersExact

(* workerDone counts the worker out. *)
LEMMA CountersLeave ==
  ASSUME TypeOK, CountersExact, NEW w \in Workers,
         wpc[w] = "exit",
         wpc' = [wpc EXCEPT ![w] = "none"],
         workers' = workers \ {w},
         poolSize' = poolSize - 1,
         UNCHANGED waitPoolSize
  PROVE  CountersExact' /\ poolSize' \in Nat
<1>1. \A v \in Workers : wpc'[v] = IF v = w THEN "none" ELSE wpc[v]
  BY DEF TypeOK
<1>2. Waiting' = Waiting
  BY <1>1 DEF Waiting
<1>3. {v \in Workers : wpc'[v] # "none"} = {v \in Workers : wpc[v] # "none"} \ {w}
  BY <1>1
<1>4. w \in workers
  BY DEF CountersExact
<1>5. /\ Cardinality(workers \ {w}) = Cardinality(workers) - 1
      /\ Cardinality(workers \ {w}) \in Nat
  <2>1. workers \in SUBSET Workers /\ workers \ {w} \in SUBSET Workers
    BY DEF TypeOK
  <2>2. QED
    BY <1>4, <2>1, WorkersFinite, FS_RemoveElement
<1>6. QED
  BY <1>2, <1>3, <1>5 DEF CountersExact

(* setCorePoolSize counts every worker it creates. *)
LEMMA CountersGrow ==
  ASSUME TypeOK, CountersExact,
         NEW W \in SUBSET FreeWorkers, NEW F \in SUBSET W,
         wpc' = [w \in Workers |-> IF w \in F THEN "failed"
                                   ELSE IF w \in W THEN "get" ELSE wpc[w]],
         workers' = workers \cup W,
         poolSize' = poolSize + Cardinality(W),
         UNCHANGED waitPoolSize
  PROVE  CountersExact'
<1>0. W \in SUBSET Workers /\ \A w \in W : wpc[w] = "none"
  BY DEF FreeWorkers
<1>1. Waiting' = Waiting
  BY <1>0 DEF Waiting
<1>2. {v \in Workers : wpc'[v] # "none"} = {v \in Workers : wpc[v] # "none"} \cup W
  BY <1>0
<1>3. workers \cap W = {}
  BY <1>0 DEF CountersExact
<1>4. Cardinality(workers \cup W) = Cardinality(workers) + Cardinality(W)
  <2>1. workers \in SUBSET Workers
    BY DEF TypeOK
  <2>2. IsFiniteSet(workers) /\ IsFiniteSet(W)
    BY <1>0, <2>1, WorkersFinite
  <2>3. Cardinality(workers \cup W)
          = Cardinality(workers) + Cardinality(W) - Cardinality(workers \cap W)
    BY <2>2, FS_Union
  <2>4. Cardinality(workers \cap W) = 0
    BY <1>3, FS_EmptySet
  <2>5. Cardinality(workers) \in Nat /\ Cardinality(W) \in Nat
    BY <1>0, <2>1, WorkersFinite
  <2>6. QED
    BY <2>3, <2>4, <2>5
<1>5. QED
  BY <1>1, <1>2, <1>4 DEF CountersExact

-----------------------------------------------------------------------------
(* The program starts in the base invariant. *)
LEMMA BaseInit == Init => Base
<1> SUFFICES ASSUME Init PROVE Base
  OBVIOUS
<1>1. TypeOK
  BY PoolAssumption DEF Init, TypeOK, ClientPC, WorkerPC, Fates, InitialMaximum
<1>2. CountersExact
  <2>1. Waiting = {} /\ {w \in Workers : wpc[w] # "none"} = {}
    BY DEF Init, Waiting
  <2>2. QED
    BY <2>1, FS_EmptySet DEF Init, CountersExact
<1>3. Custody
  BY DEF Init, Custody, Submitting
<1>4. QED
  BY <1>1, <1>2, <1>3 DEF Base

(* A client that adds a thread keeps the base invariant. *)
LEMMA BaseAddThread ==
  ASSUME Base, NEW c \in Clients, NEW t \in Tasks \cup {None},
         pc[c] \in {"addCore", "addMax", "ensure"},
         addThread(c, t),
         UNCHANGED <<queue, waitPoolSize, completedTaskCount, configVars, newSize, fate>>
  PROVE  Base'
<1> USE DEF Base, configVars
<1>0. PICK w \in FreeWorkers :
        /\ workers' = workers \cup {w}
        /\ poolSize' = poolSize + 1
        /\ wpc' = [wpc EXCEPT ![w] = "created"]
        /\ task' = [task EXCEPT ![w] = t]
        /\ completed' = [completed EXCEPT ![w] = 0]
        /\ handle' = [handle EXCEPT ![c] = w]
        /\ command' = [command EXCEPT ![c] = None]
        /\ pc' = [pc EXCEPT ![c] = "start"]
  BY DEF addThread
<1>1. w \in Workers /\ wpc[w] = "none"
  BY DEF FreeWorkers
<1>2. TypeOK'
  BY <1>0, <1>1 DEF TypeOK, ClientPC, WorkerPC
<1>3. CountersExact'
  BY <1>0, CountersAdd
<1>4. Custody'
  <2>1. \A d \in Clients : /\ pc'[d] = IF d = c THEN "start" ELSE pc[d]
                           /\ handle'[d] = IF d = c THEN w ELSE handle[d]
                           /\ command'[d] = IF d = c THEN None ELSE command[d]
    BY <1>0 DEF TypeOK
  <2>2. \A v \in Workers : /\ wpc'[v] = IF v = w THEN "created" ELSE wpc[v]
                           /\ task'[v] = IF v = w THEN t ELSE task[v]
    BY <1>0, <1>1 DEF TypeOK
  <2>3. \A d \in Clients : pc[d] = "start" => handle[d] # w
    BY <1>1 DEF Custody
  <2>4. QED
    BY <1>1, <2>1, <2>2, <2>3 DEF Custody, Submitting
<1>5. QED
  BY <1>2, <1>3, <1>4

(* push_back with its notification keeps the base invariant. *)
LEMMA BasePush ==
  ASSUME Base, NEW c \in Clients, NEW to \in {"recheck", "idle"},
         pc[c] \in {"push", "pushMax"},
         pushBack(c),
         pc' = [pc EXCEPT ![c] = to],
         command' = [command EXCEPT ![c] = None],
         UNCHANGED <<configVars, handle, newSize, fate>>
  PROVE  Base'
<1> USE DEF Base, configVars
<1>1. command[c] \in Tasks
  BY DEF Custody, TypeOK, Submitting
<1>2. Append(queue, command[c]) \in Seq(Tasks)
  BY <1>1, AppendProperties DEF TypeOK
<1>3. UNCHANGED wpc \/ \E w \in Sleeping : wpc' = [wpc EXCEPT ![w] = "notified"]
  BY DEF pushBack, notify
<1>4. wpc' \in [Workers -> WorkerPC]
  BY <1>3 DEF TypeOK, WorkerPC, Sleeping
<1>5. TypeOK'
  <2>1. pc' \in [Clients -> ClientPC] /\ command' \in [Clients -> Tasks \cup {None}]
    BY DEF TypeOK, ClientPC
  <2>2. QED
    BY <1>2, <1>4, <2>1 DEF pushBack, TypeOK
<1>6. CountersExact'
  <2>1. CASE UNCHANGED wpc
    BY <2>1, CountersKept DEF pushBack
  <2>2. CASE \E w \in Sleeping : wpc' = [wpc EXCEPT ![w] = "notified"]
    <3>1. PICK w \in Sleeping : wpc' = [wpc EXCEPT ![w] = "notified"]
      BY <2>2
    <3>2. w \in Workers /\ wpc[w] \in {"wait", "timedWait"}
      BY DEF Sleeping
    <3>3. QED
      BY <3>1, <3>2, CountersMoved DEF pushBack, WorkerPC
  <2>3. QED
    BY <1>3, <2>1, <2>2
<1>7. Custody'
  <2>1. \A d \in Clients : /\ pc'[d] = IF d = c THEN to ELSE pc[d]
                           /\ command'[d] = IF d = c THEN None ELSE command[d]
    BY DEF TypeOK
  <2>2. \A v \in Workers :
          \/ wpc'[v] = wpc[v]
          \/ wpc[v] \in {"wait", "timedWait"} /\ wpc'[v] = "notified"
    <3>1. CASE UNCHANGED wpc
      BY <3>1
    <3>2. CASE \E w \in Sleeping : wpc' = [wpc EXCEPT ![w] = "notified"]
      <4>1. PICK w \in Sleeping : wpc' = [wpc EXCEPT ![w] = "notified"]
        BY <3>2
      <4>2. w \in Workers /\ wpc[w] \in {"wait", "timedWait"}
        BY DEF Sleeping
      <4>3. QED
        BY <4>1, <4>2 DEF TypeOK
    <3>3. QED
      BY <1>3, <3>1, <3>2
  <2>3. task' = task /\ handle' = handle
    BY DEF pushBack
  <2>4. QED
    BY <2>1, <2>2, <2>3 DEF Custody, Submitting
<1>8. QED
  BY <1>5, <1>6, <1>7

(* A worker that moves without touching its task or the pool keeps the     *)
(* base invariant.                                                         *)
LEMMA CustodyMoved ==
  ASSUME TypeOK, Custody, NEW w \in Workers, NEW to \in WorkerPC,
         wpc[w] \notin {"created", "failed", "run", "none"},
         to \notin {"created", "failed", "run"},
         wpc' = [wpc EXCEPT ![w] = to],
         UNCHANGED <<pc, command, handle, task>>
  PROVE  Custody'
<1>1. \A v \in Workers : wpc'[v] = IF v = w THEN to ELSE wpc[v]
  BY DEF TypeOK
<1>2. \A c \in Clients : pc[c] = "start" => handle[c] # w
  BY DEF Custody
<1>3. QED
  BY <1>1, <1>2 DEF Custody

(* A client that only moves on, without a command or a handle changing     *)
(* hands, keeps the base invariant.                                        *)
LEMMA BaseClientMoved ==
  ASSUME Base, NEW c \in Clients, NEW to \in ClientPC,
         pc[c] # "start", to # "start",
         pc[c] \in Submitting <=> to \in Submitting,
         pc' = [pc EXCEPT ![c] = to],
         UNCHANGED <<poolVars, configVars, workerVars, command, handle, newSize, fate>>
  PROVE  Base'
<1> USE DEF Base, poolVars, configVars, workerVars
<1>1. TypeOK'
  BY DEF TypeOK
<1>2. CountersExact'
  BY CountersKept
<1>3. Custody'
  <2>1. \A d \in Clients : pc'[d] = IF d = c THEN to ELSE pc[d]
    BY DEF TypeOK
  <2>2. QED
    BY <2>1 DEF Custody
<1>4. QED
  BY <1>1, <1>2, <1>3

(* Every step a client takes inside an operation keeps the base invariant. *)
LEMMA BaseClientStep ==
  ASSUME Base, NEW c \in Clients, ClientStep(c)
  PROVE  Base'
<1> USE DEF Base
<1>1. CASE CheckCore(c)
  BY <1>1, BaseClientMoved DEF CheckCore, Goto, ClientPC, Submitting
<1>2. CASE addIfUnderCorePoolSize(c)
  <2>1. CASE poolSize < corePoolSize /\ addThread(c, command[c])
    BY <1>2, <2>1, BaseAddThread DEF addIfUnderCorePoolSize, TypeOK
  <2>2. CASE /\ pc' = [pc EXCEPT ![c] = "checkQueue"]
             /\ UNCHANGED <<workers, poolSize, workerVars, command, handle>>
    BY <1>2, <2>2, BaseClientMoved
       DEF addIfUnderCorePoolSize, ClientPC, Submitting, poolVars
  <2>3. QED
    BY <1>2, <2>1, <2>2 DEF addIfUnderCorePoolSize
<1>3. CASE CheckQueue(c)
  BY <1>3, BaseClientMoved DEF CheckQueue, Goto, ClientPC, Submitting
<1>4. CASE Push(c)
  BY <1>4, BasePush DEF Push, Goto
<1>5. CASE RecheckPoolSize(c)
  BY <1>5, BaseClientMoved DEF RecheckPoolSize, Goto, ClientPC, Submitting
<1>6. CASE ensureQueuedTaskHandled(c)
  <2>1. CASE addThread(c, None)
    BY <1>6, <2>1, BaseAddThread DEF ensureQueuedTaskHandled
  <2>2. CASE Return(c) /\ UNCHANGED <<workers, poolSize, workerVars, handle>>
    <3>1. command' = command
      <4>1. command[c] = None
        BY <1>6 DEF ensureQueuedTaskHandled, Custody, Submitting
      <4>2. command' = [command EXCEPT ![c] = None]
        BY <2>2 DEF Return
      <4>3. QED
        BY <4>1, <4>2 DEF TypeOK
    <3>2. QED
      BY <1>6, <2>2, <3>1, BaseClientMoved
         DEF ensureQueuedTaskHandled, Return, ClientPC, Submitting, poolVars
  <2>3. QED
    BY <1>6, <2>1, <2>2 DEF ensureQueuedTaskHandled
<1>7. CASE addIfUnderMaximumPoolSize(c)
  <2>1. CASE poolSize < maximumPoolSize /\ addThread(c, command[c])
    BY <1>7, <2>1, BaseAddThread DEF addIfUnderMaximumPoolSize, TypeOK
  <2>2. CASE /\ pc' = [pc EXCEPT ![c] = "pushMax"]
             /\ UNCHANGED <<workers, poolSize, workerVars, command, handle>>
    BY <1>7, <2>2, BaseClientMoved
       DEF addIfUnderMaximumPoolSize, ClientPC, Submitting, poolVars
  <2>3. QED
    BY <1>7, <2>1, <2>2 DEF addIfUnderMaximumPoolSize
<1>8. CASE PushAtMaximum(c)
  BY <1>8, BasePush DEF PushAtMaximum, Return
<1>9. CASE StartWorker(c) \/ StartFails(c)
  <2>1. PICK to \in {"get", "run", "failed"} :
          /\ wpc' = [wpc EXCEPT ![handle[c]] = to]
          /\ to = "get" => task[handle[c]] = None
          /\ to = "run" => task[handle[c]] # None
    BY <1>9 DEF StartWorker, StartFails
  <2>2. /\ pc[c] = "start"
        /\ pc' = [pc EXCEPT ![c] = "idle"]
        /\ handle' = [handle EXCEPT ![c] = None]
        /\ command' = [command EXCEPT ![c] = None]
        /\ UNCHANGED <<poolVars, configVars, newSize, task, completed, fate>>
    BY <1>9 DEF StartWorker, StartFails, Return
  <2>3. handle[c] \in Workers /\ wpc[handle[c]] = "created"
    BY <2>2 DEF Custody
  <2>4. TypeOK'
    BY <2>1, <2>2, <2>3 DEF TypeOK, ClientPC, WorkerPC, poolVars, configVars
  <2>5. CountersExact'
    BY <2>1, <2>2, <2>3, CountersMoved DEF WorkerPC, poolVars
  <2>6. Custody'
    <3>1. \A d \in Clients : /\ pc'[d] = IF d = c THEN "idle" ELSE pc[d]
                             /\ handle'[d] = IF d = c THEN None ELSE handle[d]
                             /\ command'[d] = IF d = c THEN None ELSE command[d]
      BY <2>2 DEF TypeOK
    <3>2. \A v \in Workers : wpc'[v] = IF v = handle[c] THEN to ELSE wpc[v]
      BY <2>1, <2>3 DEF TypeOK
    <3>3. QED
      BY <2>1, <2>2, <2>3, <3>1, <3>2 DEF Custody, Submitting
  <2>7. QED
    BY <2>4, <2>5, <2>6
<1>10. CASE cancelAllTasks(c)
  <2>1. TypeOK'
    BY <1>10 DEF cancelAllTasks, Goto, TypeOK, ClientPC, configVars, workerVars, Fates
  <2>2. CountersExact'
    BY <1>10, CountersKept DEF cancelAllTasks, workerVars
  <2>3. Custody'
    <3>1. \A d \in Clients : pc'[d] = IF d = c THEN "idle" ELSE pc[d]
      BY <1>10 DEF cancelAllTasks, Goto, TypeOK
    <3>2. QED
      BY <1>10, <3>1 DEF cancelAllTasks, Goto, Custody, Submitting, workerVars
  <2>4. QED
    BY <2>1, <2>2, <2>3
<1>11. CASE setMaximumPoolSize(c)
  <2>1. TypeOK'
    BY <1>11 DEF setMaximumPoolSize, Goto, TypeOK, ClientPC, poolVars, workerVars
  <2>2. CountersExact'
    BY <1>11, CountersKept DEF setMaximumPoolSize, poolVars, workerVars
  <2>3. Custody'
    <3>1. \A d \in Clients : pc'[d] = IF d = c THEN "idle" ELSE pc[d]
      BY <1>11 DEF setMaximumPoolSize, Goto, TypeOK
    <3>2. QED
      BY <1>11, <3>1 DEF setMaximumPoolSize, Goto, Custody, Submitting, workerVars
  <2>4. QED
    BY <2>1, <2>2, <2>3
<1>12. QED
  BY <1>1, <1>2, <1>3, <1>4, <1>5, <1>6, <1>7, <1>8, <1>9, <1>10, <1>11 DEF ClientStep

(* Calling an operation keeps the base invariant. *)
LEMMA BaseCall ==
  ASSUME Base, NEW c \in Clients, Call(c)
  PROVE  Base'
<1> USE DEF Base
<1>1. ASSUME NEW t \in Tasks, execute(c, t)
      PROVE  Base'
  <2>0. /\ pc[c] = "idle"
        /\ pc' = [pc EXCEPT ![c] = "checkCore"]
        /\ command' = [command EXCEPT ![c] = t]
        /\ fate' = [fate EXCEPT ![t] = "live"]
        /\ UNCHANGED <<poolVars, configVars, workerVars, handle, newSize>>
    BY <1>1 DEF execute, Goto
  <2>1. TypeOK'
    BY <2>0 DEF TypeOK, ClientPC, Fates, poolVars, configVars, workerVars
  <2>2. CountersExact'
    BY <2>0, CountersKept DEF poolVars, workerVars
  <2>3. Custody'
    <3>1. \A d \in Clients : /\ pc'[d] = IF d = c THEN "checkCore" ELSE pc[d]
                             /\ command'[d] = IF d = c THEN t ELSE command[d]
      BY <2>0 DEF TypeOK
    <3>2. t # None
      BY PoolAssumption
    <3>3. QED
      BY <2>0, <3>1, <3>2 DEF Custody, Submitting, workerVars
  <2>4. QED
    BY <2>1, <2>2, <2>3
<1>2. CASE CallCancel(c)
  BY <1>2, BaseClientMoved DEF CallCancel, Goto, ClientPC, Submitting
<1>3. ASSUME NEW n \in CoreSizes, setCorePoolSize(c, n)
      PROVE  Base'
  <2>0. PICK W \in SUBSET FreeWorkers, F \in SUBSET FreeWorkers :
          /\ F \subseteq W
          /\ workers' = workers \cup W
          /\ poolSize' = poolSize + Cardinality(W)
          /\ wpc' = [w \in Workers |-> IF w \in F THEN "failed"
                                       ELSE IF w \in W THEN "get" ELSE wpc[w]]
          /\ completed' = [w \in Workers |-> IF w \in W THEN 0 ELSE completed[w]]
    BY <1>3 DEF setCorePoolSize
  <2>1. /\ corePoolSize' = n /\ n \in Nat
        /\ UNCHANGED <<queue, waitPoolSize, completedTaskCount, maximumPoolSize,
                       allowCoreThreadTimeOut, pc, command, handle, newSize, task, fate>>
    BY <1>3, PoolAssumption DEF setCorePoolSize, clientVars
  <2>2. W \in SUBSET Workers /\ \A w \in W : wpc[w] = "none"
    BY DEF FreeWorkers
  <2>3. TypeOK'
    <3>1. poolSize' \in Nat
      <4>1. Cardinality(W) \in Nat
        BY <2>2, WorkersFinite
      <4>2. QED
        BY <2>0, <4>1 DEF TypeOK
    <3>2. workers' \subseteq Workers
      BY <2>0, <2>2 DEF TypeOK
    <3>3. wpc' \in [Workers -> WorkerPC]
      BY <2>0 DEF TypeOK, WorkerPC
    <3>4. completed' \in [Workers -> Nat]
      BY <2>0 DEF TypeOK
    <3>5. QED
      BY <2>1, <3>1, <3>2, <3>3, <3>4 DEF TypeOK
  <2>4. CountersExact'
    BY <2>0, <2>1, CountersGrow
  <2>5. Custody'
    <3>1. \A d \in Clients : pc[d] = "start" => handle[d] \notin W
      BY <2>2 DEF Custody
    <3>2. \A w \in Workers : w \notin W => wpc'[w] = wpc[w]
      BY <2>0
    <3>3. \A w \in W : task[w] = None /\ wpc'[w] \in {"failed", "get"}
      BY <2>0, <2>2 DEF Custody
    <3>4. QED
      BY <2>1, <2>2, <3>1, <3>2, <3>3 DEF Custody
  <2>6. QED
    BY <2>3, <2>4, <2>5
<1>4. ASSUME NEW n \in MaxSizes, CallSetMaximum(c, n)
      PROVE  Base'
  <2>1. TypeOK'
    BY <1>4, PoolAssumption
       DEF CallSetMaximum, Goto, TypeOK, ClientPC, poolVars, configVars, workerVars
  <2>2. CountersExact'
    BY <1>4, CountersKept DEF CallSetMaximum, poolVars, workerVars
  <2>3. Custody'
    <3>1. \A d \in Clients : pc'[d] = IF d = c THEN "setMax" ELSE pc[d]
      BY <1>4 DEF CallSetMaximum, Goto, TypeOK
    <3>2. QED
      BY <1>4, <3>1 DEF CallSetMaximum, Goto, Custody, Submitting, workerVars
  <2>4. QED
    BY <2>1, <2>2, <2>3
<1>5. ASSUME NEW value \in BOOLEAN, allowsCoreThreadTimeOut(c, value)
      PROVE  Base'
  <2>1. TypeOK'
    BY <1>5 DEF allowsCoreThreadTimeOut, TypeOK, poolVars, clientVars, workerVars
  <2>2. CountersExact'
    BY <1>5, CountersKept DEF allowsCoreThreadTimeOut, poolVars, workerVars
  <2>3. Custody'
    BY <1>5 DEF allowsCoreThreadTimeOut, Custody, clientVars, workerVars
  <2>4. QED
    BY <2>1, <2>2, <2>3
<1>6. QED
  BY <1>1, <1>2, <1>3, <1>4, <1>5 DEF Call

(* Every step of a worker keeps the base invariant. *)
LEMMA BaseWorkerStep ==
  ASSUME Base, NEW w \in Workers,
         WorkerStep(w) \/ KeepAliveExpires(w) \/ SpuriousWakeup(w)
  PROVE  Base'
<1> USE DEF Base
<1>1. CASE TakeTask(w)
  <2>1. /\ Head(queue) \in Tasks /\ Tail(queue) \in Seq(Tasks)
        /\ Head(queue) # None
    BY <1>1, HeadTailProperties, PoolAssumption DEF TakeTask, TypeOK
  <2>2. TypeOK'
    BY <1>1, <2>1 DEF TakeTask, WGoto, TypeOK, WorkerPC, configVars, clientVars
  <2>3. CountersExact'
    BY <1>1, CountersMoved DEF TakeTask, WGoto, WorkerPC
  <2>4. Custody'
    <3>1. \A v \in Workers : /\ wpc'[v] = IF v = w THEN "run" ELSE wpc[v]
                             /\ task'[v] = IF v = w THEN Head(queue) ELSE task[v]
      BY <1>1 DEF TakeTask, WGoto, TypeOK
    <3>2. \A c \in Clients : pc[c] = "start" => handle[c] # w
      BY <1>1 DEF TakeTask, WGoto, Custody
    <3>3. QED
      BY <1>1, <2>1, <3>1, <3>2 DEF TakeTask, Custody, clientVars
  <2>5. QED
    BY <2>2, <2>3, <2>4
<1>2. CASE waitforNewTask(w)
  <2>1. TypeOK'
    BY <1>2 DEF waitforNewTask, WGoto, TypeOK, WorkerPC, configVars, clientVars
  <2>2. CountersExact'
    BY <1>2, CountersSleep DEF waitforNewTask, WGoto
  <2>3. Custody'
    BY <1>2, CustodyMoved DEF waitforNewTask, WGoto, WorkerPC, clientVars
  <2>4. QED
    BY <2>1, <2>2, <2>3
<1>3. CASE WakeUp(w)
  <2>1. CountersExact' /\ waitPoolSize' \in Nat
    BY <1>3, CountersWake DEF WakeUp, WGoto
  <2>2. TypeOK'
    BY <1>3, <2>1 DEF WakeUp, WGoto, TypeOK, WorkerPC, configVars, clientVars
  <2>3. Custody'
    BY <1>3, CustodyMoved DEF WakeUp, WGoto, WorkerPC, clientVars
  <2>4. QED
    BY <2>1, <2>2, <2>3
<1>4. CASE workerCanExit(w) \/ KeepAliveExpires(w) \/ SpuriousWakeup(w)
  <2>1. PICK to \in {"exit", "get", "timedOut", "notified"} :
          wpc' = [wpc EXCEPT ![w] = to]
    BY <1>4 DEF workerCanExit, KeepAliveExpires, SpuriousWakeup, WGoto
  <2>2. /\ wpc[w] \in {"canExit", "timedWait", "wait"}
        /\ wpc[w] = "canExit" <=> to \in {"exit", "get"}
        /\ UNCHANGED <<poolVars, configVars, clientVars, task, completed, fate>>
    BY <1>4, <2>1 DEF workerCanExit, KeepAliveExpires, SpuriousWakeup, WGoto, Sleeping, TypeOK
  <2>3. TypeOK'
    BY <2>1, <2>2 DEF TypeOK, WorkerPC, poolVars, configVars, clientVars
  <2>4. CountersExact'
    BY <2>1, <2>2, CountersMoved DEF WorkerPC, poolVars
  <2>5. Custody'
    BY <2>1, <2>2, CustodyMoved DEF WorkerPC, clientVars
  <2>6. QED
    BY <2>3, <2>4, <2>5
<1>5. CASE workerDone(w)
  <2>1. CountersExact' /\ poolSize' \in Nat
    BY <1>5, CountersLeave DEF workerDone, WGoto
  <2>2. TypeOK'
    BY <1>5, <2>1 DEF workerDone, WGoto, TypeOK, WorkerPC, configVars, clientVars
  <2>3. Custody'
    BY <1>5, CustodyMoved DEF workerDone, WGoto, WorkerPC, clientVars
  <2>4. QED
    BY <2>1, <2>2, <2>3
<1>6. ASSUME NEW ok \in BOOLEAN, runTask(w, ok)
      PROVE  Base'
  <2>0. /\ wpc[w] = "run" /\ wpc' = [wpc EXCEPT ![w] = "get"]
        /\ task' = [task EXCEPT ![w] = None]
        /\ UNCHANGED <<poolVars, configVars, clientVars>>
    BY <1>6 DEF runTask, WGoto
  <2>1. TypeOK'
    <3>1. completed' \in [Workers -> Nat]
      BY <1>6 DEF runTask, TypeOK
    <3>2. fate' \in [Tasks -> Fates]
      BY <1>6 DEF runTask, TypeOK, Fates
    <3>3. QED
      BY <2>0, <3>1, <3>2 DEF TypeOK, WorkerPC, poolVars, configVars, clientVars
  <2>2. CountersExact'
    BY <2>0, CountersMoved DEF WorkerPC, poolVars
  <2>3. Custody'
    <3>1. \A v \in Workers : /\ wpc'[v] = IF v = w THEN "get" ELSE wpc[v]
                             /\ task'[v] = IF v = w THEN None ELSE task[v]
      BY <2>0 DEF TypeOK
    <3>2. \A c \in Clients : pc[c] = "start" => handle[c] # w
      BY <2>0 DEF Custody
    <3>3. QED
      BY <2>0, <3>1, <3>2 DEF Custody, clientVars
  <2>4. QED
    BY <2>1, <2>2, <2>3
<1>7. QED
  BY <1>1, <1>2, <1>3, <1>4, <1>5, <1>6 DEF WorkerStep

(* The base invariant is inductive. *)
LEMMA BaseStep == Base /\ [Next]_vars => Base'
<1> SUFFICES ASSUME Base, [Next]_vars PROVE Base'
  OBVIOUS
<1>1. CASE UNCHANGED vars
  <2>1. UNCHANGED <<poolVars, configVars, clientVars, workerVars, fate>>
    BY <1>1 DEF vars
  <2>2. TypeOK'
    BY <2>1 DEF Base, TypeOK, poolVars, configVars, clientVars, workerVars
  <2>3. CountersExact'
    BY <2>1, CountersKept DEF Base, poolVars, workerVars
  <2>4. Custody'
    BY <2>1 DEF Base, Custody, clientVars, workerVars
  <2>5. QED
    BY <2>2, <2>3, <2>4 DEF Base
<1>2. CASE Next
  BY <1>2, BaseCall, BaseClientStep, BaseWorkerStep DEF Next
<1>3. QED
  BY <1>1, <1>2

(* The types of all variables, for every instance of the pool. *)
THEOREM TypeCorrect == Spec => []TypeOK
<1>1. Base => TypeOK
  BY DEF Base
<1>2. QED
  BY BaseInit, BaseStep, <1>1, PTL DEF Spec

(* _poolSize and _waitPoolSize are exact whenever the lock is free.        *)
THEOREM CountersAreExact == Spec => []CountersExact
<1>1. Base => CountersExact
  BY DEF Base
<1>2. QED
  BY BaseInit, BaseStep, <1>1, PTL DEF Spec

-----------------------------------------------------------------------------
(***************************************************************************)
(* Each task in one place.                                                 *)
(***************************************************************************)

(* A step that moves no task. *)
LEMMA PlaceKept ==
  ASSUME EachTaskInOnePlace, UNCHANGED <<command, queue, task, fate>>
  PROVE  EachTaskInOnePlace'
BY DEF EachTaskInOnePlace

(* A client without a command that sets it to null moves no task. *)
LEMMA CommandStaysNull ==
  ASSUME Base, NEW c \in Clients, pc[c] \notin Submitting,
         command' = [command EXCEPT ![c] = None]
  PROVE  command' = command
<1>1. command[c] = None
  BY DEF Base, Custody
<1>2. QED
  BY <1>1 DEF Base, TypeOK

(* A client hands its command to the thread it adds. *)
LEMMA PlaceHandOver ==
  ASSUME Base, EachTaskInOnePlace, NEW c \in Clients, pc[c] \in Submitting,
         addThread(c, command[c]), UNCHANGED <<queue, fate>>
  PROVE  EachTaskInOnePlace'
<1> USE DEF Base
<1>0. PICK w \in FreeWorkers :
        /\ task' = [task EXCEPT ![w] = command[c]]
        /\ command' = [command EXCEPT ![c] = None]
  BY DEF addThread
<1>1. w \in Workers /\ task[w] = None
  BY DEF FreeWorkers, Custody
<1>2. command[c] \in Tasks /\ command[c] # None
  BY DEF Custody, TypeOK
<1>3. \A d \in Clients : command'[d] = IF d = c THEN None ELSE command[d]
  BY <1>0 DEF TypeOK
<1>4. \A v \in Workers : task'[v] = IF v = w THEN command[c] ELSE task[v]
  BY <1>0, <1>1 DEF TypeOK
<1>5. \A t \in Tasks : t # None
  BY PoolAssumption
<1>6. \A t \in Tasks :
        (\E d \in Clients : command'[d] = t) \/ (\E v \in Workers : task'[v] = t)
        <=> (\E d \in Clients : command[d] = t) \/ (\E v \in Workers : task[v] = t)
  BY <1>1, <1>2, <1>3, <1>4, <1>5
<1>7. QED
  BY <1>1, <1>2, <1>3, <1>4, <1>6 DEF EachTaskInOnePlace

(* A client puts its command at the end of the queue. *)
LEMMA PlacePush ==
  ASSUME Base, EachTaskInOnePlace, NEW c \in Clients, pc[c] \in Submitting,
         queue' = Append(queue, command[c]),
         command' = [command EXCEPT ![c] = None],
         UNCHANGED <<task, fate>>
  PROVE  EachTaskInOnePlace'
<1> USE DEF Base
<1>1. command[c] \in Tasks /\ command[c] # None
  BY DEF Custody, TypeOK
<1>2. \A d \in Clients : command'[d] = IF d = c THEN None ELSE command[d]
  BY DEF TypeOK
<1>3. /\ Len(queue) \in Nat
      /\ Len(queue') = Len(queue) + 1
      /\ \A i \in 1..Len(queue) : queue'[i] = queue[i]
      /\ queue'[Len(queue) + 1] = command[c]
  BY <1>1, AppendProperties, LenProperties DEF TypeOK
<1>4. \A i \in 1..Len(queue') : queue'[i] = IF i = Len(queue) + 1 THEN command[c] ELSE queue[i]
  BY <1>3
<1>5. \A t \in Tasks : t # None
  BY PoolAssumption
<1>6. \A t \in Tasks :
        (\E d \in Clients : command'[d] = t) \/ (\E i \in 1..Len(queue') : queue'[i] = t)
        <=> (\E d \in Clients : command[d] = t) \/ (\E i \in 1..Len(queue) : queue[i] = t)
  BY <1>1, <1>2, <1>3, <1>4, <1>5
<1>7. \A i \in 1..Len(queue) : queue[i] # None
  BY <1>5, ElementOfSeq DEF TypeOK
<1>8. \A i \in 1..Len(queue'), j \in 1..Len(queue') : queue'[i] = queue'[j] => i = j
  BY <1>3, <1>4 DEF EachTaskInOnePlace
<1>9. \A d \in Clients, i \in 1..Len(queue') : command'[d] # queue'[i]
  BY <1>1, <1>2, <1>3, <1>4, <1>7 DEF EachTaskInOnePlace
<1>10. \A w \in Workers, i \in 1..Len(queue') : task'[w] # queue'[i]
  BY <1>1, <1>3, <1>4 DEF EachTaskInOnePlace
<1>11. QED
  BY <1>2, <1>6, <1>8, <1>9, <1>10 DEF EachTaskInOnePlace

(* A worker takes the task at the front of the queue. *)
LEMMA PlaceTake ==
  ASSUME Base, EachTaskInOnePlace, NEW w \in Workers, TakeTask(w)
  PROVE  EachTaskInOnePlace'
<1> USE DEF Base
<1>0. /\ queue # <<>> /\ wpc[w] = "get"
      /\ task' = [task EXCEPT ![w] = Head(queue)]
      /\ queue' = Tail(queue)
      /\ UNCHANGED <<command, fate>>
  BY DEF TakeTask, WGoto, clientVars
<1>1. task[w] = None
  BY <1>0 DEF Custody
<1>2. /\ Len(queue) \in Nat \ {0}
      /\ Head(queue) = queue[1] /\ Head(queue) \in Tasks
      /\ Len(queue') = Len(queue) - 1
      /\ \A i \in 1..Len(queue') : queue'[i] = queue[i + 1]
  BY <1>0, HeadTailProperties, EmptySeq, LenProperties DEF TypeOK
<1>3. \A v \in Workers : task'[v] = IF v = w THEN queue[1] ELSE task[v]
  BY <1>0, <1>2 DEF TypeOK
<1>4. \A i \in 1..Len(queue') : i + 1 \in 1..Len(queue) /\ i + 1 # 1
  BY <1>2
<1>5. \A t \in Tasks : t # None
  BY PoolAssumption
<1>6. \A t \in Tasks :
        (\E i \in 1..Len(queue) : queue[i] = t)
        <=> queue[1] = t \/ \E i \in 1..Len(queue') : queue'[i] = t
  <2> SUFFICES ASSUME NEW t \in Tasks
               PROVE  (\E i \in 1..Len(queue) : queue[i] = t)
                      <=> queue[1] = t \/ \E i \in 1..Len(queue') : queue'[i] = t
    OBVIOUS
  <2>1. ASSUME NEW i \in 1..Len(queue), queue[i] = t, i # 1
        PROVE  \E j \in 1..Len(queue') : queue'[j] = t
    <3>1. i - 1 \in 1..Len(queue') /\ queue'[i - 1] = queue[i]
      BY <1>2, <2>1
    <3>2. QED
      BY <2>1, <3>1
  <2>2. QED
    BY <1>2, <1>4, <2>1
<1>7. \A t \in Tasks :
        (\E i \in 1..Len(queue) : queue[i] = t) \/ (\E v \in Workers : task[v] = t)
        <=> (\E i \in 1..Len(queue') : queue'[i] = t) \/ (\E v \in Workers : task'[v] = t)
  BY <1>1, <1>3, <1>5, <1>6
<1>8. \A i \in 1..Len(queue'), j \in 1..Len(queue') : queue'[i] = queue'[j] => i = j
  BY <1>2, <1>4 DEF EachTaskInOnePlace
<1>9. \A v \in Workers, i \in 1..Len(queue') : task'[v] # queue'[i]
  BY <1>2, <1>3, <1>4 DEF EachTaskInOnePlace
<1>10. /\ \A c \in Clients, i \in 1..Len(queue') : command'[c] # queue'[i]
       /\ \A c \in Clients, v \in Workers : command'[c] # None => command'[c] # task'[v]
  BY <1>0, <1>2, <1>3, <1>4 DEF EachTaskInOnePlace
<1>11. \A u \in Workers, v \in Workers : task'[u] # None /\ task'[u] = task'[v] => u = v
  BY <1>2, <1>3 DEF EachTaskInOnePlace
<1>12. QED
  BY <1>0, <1>7, <1>8, <1>9, <1>10, <1>11 DEF EachTaskInOnePlace

(* execute takes charge of a task nobody has submitted before. *)
LEMMA PlaceExecute ==
  ASSUME Base, EachTaskInOnePlace, NEW c \in Clients, NEW t \in Tasks, execute(c, t)
  PROVE  EachTaskInOnePlace'
<1> USE DEF Base
<1>0. /\ pc[c] = "idle" /\ fate[t] = "new"
      /\ command' = [command EXCEPT ![c] = t]
      /\ fate' = [fate EXCEPT ![t] = "live"]
      /\ UNCHANGED <<queue, task>>
  BY DEF execute, Goto, poolVars, workerVars
<1>1. command[c] = None
  BY <1>0 DEF Custody, Submitting
<1>2. \A d \in Clients : command'[d] = IF d = c THEN t ELSE command[d]
  BY <1>0 DEF TypeOK
<1>3. \A u \in Tasks : fate'[u] = IF u = t THEN "live" ELSE fate[u]
  BY <1>0 DEF TypeOK
<1>4. /\ \A d \in Clients : command[d] # t
      /\ \A j \in 1..Len(queue) : queue[j] # t
      /\ \A w \in Workers : task[w] # t
  BY <1>0 DEF EachTaskInOnePlace
<1>5. \A u \in Tasks : u # None
  BY PoolAssumption
<1>6. \A u \in Tasks :
        (\E d \in Clients : command'[d] = u) <=> (u = t \/ \E d \in Clients : command[d] = u)
  BY <1>1, <1>2, <1>5
<1>7. QED
  BY <1>0, <1>2, <1>3, <1>4, <1>6 DEF EachTaskInOnePlace

(* cancelAllTasks gives up exactly the queued tasks. *)
LEMMA PlaceCancel ==
  ASSUME Base, EachTaskInOnePlace, NEW c \in Clients, cancelAllTasks(c)
  PROVE  EachTaskInOnePlace'
<1> USE DEF Base
<1>0. /\ queue' = <<>>
      /\ fate' = [t \in Tasks |-> IF t \in Queued THEN "cancelled" ELSE fate[t]]
      /\ UNCHANGED <<command, task>>
  BY DEF cancelAllTasks, workerVars
<1>1. Len(queue') = 0 /\ 1..Len(queue') = {}
  BY <1>0
<1>2. \A t \in Tasks : t \in Queued <=> \E i \in 1..Len(queue) : queue[i] = t
  BY DEF Queued
<1>3. \A t \in Tasks : fate'[t] = "live" <=> fate[t] = "live" /\ t \notin Queued
  BY <1>0
<1>4. \A t \in Tasks : t # None
  BY PoolAssumption
<1>5. \A t \in Tasks : t \in Queued => /\ \A d \in Clients : command[d] # t
                                       /\ \A w \in Workers : task[w] # t
  BY <1>2 DEF EachTaskInOnePlace
<1>6. \A t \in Tasks :
        fate'[t] = "live" <=> \/ \E d \in Clients : command'[d] = t
                              \/ \E i \in 1..Len(queue') : queue'[i] = t
                              \/ \E w \in Workers : task'[w] = t
  BY <1>0, <1>1, <1>2, <1>3, <1>5 DEF EachTaskInOnePlace
<1>7. QED
  BY <1>0, <1>1, <1>6 DEF EachTaskInOnePlace

(* A worker is done with its task. *)
LEMMA PlaceRun ==
  ASSUME Base, EachTaskInOnePlace, NEW w \in Workers, NEW ok \in BOOLEAN, runTask(w, ok)
  PROVE  EachTaskInOnePlace'
<1> USE DEF Base
<1>0. /\ wpc[w] = "run"
      /\ task' = [task EXCEPT ![w] = None]
      /\ fate' = [fate EXCEPT ![task[w]] = IF ok THEN "done" ELSE "threw"]
      /\ UNCHANGED <<queue, command>>
  BY DEF runTask, WGoto, poolVars, clientVars
<1>1. task[w] \in Tasks /\ task[w] # None
  BY <1>0 DEF Custody, TypeOK
<1>2. \A v \in Workers : task'[v] = IF v = w THEN None ELSE task[v]
  BY <1>0 DEF TypeOK
<1>3. \A t \in Tasks : fate'[t] = "live" <=> fate[t] = "live" /\ t # task[w]
  BY <1>0, <1>1 DEF TypeOK
<1>4. \A t \in Tasks : t # None
  BY PoolAssumption
<1>5. \A i \in 1..Len(queue) : queue[i] # None
  BY <1>4, ElementOfSeq DEF TypeOK
<1>6. /\ \A d \in Clients : command[d] # task[w]
      /\ \A i \in 1..Len(queue) : queue[i] # task[w]
      /\ \A v \in Workers : v # w => task[v] # task[w]
  BY <1>1 DEF EachTaskInOnePlace
<1>7. \A t \in Tasks :
        (\E v \in Workers : task'[v] = t) <=> t # task[w] /\ \E v \in Workers : task[v] = t
  BY <1>2, <1>4, <1>6
<1>8. \A t \in Tasks :
        fate'[t] = "live" <=> \/ \E d \in Clients : command'[d] = t
                              \/ \E i \in 1..Len(queue') : queue'[i] = t
                              \/ \E v \in Workers : task'[v] = t
  BY <1>0, <1>3, <1>6, <1>7 DEF EachTaskInOnePlace
<1>9. QED
  BY <1>0, <1>2, <1>5, <1>8 DEF EachTaskInOnePlace

(* Every step keeps each task in one place. *)
LEMMA PlaceStep ==
  Base /\ EachTaskInOnePlace /\ [Next]_vars => EachTaskInOnePlace'
<1> SUFFICES ASSUME Base, EachTaskInOnePlace, [Next]_vars
             PROVE  EachTaskInOnePlace'
  OBVIOUS
<1>1. ASSUME NEW c \in Clients, Call(c)
      PROVE  EachTaskInOnePlace'
  <2>1. ASSUME NEW t \in Tasks, execute(c, t)
        PROVE  EachTaskInOnePlace'
    BY <2>1, PlaceExecute
  <2>2. CASE CallCancel(c)
    BY <2>2, PlaceKept DEF CallCancel, poolVars, workerVars
  <2>3. ASSUME NEW n \in CoreSizes, setCorePoolSize(c, n)
        PROVE  EachTaskInOnePlace'
    BY <2>3, PlaceKept DEF setCorePoolSize, clientVars
  <2>4. ASSUME NEW n \in MaxSizes, CallSetMaximum(c, n)
        PROVE  EachTaskInOnePlace'
    BY <2>4, PlaceKept DEF CallSetMaximum, poolVars, workerVars
  <2>5. ASSUME NEW value \in BOOLEAN, allowsCoreThreadTimeOut(c, value)
        PROVE  EachTaskInOnePlace'
    BY <2>5, PlaceKept DEF allowsCoreThreadTimeOut, poolVars, clientVars, workerVars
  <2>6. QED
    BY <1>1, <2>1, <2>2, <2>3, <2>4, <2>5 DEF Call
<1>2. ASSUME NEW c \in Clients, ClientStep(c)
      PROVE  EachTaskInOnePlace'
  <2>1. CASE CheckCore(c) \/ CheckQueue(c) \/ RecheckPoolSize(c)
    BY <2>1, PlaceKept DEF CheckCore, CheckQueue, RecheckPoolSize, poolVars, workerVars
  <2>2. CASE addIfUnderCorePoolSize(c)
    <3>1. CASE addThread(c, command[c])
      BY <2>2, <3>1, PlaceHandOver DEF addIfUnderCorePoolSize, Submitting
    <3>2. CASE UNCHANGED <<workers, poolSize, workerVars, command, handle>>
      BY <2>2, <3>2, PlaceKept DEF addIfUnderCorePoolSize, workerVars
    <3>3. QED
      BY <2>2, <3>1, <3>2 DEF addIfUnderCorePoolSize
  <2>3. CASE addIfUnderMaximumPoolSize(c)
    <3>1. CASE addThread(c, command[c])
      BY <2>3, <3>1, PlaceHandOver DEF addIfUnderMaximumPoolSize, Submitting
    <3>2. CASE UNCHANGED <<workers, poolSize, workerVars, command, handle>>
      BY <2>3, <3>2, PlaceKept DEF addIfUnderMaximumPoolSize, workerVars
    <3>3. QED
      BY <2>3, <3>1, <3>2 DEF addIfUnderMaximumPoolSize
  <2>4. CASE Push(c)
    BY <2>4, PlacePush DEF Push, Goto, pushBack, Submitting
  <2>5. CASE PushAtMaximum(c)
    BY <2>5, PlacePush DEF PushAtMaximum, Return, pushBack, Submitting
  <2>6. CASE ensureQueuedTaskHandled(c)
    <3>1. command' = command
      BY <2>6, CommandStaysNull DEF ensureQueuedTaskHandled, addThread, Return, Submitting
    <3>2. task' = task
      <4>1. CASE addThread(c, None)
        <5>1. PICK w \in FreeWorkers : task' = [task EXCEPT ![w] = None]
          BY <4>1 DEF addThread
        <5>2. w \in Workers /\ task[w] = None
          BY DEF Base, Custody, FreeWorkers
        <5>3. QED
          BY <5>1, <5>2 DEF Base, TypeOK
      <4>2. CASE UNCHANGED <<workers, poolSize, workerVars, handle>>
        BY <4>2 DEF workerVars
      <4>3. QED
        BY <2>6, <4>1, <4>2 DEF ensureQueuedTaskHandled
    <3>3. QED
      BY <2>6, <3>1, <3>2, PlaceKept DEF ensureQueuedTaskHandled
  <2>7. CASE StartWorker(c) \/ StartFails(c)
    <3>1. command' = command
      BY <2>7, CommandStaysNull DEF StartWorker, StartFails, Return, Submitting
    <3>2. QED
      BY <2>7, <3>1, PlaceKept DEF StartWorker, StartFails, poolVars
  <2>8. CASE cancelAllTasks(c)
    BY <2>8, PlaceCancel
  <2>9. CASE setMaximumPoolSize(c)
    BY <2>9, PlaceKept DEF setMaximumPoolSize, poolVars, workerVars
  <2>10. QED
    BY <1>2, <2>1, <2>2, <2>3, <2>4, <2>5, <2>6, <2>7, <2>8, <2>9 DEF ClientStep
<1>3. ASSUME NEW w \in Workers,
             WorkerStep(w) \/ KeepAliveExpires(w) \/ SpuriousWakeup(w)
      PROVE  EachTaskInOnePlace'
  <2>1. CASE TakeTask(w)
    BY <2>1, PlaceTake
  <2>2. CASE waitforNewTask(w) \/ WakeUp(w) \/ workerDone(w)
    BY <2>2, PlaceKept DEF waitforNewTask, WakeUp, workerDone, clientVars
  <2>3. CASE workerCanExit(w) \/ KeepAliveExpires(w) \/ SpuriousWakeup(w)
    BY <2>3, PlaceKept DEF workerCanExit, KeepAliveExpires, SpuriousWakeup, poolVars, clientVars
  <2>4. ASSUME NEW ok \in BOOLEAN, runTask(w, ok)
        PROVE  EachTaskInOnePlace'
    BY <2>4, PlaceRun
  <2>5. QED
    BY <1>3, <2>1, <2>2, <2>3, <2>4 DEF WorkerStep
<1>4. CASE UNCHANGED vars
  BY <1>4, PlaceKept DEF vars, poolVars, clientVars, workerVars
<1>5. QED
  BY <1>1, <1>2, <1>3, <1>4 DEF Next

(* A submitted task is with one client, at one position of the queue or    *)
(* with one worker until it has run or is cancelled: none is lost on the   *)
(* way, none is run twice.                                                 *)
THEOREM TasksKeptInOnePlace == Spec => []EachTaskInOnePlace
<1>1. Init => EachTaskInOnePlace
  BY PoolAssumption DEF Init, EachTaskInOnePlace
<1>2. QED
  BY BaseInit, BaseStep, <1>1, PlaceStep, PTL DEF Spec

-----------------------------------------------------------------------------
(***************************************************************************)
(* No lost wakeup.                                                         *)
(***************************************************************************)

(* A step after which nobody sleeps who did not sleep before, nobody awake *)
(* has gone and the queue is no longer than it was.                        *)
LEMMA WakeupKept ==
  ASSUME Base, Base', NoLostWakeup,
         Sleeping' # {} => Sleeping # {},
         Awake \subseteq Awake',
         Len(queue') <= Len(queue)
  PROVE  NoLostWakeup'
<1>1. Awake \in SUBSET Workers /\ Awake' \in SUBSET Workers
  BY DEF Awake
<1>2. /\ Cardinality(Awake) \in Nat /\ Cardinality(Awake') \in Nat
      /\ Cardinality(Awake) <= Cardinality(Awake')
  BY <1>1, WorkersFinite, FS_Subset
<1>3. Len(queue) \in Nat /\ Len(queue') \in Nat
  BY LenProperties DEF Base, TypeOK
<1>4. QED
  BY <1>2, <1>3 DEF NoLostWakeup

(* A worker that is not falling asleep moves, and stays awake if it was.   *)
LEMMA WakeupMoved ==
  ASSUME Base, Base', NoLostWakeup, NEW w \in Workers, NEW to \in WorkerPC,
         to \notin {"wait", "timedWait"},
         w \in Awake => to \in {"notified", "get", "run"},
         wpc' = [wpc EXCEPT ![w] = to],
         Len(queue') <= Len(queue)
  PROVE  NoLostWakeup'
<1>1. \A v \in Workers : wpc'[v] = IF v = w THEN to ELSE wpc[v]
  BY DEF Base, TypeOK
<1>2. Sleeping' \subseteq Sleeping
  BY <1>1 DEF Sleeping
<1>3. Awake \subseteq Awake'
  BY <1>1 DEF Awake
<1>4. QED
  BY <1>2, <1>3, WakeupKept

(* A step that moves no worker and does not lengthen the queue. *)
LEMMA WakeupUnmoved ==
  ASSUME Base, Base', NoLostWakeup, UNCHANGED wpc, Len(queue') <= Len(queue)
  PROVE  NoLostWakeup'
BY WakeupKept DEF Sleeping, Awake

(* A push wakes one more worker for its one more task. *)
LEMMA WakeupPush ==
  ASSUME Base, Base', NoLostWakeup, NEW c \in Clients, pushBack(c),
         pc[c] \in {"push", "pushMax"}
  PROVE  NoLostWakeup'
<1>1. Len(queue) \in Nat /\ Len(queue') = Len(queue) + 1
  <2>1. command[c] \in Tasks
    BY DEF Base, Custody, TypeOK, Submitting
  <2>2. QED
    BY <2>1, AppendProperties, LenProperties DEF Base, TypeOK, pushBack
<1>2. CASE Sleeping = {}
  <2>1. UNCHANGED wpc
    BY <1>2 DEF pushBack, notify
  <2>2. Sleeping' = {}
    BY <1>2, <2>1 DEF Sleeping
  <2>3. QED
    BY <2>2 DEF NoLostWakeup
<1>3. CASE Sleeping # {}
  <2>1. waitPoolSize > 0
    <3>1. Waiting \in SUBSET Workers /\ Waiting # {}
      BY <1>3 DEF Waiting, Sleeping
    <3>2. Cardinality(Waiting) \in Nat /\ Cardinality(Waiting) # 0
      BY <3>1, WorkersFinite, FS_EmptySet
    <3>3. QED
      BY <3>2 DEF Base, CountersExact
  <2>2. PICK w \in Sleeping : wpc' = [wpc EXCEPT ![w] = "notified"]
    BY <1>3, <2>1 DEF pushBack, notify, Base, TypeOK
  <2>3. w \in Workers /\ w \notin Awake
    BY DEF Sleeping, Awake
  <2>4. \A v \in Workers : wpc'[v] = IF v = w THEN "notified" ELSE wpc[v]
    BY <2>2, <2>3 DEF Base, TypeOK
  <2>5. Awake' = Awake \cup {w}
    BY <2>3, <2>4 DEF Awake
  <2>6. Cardinality(Awake) \in Nat /\ Cardinality(Awake') = Cardinality(Awake) + 1
    <3>1. Awake \in SUBSET Workers
      BY DEF Awake
    <3>2. QED
      BY <2>3, <2>5, <3>1, WorkersFinite, FS_AddElement
  <2>7. QED
    BY <1>1, <1>3, <2>6 DEF NoLostWakeup
<1>4. QED
  BY <1>2, <1>3

(* Adding a thread puts nobody to sleep. *)
LEMMA WakeupAdd ==
  ASSUME Base, Base', NoLostWakeup, NEW c \in Clients, NEW t, addThread(c, t),
         UNCHANGED queue
  PROVE  NoLostWakeup'
<1>1. PICK w \in FreeWorkers : wpc' = [wpc EXCEPT ![w] = "created"]
  BY DEF addThread
<1>2. w \in Workers /\ w \notin Awake
  BY DEF FreeWorkers, Awake
<1>3. Len(queue') <= Len(queue)
  BY LenProperties DEF Base, TypeOK
<1>4. QED
  BY <1>1, <1>2, <1>3, WakeupMoved DEF WorkerPC

(* No step loses a wakeup. *)
LEMMA WakeupStep == Base /\ NoLostWakeup /\ [Next]_vars => NoLostWakeup'
<1> SUFFICES ASSUME Base, NoLostWakeup, [Next]_vars
             PROVE  NoLostWakeup'
  OBVIOUS
<1>0. Base'
  BY BaseStep
<1>a. UNCHANGED queue => Len(queue') <= Len(queue)
  BY LenProperties DEF Base, TypeOK
<1>1. ASSUME NEW c \in Clients, Call(c)
      PROVE  NoLostWakeup'
  <2>1. ASSUME NEW t \in Tasks, execute(c, t)
        PROVE  NoLostWakeup'
    BY <1>0, <1>a, <2>1, WakeupUnmoved DEF execute, poolVars, workerVars
  <2>2. CASE CallCancel(c)
    BY <1>0, <1>a, <2>2, WakeupUnmoved DEF CallCancel, poolVars, workerVars
  <2>3. ASSUME NEW n \in CoreSizes, setCorePoolSize(c, n)
        PROVE  NoLostWakeup'
    <3>1. PICK W \in SUBSET FreeWorkers, F \in SUBSET FreeWorkers :
            wpc' = [w \in Workers |-> IF w \in F THEN "failed"
                                      ELSE IF w \in W THEN "get" ELSE wpc[w]]
      BY <2>3 DEF setCorePoolSize
    <3>2. \A w \in Workers : w \in W \cup F => wpc[w] = "none"
      BY DEF FreeWorkers
    <3>3. Sleeping' \subseteq Sleeping /\ Awake \subseteq Awake'
      BY <3>1, <3>2 DEF Sleeping, Awake
    <3>4. QED
      BY <1>0, <1>a, <2>3, <3>3, WakeupKept DEF setCorePoolSize
  <2>4. ASSUME NEW n \in MaxSizes, CallSetMaximum(c, n)
        PROVE  NoLostWakeup'
    BY <1>0, <1>a, <2>4, WakeupUnmoved DEF CallSetMaximum, poolVars, workerVars
  <2>5. ASSUME NEW value \in BOOLEAN, allowsCoreThreadTimeOut(c, value)
        PROVE  NoLostWakeup'
    BY <1>0, <1>a, <2>5, WakeupUnmoved DEF allowsCoreThreadTimeOut, poolVars, workerVars
  <2>6. QED
    BY <1>1, <2>1, <2>2, <2>3, <2>4, <2>5 DEF Call
<1>2. ASSUME NEW c \in Clients, ClientStep(c)
      PROVE  NoLostWakeup'
  <2>1. CASE CheckCore(c) \/ CheckQueue(c) \/ RecheckPoolSize(c) \/ setMaximumPoolSize(c)
    BY <1>0, <1>a, <2>1, WakeupUnmoved
       DEF CheckCore, CheckQueue, RecheckPoolSize, setMaximumPoolSize, poolVars, workerVars
  <2>2. CASE \/ addIfUnderCorePoolSize(c) \/ addIfUnderMaximumPoolSize(c)
             \/ ensureQueuedTaskHandled(c)
    <3>1. /\ UNCHANGED queue
          /\ UNCHANGED wpc \/ addThread(c, command[c]) \/ addThread(c, None)
      BY <2>2 DEF addIfUnderCorePoolSize, addIfUnderMaximumPoolSize,
                  ensureQueuedTaskHandled, workerVars
    <3>2. QED
      BY <1>0, <1>a, <3>1, WakeupUnmoved, WakeupAdd
  <2>3. CASE Push(c) \/ PushAtMaximum(c)
    BY <1>0, <2>3, WakeupPush DEF Push, PushAtMaximum, Goto
  <2>4. CASE StartWorker(c) \/ StartFails(c)
    <3>1. PICK to \in {"get", "run", "failed"} :
            /\ wpc' = [wpc EXCEPT ![handle[c]] = to]
            /\ pc[c] = "start" /\ UNCHANGED queue
      BY <2>4 DEF StartWorker, StartFails, poolVars
    <3>2. handle[c] \in Workers /\ handle[c] \notin Awake
      BY <3>1 DEF Base, Custody, Awake
    <3>3. QED
      BY <1>0, <1>a, <3>1, <3>2, WakeupMoved DEF WorkerPC
  <2>5. CASE cancelAllTasks(c)
    <3>1. Len(queue') = 0 /\ Len(queue) \in Nat /\ UNCHANGED wpc
      BY <2>5, LenProperties DEF cancelAllTasks, workerVars, Base, TypeOK
    <3>2. QED
      BY <1>0, <3>1, WakeupUnmoved
  <2>6. QED
    BY <1>2, <2>1, <2>2, <2>3, <2>4, <2>5 DEF ClientStep
<1>3. ASSUME NEW w \in Workers,
             WorkerStep(w) \/ KeepAliveExpires(w) \/ SpuriousWakeup(w)
      PROVE  NoLostWakeup'
  <2>1. CASE TakeTask(w)
    <3>1. Len(queue') <= Len(queue)
      BY <2>1, HeadTailProperties, LenProperties DEF TakeTask, Base, TypeOK
    <3>2. QED
      BY <1>0, <2>1, <3>1, WakeupMoved DEF TakeTask, WGoto, WorkerPC
  <2>2. CASE waitforNewTask(w)
    <3>1. Len(queue') = 0
      BY <2>2 DEF waitforNewTask
    <3>2. Awake' \in SUBSET Workers
      BY DEF Awake
    <3>3. Cardinality(Awake') \in Nat
      BY <3>2, WorkersFinite
    <3>4. QED
      BY <3>1, <3>3 DEF NoLostWakeup
  <2>3. CASE WakeUp(w)
    BY <1>0, <1>a, <2>3, WakeupMoved DEF WakeUp, WGoto, WorkerPC, Awake
  <2>4. CASE workerCanExit(w)
    BY <1>0, <1>a, <2>4, WakeupMoved DEF workerCanExit, WGoto, WorkerPC, Awake, poolVars
  <2>5. CASE KeepAliveExpires(w) \/ SpuriousWakeup(w)
    BY <1>0, <1>a, <2>5, WakeupMoved
       DEF KeepAliveExpires, SpuriousWakeup, WGoto, WorkerPC, Awake, Sleeping, poolVars
  <2>6. CASE workerDone(w)
    BY <1>0, <1>a, <2>6, WakeupMoved DEF workerDone, WGoto, WorkerPC, Awake
  <2>7. ASSUME NEW ok \in BOOLEAN, runTask(w, ok)
        PROVE  NoLostWakeup'
    BY <1>0, <1>a, <2>7, WakeupMoved DEF runTask, WGoto, WorkerPC, poolVars
  <2>8. QED
    BY <1>3, <2>1, <2>2, <2>3, <2>4, <2>5, <2>6, <2>7 DEF WorkerStep
<1>4. CASE UNCHANGED vars
  BY <1>0, <1>a, <1>4, WakeupUnmoved DEF vars, poolVars, workerVars
<1>5. QED
  BY <1>1, <1>2, <1>3, <1>4 DEF Next

(* While a worker sleeps on the monitor, as many workers as there are      *)
(* queued tasks are awake and will look at the queue: one notify per push  *)
(* is enough, whatever times out or wakes up spuriously in between.        *)
THEOREM WakeupsNotLost == Spec => []NoLostWakeup
<1>1. Init => NoLostWakeup
  BY DEF Init, NoLostWakeup, Sleeping
<1>2. QED
  BY BaseInit, BaseStep, <1>1, WakeupStep, PTL DEF Spec

-----------------------------------------------------------------------------
(***************************************************************************)
(* Growth within the sizes in force.                                       *)
(***************************************************************************)

(* A client's step adds a thread only below the size it has read again     *)
(* under the lock.                                                         *)
LEMMA GrowthClient ==
  ASSUME Base, NEW c \in Clients, ClientStep(c), poolSize' > poolSize
  PROVE  poolSize' <= MaxOf(MaxOf(corePoolSize', maximumPoolSize'), 1)
<1> USE DEF Base, TypeOK, MaxOf
<1>0. poolSize \in Nat /\ ~(poolSize > poolSize)
  OBVIOUS
<1>1. CASE addIfUnderCorePoolSize(c)
  BY <1>0, <1>1 DEF addIfUnderCorePoolSize, addThread, configVars
<1>2. CASE addIfUnderMaximumPoolSize(c)
  BY <1>0, <1>2 DEF addIfUnderMaximumPoolSize, addThread, configVars
<1>3. CASE ensureQueuedTaskHandled(c)
  BY <1>0, <1>3 DEF ensureQueuedTaskHandled, addThread, configVars
<1>4. CASE CheckCore(c) \/ CheckQueue(c) \/ RecheckPoolSize(c)
  BY <1>0, <1>4 DEF CheckCore, CheckQueue, RecheckPoolSize, poolVars
<1>5. CASE Push(c) \/ PushAtMaximum(c)
  BY <1>0, <1>5 DEF Push, PushAtMaximum, pushBack
<1>6. CASE StartWorker(c) \/ StartFails(c) \/ cancelAllTasks(c) \/ setMaximumPoolSize(c)
  BY <1>0, <1>6 DEF StartWorker, StartFails, cancelAllTasks, setMaximumPoolSize, poolVars
<1>7. QED
  BY <1>1, <1>2, <1>3, <1>4, <1>5, <1>6 DEF ClientStep

(* setCorePoolSize stops at the new core size. *)
LEMMA GrowthSetCore ==
  ASSUME Base, NEW c \in Clients, NEW n \in CoreSizes, setCorePoolSize(c, n),
         poolSize' > poolSize
  PROVE  poolSize' <= corePoolSize'
<1> DEFINE grow   == IF n > corePoolSize THEN n - corePoolSize ELSE 0
           room   == IF n > poolSize THEN n - poolSize ELSE 0
           wanted == CHOOSE k \in {grow, room, Len(queue)} :
                       k <= grow /\ k <= room /\ k <= Len(queue)
<1>1. n \in Nat /\ poolSize \in Nat /\ corePoolSize \in Nat /\ Len(queue) \in Nat
  BY PoolAssumption, LenProperties DEF Base, TypeOK
<1>2. grow \in Nat /\ room \in Nat
  BY <1>1
<1>3. wanted \in Nat /\ wanted <= room
  <2>1. \E k \in {grow, room, Len(queue)} : k <= grow /\ k <= room /\ k <= Len(queue)
    <3> HIDE DEF grow, room
    <3> QED
      BY <1>1, <1>2
  <2> HIDE DEF grow, room
  <2>2. wanted \in {grow, room, Len(queue)} /\ wanted <= room
    BY <2>1
  <2>3. QED
    BY <1>1, <1>2, <2>2
<1>4. PICK W \in SUBSET FreeWorkers :
        /\ Cardinality(W) <= wanted \/ Cardinality(W) = wanted
        /\ poolSize' = poolSize + Cardinality(W)
  BY DEF setCorePoolSize
<1>5. Cardinality(W) \in Nat
  <2>1. W \in SUBSET Workers
    BY DEF FreeWorkers
  <2>2. QED
    BY <2>1, WorkersFinite
<1>6. corePoolSize' = n
  BY DEF setCorePoolSize
<1>7. Cardinality(W) <= room
  <2> HIDE DEF wanted, grow, room
  <2> QED
    BY <1>2, <1>3, <1>4, <1>5
<1>8. QED
  <2> HIDE DEF wanted, grow
  <2> QED
    BY <1>1, <1>4, <1>5, <1>6, <1>7

(* No step takes the pool beyond the sizes in force, although execute      *)
(* decides on sizes it has read without the lock.                          *)
THEOREM GrowthIsBounded == Spec => GrowthWithinSizes
<1>1. ASSUME Base, [Next]_vars
      PROVE  [poolSize' > poolSize =>
                poolSize' <= MaxOf(MaxOf(corePoolSize', maximumPoolSize'), 1)]_vars
  <2> SUFFICES ASSUME Next, poolSize' > poolSize
               PROVE  poolSize' <= MaxOf(MaxOf(corePoolSize', maximumPoolSize'), 1)
    BY <1>1
  <2>0. poolSize \in Nat /\ ~(poolSize > poolSize)
    BY <1>1 DEF Base, TypeOK
  <2>1. ASSUME NEW c \in Clients, ClientStep(c)
        PROVE  poolSize' <= MaxOf(MaxOf(corePoolSize', maximumPoolSize'), 1)
    BY <1>1, <2>1, GrowthClient
  <2>2. ASSUME NEW c \in Clients, Call(c)
        PROVE  poolSize' <= MaxOf(MaxOf(corePoolSize', maximumPoolSize'), 1)
    <3>1. PICK n \in CoreSizes : setCorePoolSize(c, n)
      BY <2>0, <2>2 DEF Call, execute, CallCancel, CallSetMaximum, allowsCoreThreadTimeOut, poolVars
    <3>2. poolSize' <= corePoolSize'
      BY <1>1, <3>1, GrowthSetCore
    <3>3. Base'
      BY <1>1, BaseStep
    <3>4. QED
      BY <3>2, <3>3 DEF Base, TypeOK, MaxOf
  <2>3. ASSUME NEW w \in Workers,
               WorkerStep(w) \/ KeepAliveExpires(w) \/ SpuriousWakeup(w)
        PROVE  FALSE
    BY <1>1, <2>0, <2>3 DEF WorkerStep, KeepAliveExpires, SpuriousWakeup, TakeTask,
       waitforNewTask, WakeUp, workerCanExit, workerDone, runTask, poolVars, Base, TypeOK
  <2>4. QED
    BY <2>1, <2>2, <2>3 DEF Next
<1>2. QED
  BY BaseInit, BaseStep, <1>1, PTL DEF Spec, GrowthWithinSizes
-----------------------------------------------------------------------------
(***************************************************************************)
(* ThreadPoolExecutor implements TaskExecution: every step of the pool is  *)
(* a step of the contract or leaves the contract's variables alone.        *)
(***************************************************************************)
Runners == {w \in Workers : wpc[w] = "run"}

(* A step that changes no fate and neither who runs nor what is run.       *)
LEMMA ContractStutter ==
  ASSUME UNCHANGED fate, Runners' = Runners, \A w \in Runners : task'[w] = task[w]
  PROVE  UNCHANGED <<AcceptedTasks, RunningTasks, EndedTasks, CancelledTasks>>
<1>1. EndedTasks' = EndedTasks /\ CancelledTasks' = CancelledTasks
  BY DEF EndedTasks, CancelledTasks
<1>2. \A t \in Tasks : (\A w \in Workers : wpc'[w] = "run" => task'[w] # t)
                       <=> (\A w \in Workers : wpc[w] = "run" => task[w] # t)
  BY DEF Runners
<1>3. AcceptedTasks' = AcceptedTasks
  BY <1>2 DEF AcceptedTasks
<1>4. RunningTasks = [w \in Runners |-> task[w]] /\ RunningTasks' = [w \in Runners |-> task'[w]]
  BY DEF RunningTasks, Runners
<1>5. RunningTasks' = RunningTasks
  BY <1>4
<1>6. QED
  BY <1>1, <1>3, <1>5

(* A worker moves between places where it does not run a task. *)
LEMMA ContractMoved ==
  ASSUME Base, NEW w \in Workers, NEW to,
         wpc[w] # "run", to # "run",
         wpc' = [wpc EXCEPT ![w] = to],
         \A v \in Workers : v # w => task'[v] = task[v],
         UNCHANGED fate
  PROVE  UNCHANGED <<AcceptedTasks, RunningTasks, EndedTasks, CancelledTasks>>
<1>1. \A v \in Workers : wpc'[v] = IF v = w THEN to ELSE wpc[v]
  BY DEF Base, TypeOK
<1>2. Runners' = Runners /\ w \notin Runners
  BY <1>1 DEF Runners
<1>3. \A v \in Runners : task'[v] = task[v]
  BY <1>2 DEF Runners
<1>4. QED
  BY <1>2, <1>3, ContractStutter

(* The pool's threads and tasks unchanged. *)
LEMMA ContractUnmoved ==
  ASSUME UNCHANGED <<wpc, task, fate>>
  PROVE  UNCHANGED <<AcceptedTasks, RunningTasks, EndedTasks, CancelledTasks>>
BY ContractStutter DEF Runners

(* A worker starts a live task that no worker runs. *)
LEMMA ContractStart ==
  ASSUME Base, NEW w \in Workers, NEW t \in Tasks,
         wpc[w] # "run", fate[t] = "live",
         \A v \in Workers : wpc[v] = "run" => task[v] # t,
         wpc' = [wpc EXCEPT ![w] = "run"],
         task'[w] = t,
         \A v \in Workers : v # w => task'[v] = task[v],
         UNCHANGED fate
  PROVE  Contract!Start(w, t)
<1>1. \A v \in Workers : wpc'[v] = IF v = w THEN "run" ELSE wpc[v]
  BY DEF Base, TypeOK
<1>2. Runners' = Runners \cup {w} /\ w \notin Runners
  BY <1>1 DEF Runners
<1>3. DOMAIN RunningTasks = Runners
  BY DEF RunningTasks, Runners
<1>4. RunningTasks' = [v \in DOMAIN RunningTasks \cup {w} |->
                         IF v = w THEN t ELSE RunningTasks[v]]
  <2>1. RunningTasks' = [v \in Runners' |-> task'[v]]
    BY DEF RunningTasks, Runners
  <2>2. \A v \in Runners : v \in Workers /\ v # w /\ RunningTasks[v] = task[v]
    BY <1>2 DEF RunningTasks, Runners
  <2>3. QED
    BY <1>2, <1>3, <2>1, <2>2
<1>5. t \in AcceptedTasks
  BY DEF AcceptedTasks
<1>6. AcceptedTasks' = AcceptedTasks \ {t}
  <2>1. \A u \in Tasks : (\A v \in Workers : wpc'[v] = "run" => task'[v] # u)
                         <=> u # t /\ (\A v \in Workers : wpc[v] = "run" => task[v] # u)
    BY <1>1
  <2>2. QED
    BY <2>1 DEF AcceptedTasks
<1>7. EndedTasks' = EndedTasks /\ CancelledTasks' = CancelledTasks
  BY DEF EndedTasks, CancelledTasks
<1>8. QED
  BY <1>2, <1>3, <1>4, <1>5, <1>6, <1>7 DEF Contract!Start

(* execute accepts a new task. *)
LEMMA ContractSubmit ==
  ASSUME Base, EachTaskInOnePlace, NEW c \in Clients, NEW t \in Tasks, execute(c, t)
  PROVE  Contract!Submit(t)
<1>0. /\ fate[t] = "new" /\ fate' = [fate EXCEPT ![t] = "live"]
      /\ UNCHANGED <<wpc, task>>
  BY DEF execute, workerVars
<1>1. \A u \in Tasks : fate'[u] = IF u = t THEN "live" ELSE fate[u]
  BY <1>0 DEF Base, TypeOK
<1>2. \A w \in Workers : task[w] # t
  BY <1>0 DEF EachTaskInOnePlace
<1>3. AcceptedTasks' = AcceptedTasks \cup {t}
  BY <1>0, <1>1, <1>2 DEF AcceptedTasks
<1>4. EndedTasks' = EndedTasks /\ CancelledTasks' = CancelledTasks
  BY <1>0, <1>1 DEF EndedTasks, CancelledTasks
<1>5. RunningTasks' = RunningTasks
  BY <1>0 DEF RunningTasks
<1>6. t \notin AcceptedTasks \cup EndedTasks \cup CancelledTasks
  BY <1>0 DEF AcceptedTasks, EndedTasks, CancelledTasks
<1>7. t \notin Contract!Running
  BY <1>2 DEF Contract!Running, RunningTasks
<1>8. QED
  BY <1>3, <1>4, <1>5, <1>6, <1>7 DEF Contract!Submit

(* A finished run ends the task of that worker. *)
LEMMA ContractEnd ==
  ASSUME Base, EachTaskInOnePlace, NEW w \in Workers, NEW ok \in BOOLEAN, runTask(w, ok)
  PROVE  Contract!End(w)
<1>0. /\ wpc[w] = "run" /\ wpc' = [wpc EXCEPT ![w] = "get"]
      /\ task' = [task EXCEPT ![w] = None]
      /\ fate' = [fate EXCEPT ![task[w]] = IF ok THEN "done" ELSE "threw"]
  BY DEF runTask, WGoto
<1>1. task[w] \in Tasks
  BY <1>0 DEF Base, Custody, TypeOK
<1>2. \A v \in Workers : /\ wpc'[v] = IF v = w THEN "get" ELSE wpc[v]
                         /\ v # w => task'[v] = task[v]
  BY <1>0 DEF Base, TypeOK
<1>3. \A u \in Tasks : fate'[u] = IF u = task[w] THEN IF ok THEN "done" ELSE "threw"
                                  ELSE fate[u]
  BY <1>0, <1>1 DEF Base, TypeOK
<1>4. fate[task[w]] = "live"
  BY <1>1 DEF EachTaskInOnePlace
<1>5. EndedTasks' = EndedTasks \cup {task[w]}
  BY <1>1, <1>3 DEF EndedTasks
<1>6. CancelledTasks' = CancelledTasks
  BY <1>3, <1>4 DEF CancelledTasks
<1>7. AcceptedTasks' = AcceptedTasks
  <2>1. \A u \in Tasks : u # task[w] =>
          ((\A v \in Workers : wpc'[v] = "run" => task'[v] # u)
           <=> (\A v \in Workers : wpc[v] = "run" => task[v] # u))
    BY <1>2
  <2>2. task[w] \notin AcceptedTasks /\ task[w] \notin AcceptedTasks'
    BY <1>0, <1>1, <1>3 DEF AcceptedTasks
  <2>3. QED
    BY <1>3, <2>1, <2>2 DEF AcceptedTasks
<1>8. DOMAIN RunningTasks = Runners /\ Runners' = Runners \ {w} /\ w \in Runners
  BY <1>0, <1>2 DEF RunningTasks, Runners
<1>9. RunningTasks' = [v \in DOMAIN RunningTasks \ {w} |-> RunningTasks[v]]
  <2>1. RunningTasks' = [v \in Runners' |-> task'[v]]
    BY DEF RunningTasks, Runners
  <2>2. \A v \in Runners \ {w} : task'[v] = RunningTasks[v]
    BY <1>2 DEF RunningTasks, Runners
  <2>3. QED
    BY <1>8, <2>1, <2>2
<1>10. RunningTasks[w] = task[w]
  BY <1>8 DEF RunningTasks, Runners
<1>11. QED
  BY <1>5, <1>6, <1>7, <1>8, <1>9, <1>10 DEF Contract!End

(* cancelAllTasks cancels tasks that have not started. *)
LEMMA ContractCancel ==
  ASSUME Base, EachTaskInOnePlace, NEW c \in Clients, cancelAllTasks(c)
  PROVE  Contract!Cancel(Queued) /\ Queued \in SUBSET Tasks
<1>0. /\ fate' = [t \in Tasks |-> IF t \in Queued THEN "cancelled" ELSE fate[t]]
      /\ UNCHANGED <<wpc, task>>
  BY DEF cancelAllTasks, workerVars
<1>1. Queued \subseteq Tasks
  BY ElementOfSeq DEF Queued, Base, TypeOK
<1>2. \A t \in Queued : fate[t] = "live" /\ \A w \in Workers : task[w] # t
  BY <1>1 DEF Queued, EachTaskInOnePlace
<1>3. Queued \subseteq AcceptedTasks
  BY <1>1, <1>2 DEF AcceptedTasks
<1>4. AcceptedTasks' = AcceptedTasks \ Queued
  BY <1>0, <1>1 DEF AcceptedTasks
<1>5. CancelledTasks' = CancelledTasks \cup Queued
  BY <1>0, <1>1 DEF CancelledTasks
<1>6. EndedTasks' = EndedTasks
  BY <1>0, <1>2 DEF EndedTasks
<1>7. RunningTasks' = RunningTasks
  BY <1>0 DEF RunningTasks
<1>8. QED
  BY <1>1, <1>3, <1>4, <1>5, <1>6, <1>7 DEF Contract!Cancel

(* Every step of the pool is a step of the contract or a stuttering step.  *)
LEMMA ContractStep ==
  Base /\ EachTaskInOnePlace /\ [Next]_vars => [Contract!Next]_Contract!taskVars
<1> SUFFICES ASSUME Base, EachTaskInOnePlace, [Next]_vars
             PROVE  \/ Contract!Next
                    \/ UNCHANGED <<AcceptedTasks, RunningTasks, EndedTasks, CancelledTasks>>
  BY DEF Contract!taskVars
<1> DEFINE Goal == \/ Contract!Next
                   \/ UNCHANGED <<AcceptedTasks, RunningTasks, EndedTasks, CancelledTasks>>
<1>1. ASSUME NEW c \in Clients, Call(c)
      PROVE  Goal
  <2>1. ASSUME NEW t \in Tasks, execute(c, t)
        PROVE  Goal
    BY <2>1, ContractSubmit DEF Contract!Next
  <2>2. CASE \/ CallCancel(c) \/ \E n \in MaxSizes : CallSetMaximum(c, n)
             \/ \E value \in BOOLEAN : allowsCoreThreadTimeOut(c, value)
    BY <2>2, ContractUnmoved DEF CallCancel, CallSetMaximum, allowsCoreThreadTimeOut, workerVars
  <2>3. ASSUME NEW n \in CoreSizes, setCorePoolSize(c, n)
        PROVE  Goal
    <3>1. PICK W \in SUBSET FreeWorkers, F \in SUBSET FreeWorkers :
            wpc' = [w \in Workers |-> IF w \in F THEN "failed"
                                      ELSE IF w \in W THEN "get" ELSE wpc[w]]
      BY <2>3 DEF setCorePoolSize
    <3>2. Runners' = Runners
      BY <3>1 DEF Runners, FreeWorkers
    <3>3. QED
      BY <2>3, <3>2, ContractStutter DEF setCorePoolSize
  <2>4. QED
    BY <1>1, <2>1, <2>2, <2>3 DEF Call
<1>2. ASSUME NEW c \in Clients, ClientStep(c)
      PROVE  Goal
  <2>1. CASE CheckCore(c) \/ CheckQueue(c) \/ RecheckPoolSize(c) \/ setMaximumPoolSize(c)
    BY <2>1, ContractUnmoved DEF CheckCore, CheckQueue, RecheckPoolSize, setMaximumPoolSize, workerVars
  <2>2. CASE \/ addIfUnderCorePoolSize(c) \/ addIfUnderMaximumPoolSize(c)
             \/ ensureQueuedTaskHandled(c)
    <3>1. /\ UNCHANGED fate
          /\ UNCHANGED workerVars \/ addThread(c, command[c]) \/ addThread(c, None)
      BY <2>2 DEF addIfUnderCorePoolSize, addIfUnderMaximumPoolSize, ensureQueuedTaskHandled
    <3>2. ASSUME NEW t, addThread(c, t)
          PROVE  Goal
      <4>1. PICK w \in FreeWorkers : /\ wpc' = [wpc EXCEPT ![w] = "created"]
                                     /\ task' = [task EXCEPT ![w] = t]
        BY <3>2 DEF addThread
      <4>2. w \in Workers /\ wpc[w] # "run"
        BY DEF FreeWorkers
      <4>3. \A v \in Workers : v # w => task'[v] = task[v]
        BY <4>1 DEF Base, TypeOK
      <4>4. QED
        BY <3>1, <4>1, <4>2, <4>3, ContractMoved
    <3>3. CASE UNCHANGED workerVars
      BY <3>1, <3>3, ContractUnmoved DEF workerVars
    <3>4. QED
      BY <3>1, <3>2, <3>3
  <2>3. CASE Push(c) \/ PushAtMaximum(c)
    <3>1. /\ UNCHANGED <<task, fate>>
          /\ UNCHANGED wpc \/ \E w \in Sleeping : wpc' = [wpc EXCEPT ![w] = "notified"]
      BY <2>3 DEF Push, PushAtMaximum, pushBack, notify
    <3>2. CASE UNCHANGED wpc
      BY <3>1, <3>2, ContractUnmoved
    <3>3. ASSUME NEW w \in Sleeping, wpc' = [wpc EXCEPT ![w] = "notified"]
          PROVE  Goal
      BY <3>1, <3>3, ContractMoved DEF Sleeping
    <3>4. QED
      BY <3>1, <3>2, <3>3
  <2>4. CASE StartWorker(c) \/ StartFails(c)
    <3>1. /\ pc[c] = "start" /\ UNCHANGED <<task, fate>>
          /\ \/ wpc' = [wpc EXCEPT ![handle[c]] = "failed"]
             \/ wpc' = [wpc EXCEPT ![handle[c]] = "get"]
             \/ wpc' = [wpc EXCEPT ![handle[c]] = "run"] /\ task[handle[c]] # None
      BY <2>4 DEF StartWorker, StartFails
    <3>2. handle[c] \in Workers /\ wpc[handle[c]] = "created"
      BY <3>1 DEF Base, Custody
    <3>3. CASE wpc' = [wpc EXCEPT ![handle[c]] = "run"] /\ task[handle[c]] # None
      <4>1. task[handle[c]] \in Tasks
        BY <3>2, <3>3 DEF Base, TypeOK
      <4>2. fate[task[handle[c]]] = "live"
        BY <3>2, <4>1 DEF EachTaskInOnePlace
      <4>3. \A v \in Workers : wpc[v] = "run" => task[v] # task[handle[c]]
        BY <3>2, <3>3 DEF EachTaskInOnePlace
      <4>4. Contract!Start(handle[c], task[handle[c]])
        BY <3>1, <3>2, <3>3, <4>1, <4>2, <4>3, ContractStart
      <4>5. QED
        BY <3>2, <4>1, <4>4 DEF Contract!Next
    <3>4. CASE \/ wpc' = [wpc EXCEPT ![handle[c]] = "failed"]
               \/ wpc' = [wpc EXCEPT ![handle[c]] = "get"]
      BY <3>1, <3>2, <3>4, ContractMoved
    <3>5. QED
      BY <3>1, <3>3, <3>4
  <2>5. CASE cancelAllTasks(c)
    BY <2>5, ContractCancel DEF Contract!Next
  <2>6. QED
    BY <1>2, <2>1, <2>2, <2>3, <2>4, <2>5 DEF ClientStep
<1>3. ASSUME NEW w \in Workers,
             WorkerStep(w) \/ KeepAliveExpires(w) \/ SpuriousWakeup(w)
      PROVE  Goal
  <2>1. CASE TakeTask(w)
    <3>1. /\ queue # <<>> /\ wpc[w] = "get"
          /\ wpc' = [wpc EXCEPT ![w] = "run"]
          /\ task' = [task EXCEPT ![w] = Head(queue)] /\ UNCHANGED fate
      BY <2>1 DEF TakeTask, WGoto
    <3>2. Head(queue) \in Tasks /\ Len(queue) \in Nat \ {0} /\ Head(queue) = queue[1]
      BY <3>1, HeadTailProperties, EmptySeq DEF Base, TypeOK
    <3>3. fate[Head(queue)] = "live" /\ \A v \in Workers : task[v] # Head(queue)
      BY <3>2 DEF EachTaskInOnePlace
    <3>4. \A v \in Workers : task'[v] = IF v = w THEN Head(queue) ELSE task[v]
      BY <3>1 DEF Base, TypeOK
    <3>5. Contract!Start(w, Head(queue))
      BY <3>1, <3>2, <3>3, <3>4, ContractStart
    <3>6. QED
      BY <3>2, <3>5 DEF Contract!Next
  <2>2. CASE waitforNewTask(w)
    BY <2>2, ContractMoved DEF waitforNewTask, WGoto
  <2>3. CASE WakeUp(w)
    BY <2>3, ContractMoved DEF WakeUp, WGoto
  <2>4. CASE workerCanExit(w)
    BY <2>4, ContractMoved DEF workerCanExit, WGoto
  <2>5. CASE KeepAliveExpires(w) \/ SpuriousWakeup(w)
    BY <2>5, ContractMoved DEF KeepAliveExpires, SpuriousWakeup, WGoto, Sleeping
  <2>6. CASE workerDone(w)
    BY <2>6, ContractMoved DEF workerDone, WGoto
  <2>7. ASSUME NEW ok \in BOOLEAN, runTask(w, ok)
        PROVE  Goal
    BY <2>7, ContractEnd DEF Contract!Next
  <2>8. QED
    BY <1>3, <2>1, <2>2, <2>3, <2>4, <2>5, <2>6, <2>7 DEF WorkerStep
<1>4. CASE UNCHANGED vars
  BY <1>4, ContractUnmoved DEF vars, workerVars
<1>5. QED
  BY <1>1, <1>2, <1>3, <1>4 DEF Next

(* The thread pool implements its contract: with any number of clients and *)
(* workers, each accepted task is started at most once, by a thread that   *)
(* runs nothing else, and only tasks that have not started are cancelled.  *)
THEOREM PoolKeepsContract == Spec => KeepsContract
<1>1. Init => Contract!Init
  <2> SUFFICES ASSUME Init PROVE Contract!Init
    OBVIOUS
  <2>1. AcceptedTasks = {} /\ EndedTasks = {} /\ CancelledTasks = {}
    BY DEF Init, AcceptedTasks, EndedTasks, CancelledTasks
  <2>2. {w \in Workers : wpc[w] = "run"} = {}
    BY DEF Init
  <2>3. RunningTasks = [h \in {} |-> {}]
    BY <2>2 DEF RunningTasks
  <2>4. QED
    BY <2>1, <2>3 DEF Contract!Init
<1>2. Init => EachTaskInOnePlace
  BY PoolAssumption DEF Init, EachTaskInOnePlace
<1>3. QED
  BY <1>1, <1>2, BaseInit, BaseStep, PlaceStep, ContractStep, PTL
     DEF Spec, KeepsContract, Contract!Spec
=============================================================================
