------------------------ MODULE ReadWriteLockProofs ------------------------
(***************************************************************************)
(* Proofs about ReadWriteLock, for any finite set of threads: the type     *)
(* invariant, what the lock promises at every moment (LockSound), and that *)
(* no reader enters while a writer waits (PutsWritersFirst).               *)
(*                                                                         *)
(* TypeOK and LockSound are inductive together.  The counters are what the *)
(* code decides by and the program counters are what is promised about, so *)
(* every action is first reduced to a move: one thread changes its place,  *)
(* the others at most wake up, which changes no counted group.             *)
(***************************************************************************)
EXTENDS ReadWriteLock, FiniteSetTheorems, TLAPS

(* The threads whose place is in P.                                        *)
Group(P) == {t \in Threads : pc[t] \in P}

Readers == Group({"reading"})
Writers == Group({"writing"})
ReadWaiters == Group({"sleepRead", "wakeRead"})
WriteWaiters == Group({"sleepWrite", "wakeWrite"})

One(b) == IF b THEN 1 ELSE 0

(* A thread that does not act at most wakes up.                            *)
AtMostWakes(u) ==
  \/ pc'[u] = pc[u]
  \/ pc[u] = "sleepRead" /\ pc'[u] = "wakeRead"
  \/ pc[u] = "sleepWrite" /\ pc'[u] = "wakeWrite"

(* Thread t goes to place.                                                 *)
Move(t, place) ==
  /\ pc' \in [Threads -> Places]
  /\ pc'[t] = place
  /\ \A u \in Threads \ {t} : AtMostWakes(u)

IInv == TypeOK /\ LockSound

-----------------------------------------------------------------------------
(* Groups of threads and the sizes of them.                                *)

(* A group of threads is finite; it is empty if its size is zero.          *)
LEMMA GroupSize ==
  ASSUME ThreadsAssumption, NEW P
  PROVE  /\ Cardinality(Group(P)) \in Nat
         /\ IsFiniteSet(Group(P))
         /\ Cardinality(Group(P)) = 0 <=> Group(P) = {}
<1>1. IsFiniteSet(Group(P))
  BY FS_Subset DEF Group, ThreadsAssumption
<1>2. QED
  BY <1>1, FS_CardinalityType, FS_EmptySet

(* When only thread t may enter or leave a group, its size changes by what *)
(* t does.                                                                 *)
LEMMA GroupMove ==
  ASSUME ThreadsAssumption, NEW P, NEW t \in Threads,
         \A u \in Threads \ {t} : pc'[u] \in P <=> pc[u] \in P
  PROVE  /\ Cardinality(Group(P)') + One(pc[t] \in P)
              = Cardinality(Group(P)) + One(pc'[t] \in P)
         /\ Cardinality(Group(P)') \in Nat
<1> DEFINE R == Group(P) \ {t}
<1>1. IsFiniteSet(R) /\ Cardinality(R) \in Nat /\ t \notin R
  BY FS_Subset, FS_CardinalityType DEF Group, ThreadsAssumption
<1>2. IsFiniteSet(R \cup {t}) /\ Cardinality(R \cup {t}) = Cardinality(R) + 1
  BY <1>1, FS_AddElement
<1> HIDE DEF R
<1>3. Cardinality(Group(P)) = Cardinality(R) + One(pc[t] \in P)
  <2>1. CASE pc[t] \in P
    <3>1. Group(P) = R \cup {t}
      BY <2>1 DEF Group, R
    <3>2. QED
      BY <2>1, <3>1, <1>2 DEF One
  <2>2. CASE pc[t] \notin P
    <3>1. Group(P) = R
      BY <2>2 DEF Group, R
    <3>2. QED
      BY <2>2, <3>1, <1>1 DEF One
  <2>3. QED
    BY <2>1, <2>2
<1>4. Cardinality(Group(P)') = Cardinality(R) + One(pc'[t] \in P)
  <2>1. CASE pc'[t] \in P
    <3>1. Group(P)' = R \cup {t}
      BY <2>1 DEF Group, R
    <3>2. QED
      BY <2>1, <3>1, <1>2 DEF One
  <2>2. CASE pc'[t] \notin P
    <3>1. Group(P)' = R
      BY <2>2 DEF Group, R
    <3>2. QED
      BY <2>2, <3>1, <1>1 DEF One
  <2>3. QED
    BY <2>1, <2>2
<1>5. One(pc[t] \in P) \in Nat /\ One(pc'[t] \in P) \in Nat
  BY DEF One
<1>6. QED
  BY <1>1, <1>3, <1>4, <1>5

(* The counters in terms of groups.                                        *)
LEMMA CountersGroups ==
  CountersExact <=>
    /\ readers = Cardinality(Readers) /\ writers = Cardinality(Writers)
    /\ read_waiters = Cardinality(ReadWaiters)
    /\ write_waiters = Cardinality(WriteWaiters)
<1>1. /\ At("reading") = Readers /\ At("writing") = Writers
      /\ At("sleepRead") \cup At("wakeRead") = ReadWaiters
      /\ At("sleepWrite") \cup At("wakeWrite") = WriteWaiters
  BY DEF At, Group, Readers, Writers, ReadWaiters, WriteWaiters
<1>2. QED
  BY <1>1 DEF CountersExact

(* A counter that is zero says that nobody is there, one that is not says  *)
(* that somebody is.                                                       *)
LEMMA CountersTell ==
  ASSUME ThreadsAssumption, TypeOK, CountersExact
  PROVE  /\ readers = 0 <=> At("reading") = {}
         /\ writers = 0 <=> At("writing") = {}
         /\ read_waiters = 0 <=> At("sleepRead") \cup At("wakeRead") = {}
         /\ write_waiters = 0 <=> At("sleepWrite") \cup At("wakeWrite") = {}
<1>1. /\ At("reading") = Readers /\ At("writing") = Writers
      /\ At("sleepRead") \cup At("wakeRead") = ReadWaiters
      /\ At("sleepWrite") \cup At("wakeWrite") = WriteWaiters
  BY DEF At, Group, Readers, Writers, ReadWaiters, WriteWaiters
<1>2. QED
  BY <1>1, CountersGroups, GroupSize DEF Readers, Writers, ReadWaiters, WriteWaiters

(* A move keeps the counters exact when each of them changes by what the   *)
(* thread that moves does.                                                 *)
LEMMA CountersMove ==
  ASSUME ThreadsAssumption, TypeOK, CountersExact,
         NEW t \in Threads, NEW place \in Places, Move(t, place),
         readers' = readers + One(place = "reading") - One(pc[t] = "reading"),
         writers' = writers + One(place = "writing") - One(pc[t] = "writing"),
         read_waiters' = read_waiters
           + One(place \in {"sleepRead", "wakeRead"}) - One(pc[t] \in {"sleepRead", "wakeRead"}),
         write_waiters' = write_waiters
           + One(place \in {"sleepWrite", "wakeWrite"}) - One(pc[t] \in {"sleepWrite", "wakeWrite"})
  PROVE  CountersExact' /\ readers' \in Nat /\ writers' \in Nat
         /\ read_waiters' \in Nat /\ write_waiters' \in Nat
<1> DEFINE Same(P) == \A u \in Threads \ {t} : pc'[u] \in P <=> pc[u] \in P
<1>1. /\ Same({"reading"}) /\ Same({"writing"})
      /\ Same({"sleepRead", "wakeRead"}) /\ Same({"sleepWrite", "wakeWrite"})
  BY DEF Move, AtMostWakes
<1>2. pc'[t] = place
  BY DEF Move
<1>a. \A b \in BOOLEAN : One(b) \in Nat
  BY DEF One
<1>3. readers' = Cardinality(Readers') /\ Cardinality(Readers') \in Nat
  <2>1. /\ Cardinality(Readers') + One(pc[t] \in {"reading"})
             = Cardinality(Readers) + One(pc'[t] \in {"reading"})
        /\ Cardinality(Readers') \in Nat
    BY <1>1, GroupMove DEF Readers
  <2>2. /\ One(pc[t] \in {"reading"}) = One(pc[t] = "reading")
        /\ One(pc'[t] \in {"reading"}) = One(place = "reading")
    BY <1>2 DEF One
  <2>3. readers = Cardinality(Readers)
    BY CountersGroups
  <2>4. QED
    BY <2>1, <2>2, <2>3 DEF One, TypeOK
<1>4. writers' = Cardinality(Writers') /\ Cardinality(Writers') \in Nat
  <2>1. /\ Cardinality(Writers') + One(pc[t] \in {"writing"})
             = Cardinality(Writers) + One(pc'[t] \in {"writing"})
        /\ Cardinality(Writers') \in Nat
    BY <1>1, GroupMove DEF Writers
  <2>2. /\ One(pc[t] \in {"writing"}) = One(pc[t] = "writing")
        /\ One(pc'[t] \in {"writing"}) = One(place = "writing")
    BY <1>2 DEF One
  <2>3. writers = Cardinality(Writers)
    BY CountersGroups
  <2>4. QED
    BY <2>1, <2>2, <2>3 DEF One, TypeOK
<1>5. read_waiters' = Cardinality(ReadWaiters') /\ Cardinality(ReadWaiters') \in Nat
  <2>1. /\ Cardinality(ReadWaiters') + One(pc[t] \in {"sleepRead", "wakeRead"})
             = Cardinality(ReadWaiters) + One(place \in {"sleepRead", "wakeRead"})
        /\ Cardinality(ReadWaiters') \in Nat
    BY <1>1, <1>2, GroupMove DEF ReadWaiters
  <2>2. read_waiters = Cardinality(ReadWaiters)
    BY CountersGroups
  <2>3. QED
    BY <2>1, <2>2 DEF One, TypeOK
<1>6. write_waiters' = Cardinality(WriteWaiters') /\ Cardinality(WriteWaiters') \in Nat
  <2>1. /\ Cardinality(WriteWaiters') + One(pc[t] \in {"sleepWrite", "wakeWrite"})
             = Cardinality(WriteWaiters) + One(place \in {"sleepWrite", "wakeWrite"})
        /\ Cardinality(WriteWaiters') \in Nat
    BY <1>1, <1>2, GroupMove DEF WriteWaiters
  <2>2. write_waiters = Cardinality(WriteWaiters)
    BY CountersGroups
  <2>3. QED
    BY <2>1, <2>2 DEF One, TypeOK
<1>7. /\ At("reading")' = Readers' /\ At("writing")' = Writers'
      /\ At("sleepRead")' \cup At("wakeRead")' = ReadWaiters'
      /\ At("sleepWrite")' \cup At("wakeWrite")' = WriteWaiters'
  BY DEF At, Group, Readers, Writers, ReadWaiters, WriteWaiters
<1>8. QED
  BY <1>3, <1>4, <1>5, <1>6, <1>7 DEF CountersExact

-----------------------------------------------------------------------------
(* Every action is a move.                                                 *)
LEMMA GotoMoves ==
  ASSUME TypeOK, NEW t \in Threads, NEW place \in Places, Goto(t, place)
  PROVE  Move(t, place)
BY DEF TypeOK, Goto, Move, AtMostWakes

(* A thread that leaves and notifies a writer moves to idle, and a writer  *)
(* that slept is awake afterwards if one did.                              *)
LEMMA NotifyWriterMoves ==
  ASSUME TypeOK, NEW t \in Threads, pc[t] # "sleepWrite", LeaveNotifyWriter(t)
  PROVE  /\ Move(t, "idle")
         /\ At("sleepWrite") # {} => At("wakeWrite")' # {}
<1>1. CASE At("sleepWrite") = {}
  BY <1>1, GotoMoves DEF LeaveNotifyWriter, Places
<1>2. CASE At("sleepWrite") # {}
  <2>1. PICK u \in At("sleepWrite") : pc' = [pc EXCEPT ![t] = "idle", ![u] = "wakeWrite"]
    BY <1>2 DEF LeaveNotifyWriter
  <2>2. u \in Threads /\ u # t /\ pc[u] = "sleepWrite"
    BY <2>1 DEF At
  <2>3. Move(t, "idle")
    BY <2>1, <2>2 DEF TypeOK, Move, AtMostWakes, Places
  <2>4. u \in At("wakeWrite")'
    BY <2>1, <2>2 DEF TypeOK, At
  <2>5. QED
    BY <2>3, <2>4
<1>3. QED
  BY <1>1, <1>2

(* A thread that leaves and notifies the readers moves to idle, and no     *)
(* reader sleeps afterwards.                                               *)
LEMMA NotifyReadersMoves ==
  ASSUME TypeOK, NEW t \in Threads, LeaveNotifyReaders(t)
  PROVE  Move(t, "idle") /\ At("sleepRead")' = {}
BY DEF TypeOK, LeaveNotifyReaders, Move, AtMostWakes, At, Places

-----------------------------------------------------------------------------
(* A move keeps a writer alone, unless it is into the lock; a reader enters*)
(* when nobody writes and a writer when nobody is inside.                  *)
LEMMA ExclusionMove ==
  ASSUME Exclusion, NEW t \in Threads, NEW place \in Places, Move(t, place),
         place = "reading" => At("writing") = {},
         place = "writing" => At("reading") = {} /\ At("writing") = {}
  PROVE  Exclusion'
<1>1. \A u \in Threads \ {t} : /\ pc'[u] = "writing" <=> pc[u] = "writing"
                               /\ pc'[u] = "reading" <=> pc[u] = "reading"
  BY DEF Move, AtMostWakes
<1>2. pc'[t] = place
  BY DEF Move
<1>3. QED
  BY <1>1, <1>2 DEF Exclusion, At

(* A move keeps a reason to sleep for those who sleep, when the thread     *)
(* that moves is not that reason or leaves another one.                    *)
LEMMA SleepersMove ==
  ASSUME SleepersWillBeWoken, NEW t \in Threads, NEW place \in Places, Move(t, place),
         \/ place \in {"reading", "writing", "wakeWrite"}
         \/ pc[t] \notin {"reading", "writing", "wakeWrite"} /\ place # "sleepWrite"
         \/ (At("reading") \cup At("writing") \cup At("wakeWrite"))' # {}
         \/ At("sleepWrite")' = {},
         \/ place \in {"writing", "sleepWrite", "wakeWrite"}
         \/ pc[t] \notin {"writing", "sleepWrite", "wakeWrite"} /\ place # "sleepRead"
         \/ (At("writing") \cup At("sleepWrite") \cup At("wakeWrite"))' # {}
         \/ At("sleepRead")' = {}
  PROVE  SleepersWillBeWoken'
<1>1. pc'[t] = place
  BY DEF Move
<1>2. ASSUME At("sleepWrite")' # {}
      PROVE  (At("reading") \cup At("writing") \cup At("wakeWrite"))' # {}
  <2>1. CASE place \in {"reading", "writing", "wakeWrite"}
    BY <2>1, <1>1 DEF At
  <2>2. CASE pc[t] \notin {"reading", "writing", "wakeWrite"} /\ place # "sleepWrite"
    <3>1. PICK u \in Threads : pc'[u] = "sleepWrite"
      BY <1>2 DEF At
    <3>2. pc[u] = "sleepWrite"
      BY <3>1, <2>2, <1>1 DEF Move, AtMostWakes
    <3>3. PICK v \in Threads : pc[v] \in {"reading", "writing", "wakeWrite"}
      BY <3>2 DEF SleepersWillBeWoken, At
    <3>4. pc'[v] \in {"reading", "writing", "wakeWrite"}
      BY <3>3, <2>2 DEF Move, AtMostWakes
    <3>5. QED
      BY <3>4 DEF At
  <2>3. QED
    BY <2>1, <2>2, <1>2
<1>3. ASSUME At("sleepRead")' # {}
      PROVE  (At("writing") \cup At("sleepWrite") \cup At("wakeWrite"))' # {}
  <2>1. CASE place \in {"writing", "sleepWrite", "wakeWrite"}
    BY <2>1, <1>1 DEF At
  <2>2. CASE pc[t] \notin {"writing", "sleepWrite", "wakeWrite"} /\ place # "sleepRead"
    <3>1. PICK u \in Threads : pc'[u] = "sleepRead"
      BY <1>3 DEF At
    <3>2. pc[u] = "sleepRead"
      BY <3>1, <2>2, <1>1 DEF Move, AtMostWakes
    <3>3. PICK v \in Threads : pc[v] \in {"writing", "sleepWrite", "wakeWrite"}
      BY <3>2 DEF SleepersWillBeWoken, At
    <3>4. pc'[v] \in {"writing", "sleepWrite", "wakeWrite"}
      BY <3>3, <2>2 DEF Move, AtMostWakes
    <3>5. QED
      BY <3>4 DEF At
  <2>3. QED
    BY <2>1, <2>2, <1>3
<1>4. QED
  BY <1>2, <1>3 DEF SleepersWillBeWoken

-----------------------------------------------------------------------------
LEMMA InvInit == ThreadsAssumption /\ Init => IInv
<1> SUFFICES ASSUME ThreadsAssumption, Init PROVE IInv
  OBVIOUS
<1>1. TypeOK
  BY DEF Init, TypeOK, Places
<1>2. \A place \in Places \ {"idle"} : At(place) = {}
  BY DEF Init, At
<1>3. CountersExact
  <2>1. /\ At("reading") = {} /\ At("writing") = {}
        /\ At("sleepRead") \cup At("wakeRead") = {}
        /\ At("sleepWrite") \cup At("wakeWrite") = {}
    BY <1>2 DEF Places
  <2>2. Cardinality({}) = 0
    BY FS_EmptySet
  <2>3. QED
    BY <2>1, <2>2 DEF CountersExact, Init
<1>4. Exclusion
  BY DEF Init, Exclusion
<1>5. SleepersWillBeWoken
  BY <1>2 DEF SleepersWillBeWoken, Places
<1>6. QED
  BY <1>1, <1>3, <1>4, <1>5 DEF IInv, LockSound

(* ReadLock, and its loop after a wait.                                    *)
LEMMA InvReader ==
  ASSUME ThreadsAssumption, IInv, NEW t \in Threads, ReadLock(t) \/ ReadLockWoken(t)
  PROVE  IInv'
<1>1. TypeOK /\ CountersExact /\ Exclusion /\ SleepersWillBeWoken
  BY DEF IInv, LockSound
<1>2. CASE ReaderMustWait
  <2>1. Move(t, "sleepRead") /\ "sleepRead" \in Places
    BY <1>1, <1>2, GotoMoves DEF ReadLock, ReadLockWoken, Places
  <2>2. CountersExact' /\ TypeOK'
    <3>1. /\ readers' = readers + One("sleepRead" = "reading") - One(pc[t] = "reading")
          /\ writers' = writers + One("sleepRead" = "writing") - One(pc[t] = "writing")
          /\ read_waiters' = read_waiters + One("sleepRead" \in {"sleepRead", "wakeRead"})
               - One(pc[t] \in {"sleepRead", "wakeRead"})
          /\ write_waiters' = write_waiters + One("sleepRead" \in {"sleepWrite", "wakeWrite"})
               - One(pc[t] \in {"sleepWrite", "wakeWrite"})
          /\ writers' = writers
      BY <1>1, <1>2 DEF ReadLock, ReadLockWoken, ReadWaiterCounted, One, TypeOK
    <3>2. QED
      BY <1>1, <2>1, <3>1, CountersMove DEF TypeOK, Move
  <2>3. Exclusion'
    BY <1>1, <2>1, ExclusionMove
  <2>4. SleepersWillBeWoken'
    <3>1. At("writing") \cup At("sleepWrite") \cup At("wakeWrite") # {}
      BY <1>1, <1>2, CountersTell DEF ReaderMustWait
    <3>2. PICK v \in Threads : pc[v] \in {"writing", "sleepWrite", "wakeWrite"}
      BY <3>1 DEF At
    <3>3. pc[t] \in {"idle", "wakeRead"}
      BY DEF ReadLock, ReadLockWoken
    <3>4. pc'[v] \in {"writing", "sleepWrite", "wakeWrite"}
      BY <2>1, <3>2, <3>3 DEF Move, AtMostWakes
    <3>5. (At("writing") \cup At("sleepWrite") \cup At("wakeWrite"))' # {}
      BY <3>4 DEF At
    <3>6. QED
      BY <1>1, <2>1, <3>3, <3>5, SleepersMove
  <2>5. QED
    BY <2>2, <2>3, <2>4 DEF IInv, LockSound
<1>3. CASE ~ReaderMustWait
  <2>1. Move(t, "reading") /\ "reading" \in Places
    BY <1>1, <1>3, GotoMoves DEF ReadLock, ReadLockWoken, Places
  <2>2. CountersExact' /\ TypeOK'
    <3>1. /\ readers' = readers + One("reading" = "reading") - One(pc[t] = "reading")
          /\ writers' = writers + One("reading" = "writing") - One(pc[t] = "writing")
          /\ read_waiters' = read_waiters + One("reading" \in {"sleepRead", "wakeRead"})
               - One(pc[t] \in {"sleepRead", "wakeRead"})
          /\ write_waiters' = write_waiters + One("reading" \in {"sleepWrite", "wakeWrite"})
               - One(pc[t] \in {"sleepWrite", "wakeWrite"})
          /\ writers' = writers
      BY <1>1, <1>3 DEF ReadLock, ReadLockWoken, One, TypeOK
    <3>2. QED
      BY <1>1, <2>1, <3>1, CountersMove DEF TypeOK, Move
  <2>3. Exclusion'
    BY <1>1, <1>3, <2>1, ExclusionMove, CountersTell DEF ReaderMustWait
  <2>4. SleepersWillBeWoken'
    <3>1. pc[t] \in {"idle", "wakeRead"}
      BY DEF ReadLock, ReadLockWoken
    <3>2. QED
      BY <1>1, <2>1, <3>1, SleepersMove
  <2>5. QED
    BY <2>2, <2>3, <2>4 DEF IInv, LockSound
<1>4. QED
  BY <1>2, <1>3

(* WriteLock, and its loop after a wait.                                   *)
LEMMA InvWriter ==
  ASSUME ThreadsAssumption, IInv, NEW t \in Threads, WriteLock(t) \/ WriteLockWoken(t)
  PROVE  IInv'
<1>1. TypeOK /\ CountersExact /\ Exclusion /\ SleepersWillBeWoken
  BY DEF IInv, LockSound
<1>2. pc[t] \in {"idle", "wakeWrite"}
  BY DEF WriteLock, WriteLockWoken
<1>3. CASE WriterMustWait
  <2>1. Move(t, "sleepWrite") /\ "sleepWrite" \in Places
    BY <1>1, <1>3, GotoMoves DEF WriteLock, WriteLockWoken, Places
  <2>2. CountersExact' /\ TypeOK'
    <3>1. /\ readers' = readers + One("sleepWrite" = "reading") - One(pc[t] = "reading")
          /\ writers' = writers + One("sleepWrite" = "writing") - One(pc[t] = "writing")
          /\ read_waiters' = read_waiters + One("sleepWrite" \in {"sleepRead", "wakeRead"})
               - One(pc[t] \in {"sleepRead", "wakeRead"})
          /\ write_waiters' = write_waiters + One("sleepWrite" \in {"sleepWrite", "wakeWrite"})
               - One(pc[t] \in {"sleepWrite", "wakeWrite"})
          /\ writers' = writers
      BY <1>1, <1>3 DEF WriteLock, WriteLockWoken, One, TypeOK
    <3>2. QED
      BY <1>1, <2>1, <3>1, CountersMove DEF TypeOK, Move
  <2>3. Exclusion'
    BY <1>1, <2>1, ExclusionMove
  <2>4. SleepersWillBeWoken'
    <3>1. At("reading") \cup At("writing") # {}
      BY <1>1, <1>3, CountersTell DEF WriterMustWait
    <3>2. PICK v \in Threads : pc[v] \in {"reading", "writing"}
      BY <3>1 DEF At
    <3>3. pc'[v] \in {"reading", "writing"}
      BY <1>2, <2>1, <3>2 DEF Move, AtMostWakes
    <3>4. (At("reading") \cup At("writing") \cup At("wakeWrite"))' # {}
      BY <3>3 DEF At
    <3>5. QED
      BY <1>1, <2>1, <3>4, SleepersMove
  <2>5. QED
    BY <2>2, <2>3, <2>4 DEF IInv, LockSound
<1>4. CASE ~WriterMustWait
  <2>1. Move(t, "writing") /\ "writing" \in Places
    BY <1>1, <1>4, GotoMoves DEF WriteLock, WriteLockWoken, Places
  <2>2. CountersExact' /\ TypeOK'
    <3>1. /\ readers' = readers + One("writing" = "reading") - One(pc[t] = "reading")
          /\ writers' = writers + One("writing" = "writing") - One(pc[t] = "writing")
          /\ read_waiters' = read_waiters + One("writing" \in {"sleepRead", "wakeRead"})
               - One(pc[t] \in {"sleepRead", "wakeRead"})
          /\ write_waiters' = write_waiters + One("writing" \in {"sleepWrite", "wakeWrite"})
               - One(pc[t] \in {"sleepWrite", "wakeWrite"})
          /\ writers' = 1
      BY <1>1, <1>4 DEF WriteLock, WriteLockWoken, WriterMustWait, One, TypeOK
    <3>2. QED
      BY <1>1, <2>1, <3>1, CountersMove DEF TypeOK, Move
  <2>3. Exclusion'
    BY <1>1, <1>4, <2>1, ExclusionMove, CountersTell DEF WriterMustWait
  <2>4. SleepersWillBeWoken'
    BY <1>1, <2>1, SleepersMove
  <2>5. QED
    BY <2>2, <2>3, <2>4 DEF IInv, LockSound
<1>5. QED
  BY <1>3, <1>4

(* ReadUnlock: a writer that sleeps is woken by every reader that leaves.  *)
LEMMA InvReadUnlock ==
  ASSUME ThreadsAssumption, IInv, NEW t \in Threads, ReadUnlock(t)
  PROVE  IInv'
<1>1. TypeOK /\ CountersExact /\ Exclusion /\ SleepersWillBeWoken
  BY DEF IInv, LockSound
<1>2. pc[t] = "reading" /\ "idle" \in Places
  BY DEF ReadUnlock, Places
<1>3. /\ Move(t, "idle")
      /\ (At("reading") \cup At("writing") \cup At("wakeWrite"))' # {} \/ At("sleepWrite")' = {}
  <2>1. CASE write_waiters # 0
    <3>1. LeaveNotifyWriter(t)
      BY <2>1 DEF ReadUnlock
    <3>2. Move(t, "idle") /\ (At("sleepWrite") # {} => At("wakeWrite")' # {})
      BY <1>1, <1>2, <3>1, NotifyWriterMoves
    <3>3. At("sleepWrite") = {} => At("sleepWrite")' = {}
      BY <3>2 DEF Move, AtMostWakes, At
    <3>4. QED
      BY <3>2, <3>3 DEF At
  <2>2. CASE write_waiters = 0
    <3>1. Move(t, "idle")
      BY <1>1, <1>2, <2>2, GotoMoves DEF ReadUnlock
    <3>2. At("sleepWrite") = {}
      BY <1>1, <2>2, CountersTell
    <3>3. At("sleepWrite")' = {}
      BY <3>1, <3>2 DEF Move, AtMostWakes, At
    <3>4. QED
      BY <3>1, <3>3
  <2>3. QED
    BY <2>1, <2>2
<1>4. CountersExact' /\ TypeOK'
  <2>1. /\ readers' = readers + One("idle" = "reading") - One(pc[t] = "reading")
        /\ writers' = writers + One("idle" = "writing") - One(pc[t] = "writing")
        /\ read_waiters' = read_waiters + One("idle" \in {"sleepRead", "wakeRead"})
             - One(pc[t] \in {"sleepRead", "wakeRead"})
        /\ write_waiters' = write_waiters + One("idle" \in {"sleepWrite", "wakeWrite"})
             - One(pc[t] \in {"sleepWrite", "wakeWrite"})
        /\ writers' = writers
    BY <1>1, <1>2 DEF ReadUnlock, One, TypeOK
  <2>2. QED
    BY <1>1, <1>2, <1>3, <2>1, CountersMove DEF TypeOK, Move
<1>5. Exclusion'
  BY <1>1, <1>2, <1>3, ExclusionMove
<1>6. SleepersWillBeWoken'
  BY <1>1, <1>2, <1>3, SleepersMove
<1>7. QED
  BY <1>4, <1>5, <1>6 DEF IInv, LockSound

(* WriteUnlock: a writer is woken if one waits, and else all readers; a    *)
(* writer that waits is a reason for the readers to go on sleeping.        *)
LEMMA InvWriteUnlock ==
  ASSUME ThreadsAssumption, IInv, NEW t \in Threads, WriteUnlock(t)
  PROVE  IInv'
<1>1. TypeOK /\ CountersExact /\ Exclusion /\ SleepersWillBeWoken
  BY DEF IInv, LockSound
<1>2. pc[t] = "writing" /\ "idle" \in Places
  BY DEF WriteUnlock, Places
<1>3. /\ Move(t, "idle")
      /\ (At("reading") \cup At("writing") \cup At("wakeWrite"))' # {} \/ At("sleepWrite")' = {}
      /\ \/ (At("writing") \cup At("sleepWrite") \cup At("wakeWrite"))' # {}
         \/ At("sleepRead")' = {}
  <2>1. CASE write_waiters # 0
    <3>1. LeaveNotifyWriter(t)
      BY <2>1 DEF WriteUnlock
    <3>2. Move(t, "idle") /\ (At("sleepWrite") # {} => At("wakeWrite")' # {})
      BY <1>1, <1>2, <3>1, NotifyWriterMoves
    <3>3. At("sleepWrite") = {} => At("sleepWrite")' = {}
      BY <3>2 DEF Move, AtMostWakes, At
    <3>4. PICK v \in Threads : pc[v] \in {"sleepWrite", "wakeWrite"}
      BY <1>1, <2>1, CountersTell DEF At
    <3>5. pc'[v] \in {"sleepWrite", "wakeWrite"}
      BY <1>2, <3>2, <3>4 DEF Move, AtMostWakes
    <3>6. (At("writing") \cup At("sleepWrite") \cup At("wakeWrite"))' # {}
      BY <3>5 DEF At
    <3>7. QED
      BY <3>2, <3>3, <3>6 DEF At
  <2>2. CASE write_waiters = 0
    <3>1. At("sleepWrite") = {}
      BY <1>1, <2>2, CountersTell
    <3>2. Move(t, "idle") /\ At("sleepRead")' = {}
      <4>1. CASE read_waiters # 0
        BY <1>1, <2>2, <4>1, NotifyReadersMoves DEF WriteUnlock
      <4>2. CASE read_waiters = 0
        <5>1. Move(t, "idle")
          BY <1>1, <1>2, <2>2, <4>2, GotoMoves DEF WriteUnlock
        <5>2. At("sleepRead") = {}
          BY <1>1, <4>2, CountersTell
        <5>3. QED
          BY <5>1, <5>2 DEF Move, AtMostWakes, At
      <4>3. QED
        BY <4>1, <4>2
    <3>3. At("sleepWrite")' = {}
      BY <3>1, <3>2 DEF Move, AtMostWakes, At
    <3>4. QED
      BY <3>2, <3>3
  <2>3. QED
    BY <2>1, <2>2
<1>4. CountersExact' /\ TypeOK'
  <2>1. writers = 1
    <3>1. t \in At("writing")
      BY <1>2 DEF At
    <3>2. QED
      BY <1>1, <3>1, CountersTell DEF TypeOK
  <2>2. /\ readers' = readers + One("idle" = "reading") - One(pc[t] = "reading")
        /\ writers' = writers + One("idle" = "writing") - One(pc[t] = "writing")
        /\ read_waiters' = read_waiters + One("idle" \in {"sleepRead", "wakeRead"})
             - One(pc[t] \in {"sleepRead", "wakeRead"})
        /\ write_waiters' = write_waiters + One("idle" \in {"sleepWrite", "wakeWrite"})
             - One(pc[t] \in {"sleepWrite", "wakeWrite"})
        /\ writers' = 0
    BY <1>1, <1>2, <2>1 DEF WriteUnlock, One, TypeOK
  <2>3. QED
    BY <1>1, <1>2, <1>3, <2>2, CountersMove DEF TypeOK, Move
<1>5. Exclusion'
  BY <1>1, <1>2, <1>3, ExclusionMove
<1>6. SleepersWillBeWoken'
  BY <1>1, <1>2, <1>3, SleepersMove
<1>7. QED
  BY <1>4, <1>5, <1>6 DEF IInv, LockSound

(* A wait that returns for no reason.                                      *)
LEMMA InvSpurious ==
  ASSUME ThreadsAssumption, IInv, NEW t \in Threads, SpuriousWakeup(t)
  PROVE  IInv'
<1>1. TypeOK /\ CountersExact /\ Exclusion /\ SleepersWillBeWoken
  BY DEF IInv, LockSound
<1>2. \E from, to \in Places :
        /\ <<from, to>> \in {<<"sleepRead", "wakeRead">>, <<"sleepWrite", "wakeWrite">>}
        /\ pc[t] = from /\ Goto(t, to)
  BY DEF SpuriousWakeup, Places
<1>3. PICK from, to \in Places :
        /\ <<from, to>> \in {<<"sleepRead", "wakeRead">>, <<"sleepWrite", "wakeWrite">>}
        /\ pc[t] = from /\ Goto(t, to)
  BY <1>2
<1>4. Move(t, to)
  BY <1>1, <1>3, GotoMoves
<1>5. CountersExact' /\ TypeOK'
  <2>1. /\ readers' = readers + One(to = "reading") - One(pc[t] = "reading")
        /\ writers' = writers + One(to = "writing") - One(pc[t] = "writing")
        /\ read_waiters' = read_waiters + One(to \in {"sleepRead", "wakeRead"})
             - One(pc[t] \in {"sleepRead", "wakeRead"})
        /\ write_waiters' = write_waiters + One(to \in {"sleepWrite", "wakeWrite"})
             - One(pc[t] \in {"sleepWrite", "wakeWrite"})
        /\ writers' = writers
    BY <1>1, <1>3 DEF SpuriousWakeup, One, TypeOK
  <2>2. QED
    BY <1>1, <1>4, <2>1, CountersMove DEF TypeOK, Move
<1>6. Exclusion'
  BY <1>1, <1>3, <1>4, ExclusionMove
<1>7. SleepersWillBeWoken'
  BY <1>1, <1>3, <1>4, SleepersMove
<1>8. QED
  BY <1>5, <1>6, <1>7 DEF IInv, LockSound

LEMMA InvStep == ThreadsAssumption /\ IInv /\ [Next]_vars => IInv'
<1> SUFFICES ASSUME ThreadsAssumption, IInv, [Next]_vars PROVE IInv'
  OBVIOUS
<1>1. ASSUME NEW t \in Threads, ReadLock(t) \/ ReadLockWoken(t) PROVE IInv'
  BY <1>1, InvReader
<1>2. ASSUME NEW t \in Threads, WriteLock(t) \/ WriteLockWoken(t) PROVE IInv'
  BY <1>2, InvWriter
<1>3. ASSUME NEW t \in Threads, ReadUnlock(t) PROVE IInv'
  BY <1>3, InvReadUnlock
<1>4. ASSUME NEW t \in Threads, WriteUnlock(t) PROVE IInv'
  BY <1>4, InvWriteUnlock
<1>5. ASSUME NEW t \in Threads, SpuriousWakeup(t) PROVE IInv'
  BY <1>5, InvSpurious
<1>6. CASE UNCHANGED vars
  BY <1>6 DEF vars, IInv, TypeOK, LockSound, CountersExact, Exclusion, SleepersWillBeWoken, At
<1>7. QED
  BY <1>1, <1>2, <1>3, <1>4, <1>5, <1>6 DEF Next, Woken, Unlock

LEMMA InvAlways == ThreadsAssumption => (Spec => []IInv)
<1> SUFFICES ASSUME ThreadsAssumption PROVE Spec => []IInv
  OBVIOUS
<1>1. QED
  BY InvInit, InvStep, PTL DEF Spec

(* For any finite set of threads: every thread is at one of the places of  *)
(* the code, the unsigned counters readers_, read_waiters_ and             *)
(* write_waiters_ never go below zero, and writers_ is 0 or 1.             *)
THEOREM TypeCorrect == ASSUME ThreadsAssumption PROVE Spec => []TypeOK
<1>1. IInv => TypeOK
  BY DEF IInv
<1>2. QED
  BY <1>1, InvAlways, PTL

(* For any finite set of threads, what ReadWriteLock promises at every     *)
(* moment: a writer is alone, the counters say how many threads read,      *)
(* write and wait, and a thread sleeps only while somebody is there who    *)
(* will wake it.                                                           *)
THEOREM LockIsSound == ASSUME ThreadsAssumption PROVE Spec => []LockSound
<1>1. IInv => LockSound
  BY DEF IInv
<1>2. QED
  BY <1>1, InvAlways, PTL

(* For any finite set of threads, "writers first": no step of ReadLock,    *)
(* fresh or woken, lets a reader in while a writer waits.                  *)
THEOREM WritersGoFirst == ASSUME ThreadsAssumption PROVE Spec => [][PutsWritersFirst]_vars
<1>1. IInv /\ [Next]_vars => [PutsWritersFirst]_vars
  <2> SUFFICES ASSUME IInv, Next, NEW u \in Threads, pc[u] # "reading", pc'[u] = "reading"
               PROVE  At("sleepWrite") \cup At("wakeWrite") = {}
    BY DEF PutsWritersFirst
  <2>1. TypeOK /\ CountersExact
    BY DEF IInv, LockSound
  <2>2. PICK t \in Threads :
          ReadLock(t) \/ WriteLock(t) \/ Woken(t) \/ Unlock(t) \/ SpuriousWakeup(t)
    BY DEF Next
  <2>3. (ReadLock(t) \/ ReadLockWoken(t)) /\ ~ReaderMustWait
    <3>1. ASSUME WriteLock(t) \/ WriteLockWoken(t) PROVE FALSE
      BY <2>1, <3>1 DEF WriteLock, WriteLockWoken, Goto, TypeOK
    <3>2. ASSUME ReadUnlock(t) \/ WriteUnlock(t) PROVE FALSE
      BY <2>1, <3>2 DEF ReadUnlock, WriteUnlock, LeaveNotifyWriter, LeaveNotifyReaders,
                        Goto, TypeOK, At
    <3>3. ASSUME SpuriousWakeup(t) PROVE FALSE
      BY <2>1, <3>3 DEF SpuriousWakeup, Goto, TypeOK
    <3>4. ASSUME ReadLock(t) \/ ReadLockWoken(t), ReaderMustWait PROVE FALSE
      BY <2>1, <3>4 DEF ReadLock, ReadLockWoken, Goto, TypeOK
    <3>5. QED
      BY <2>2, <3>1, <3>2, <3>3, <3>4 DEF Woken, Unlock
  <2>4. QED
    BY <2>1, <2>3, CountersTell DEF ReaderMustWait
<1>2. QED
  BY <1>1, InvAlways, PTL DEF Spec
==============================================================================
