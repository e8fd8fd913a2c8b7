------------------------ MODULE ConnectionPoolProofs ------------------------
(***************************************************************************)
(* Proofs about ConnectionPool, for any finite sets of clients and servers *)
(* and any limits: the counters of the pool are exact, no more connections *)
(* are in use than _max unless two clients opened at once, and between two *)
(* updates at most one read server is taken out (ConnectionsCounted).      *)
(*                                                                         *)
(* None of this is inductive as it stands.  The limit holds because it is  *)
(* one on all connections, idle ones and those being opened included: an   *)
(* opening begins when nothing is idle and fewer than _max are in use.  And*)
(* a server is taken out once because _isCut says whether the read servers *)
(* are still those of the configuration.                                   *)
(***************************************************************************)
EXTENDS ConnectionPool, FiniteSetTheorems, WellFoundedInduction, TLAPS

Places == {"idle", "opening", "opened", "using", "returning", "discarding", "reporting"}
InUse == {"using", "returning", "discarding"}
BeingOpened == {"opening", "opened"}

(* The clients whose place is in P and who have asked for f.               *)
Group(P, f) == {c \in Clients : pc[c] \in P /\ wrflag[c] = f}

(* What client c counts in that group.                                     *)
Share(P, f, c) == IF pc[c] \in P /\ wrflag[c] = f THEN 1 ELSE 0

(* A sequence of whatever elements.                                        *)
IsList(q) == \E S : q \in Seq(S)

Types ==
  /\ instance \in [timestamp : Nat, rservers : SUBSET Servers]
  /\ latest \in [timestamp : Nat, rservers : SUBSET Servers]
  /\ isCut \in BOOLEAN /\ overlapped \in BOOLEAN /\ now \in Nat
  /\ DOMAIN idle = Flags /\ \A f \in Flags : IsList(idle[f])
  /\ busyCount \in [Flags -> Nat] /\ idleCount \in [Flags -> Nat]
  /\ pc \in [Clients -> Places] /\ wrflag \in [Clients -> Flags]

(* Unless two clients opened at once, there are no more connections, idle, *)
(* in use or being opened, than _max.                                      *)
AllWithinMax ==
  ~overlapped =>
    \A f \in Flags : busyCount[f] + idleCount[f] + Cardinality(Opening(f)) <= MaxBusy

(* While the instance is the configured one, its read servers are, but for *)
(* one if it was cut.                                                      *)
CutOnce ==
  /\ instance.rservers # {} /\ latest.rservers # {}
  /\ instance.timestamp <= latest.timestamp
  /\ instance.timestamp = latest.timestamp =>
       \A s, t \in latest.rservers \ instance.rservers : isCut /\ s = t

IInv == Types /\ CountsExact /\ AllWithinMax /\ CutOnce

-----------------------------------------------------------------------------
(* Lists.                                                                  *)

(* A function on 1 .. n is a list of n elements.                           *)
LEMMA FunctionIsList ==
  ASSUME NEW n \in Nat, NEW q, DOMAIN q = 1 .. n, q = [i \in 1 .. n |-> q[i]]
  PROVE  IsList(q) /\ Len(q) = n
<1> DEFINE S == {q[i] : i \in 1 .. n}
<1>1. q \in [1 .. n -> S]
  OBVIOUS
<1>2. q \in Seq(S)
  BY <1>1
<1>3. Len(q) \in Nat /\ 1 .. Len(q) = 1 .. n
  BY <1>2
<1>4. (Len(q) = 0 \/ Len(q) \in 1 .. n) /\ (n = 0 \/ n \in 1 .. Len(q))
  BY <1>3
<1>5. Len(q) = n
  BY <1>3, <1>4
<1>6. QED
  BY <1>2, <1>5 DEF IsList

LEMMA ListLen ==
  ASSUME NEW q, IsList(q)
  PROVE  Len(q) \in Nat /\ DOMAIN q = 1 .. Len(q) /\ (q = <<>> <=> Len(q) = 0)
<1>1. PICK S : q \in Seq(S)
  BY DEF IsList
<1>2. QED
  BY <1>1

LEMMA ListTail ==
  ASSUME NEW q, IsList(q), q # <<>>
  PROVE  IsList(Tail(q)) /\ Len(Tail(q)) = Len(q) - 1
<1>1. PICK S : q \in Seq(S)
  BY DEF IsList
<1>2. QED
  BY <1>1 DEF IsList

LEMMA ListPush ==
  ASSUME NEW q, IsList(q), NEW e
  PROVE  IsList(<<e>> \o q) /\ Len(<<e>> \o q) = Len(q) + 1
<1>1. PICK S : q \in Seq(S)
  BY DEF IsList
<1>2. <<e>> \in Seq(S \cup {e}) /\ q \in Seq(S \cup {e}) /\ Len(<<e>>) = 1
  BY <1>1
<1>3. <<e>> \o q \in Seq(S \cup {e}) /\ Len(<<e>> \o q) = 1 + Len(q)
  BY <1>2
<1>4. QED
  BY <1>1, <1>3 DEF IsList

(* What is left of a list when some places are dropped is a list, no       *)
(* longer than it was.                                                     *)
LEMMA ListReversedPart ==
  ASSUME NEW q, IsList(q), NEW P \in SUBSET DOMAIN q
  PROVE  /\ IsList(Reverse(Subsequence(q, P)))
         /\ Len(Reverse(Subsequence(q, P))) = Len(Subsequence(q, P))
         /\ Len(Subsequence(q, P)) \in 0 .. Len(q)
<1>1. Len(q) \in Nat /\ DOMAIN q = 1 .. Len(q)
  BY ListLen
<1>2. IsFiniteSet(1 .. Len(q)) /\ Cardinality(1 .. Len(q)) = Len(q)
  BY <1>1, FS_Interval
<1>3. IsFiniteSet(P) /\ Cardinality(P) <= Len(q)
  BY <1>1, <1>2, FS_Subset
<1>4. Cardinality(P) \in Nat
  BY <1>3, FS_CardinalityType
<1>5. IsList(Subsequence(q, P)) /\ Len(Subsequence(q, P)) = Cardinality(P)
  BY <1>4, FunctionIsList DEF Subsequence
<1>6. IsList(Reverse(Subsequence(q, P))) /\ Len(Reverse(Subsequence(q, P))) = Cardinality(P)
  BY <1>4, <1>5, FunctionIsList DEF Reverse
<1>7. QED
  BY <1>1, <1>3, <1>4, <1>5, <1>6

(* evict finds how many entries to remove: the longest list of outdated    *)
(* entries at the back.                                                    *)
LEMMA BackFound ==
  ASSUME Types, NEW f \in Flags
  PROVE  OutdatedAtBack(f) \in 0 .. Len(idle[f])
<1> DEFINE q == idle[f]
           Valid == {n \in 0 .. Len(q) : n = Len(q) \/ ~Outdated(q[Len(q) - n])}
<1>1. Len(q) \in Nat
  BY ListLen DEF Types
<1>2. Valid \in SUBSET Nat /\ Valid # {}
  <2>1. Len(q) \in Valid
    BY <1>1
  <2>2. QED
    BY <1>1, <2>1
<1>3. PICK n \in Valid : \A m \in Valid : ~(m < n)
  <2>1. IsWellFoundedOn(OpToRel(<, Nat), Nat)
    BY NatLessThanWellFounded
  <2>2. PICK n \in Valid : \A m \in Valid : ~(<<m, n>> \in OpToRel(<, Nat))
    BY <1>2, <2>1, WFMin
  <2>3. QED
    BY <1>2, <2>2 DEF OpToRel
<1>4. ASSUME NEW i \in 1 .. Len(q), i > Len(q) - n
      PROVE  Outdated(q[i])
  <2>1. /\ Len(q) - i \in 0 .. Len(q) /\ Len(q) - i < n /\ Len(q) - i # Len(q)
        /\ Len(q) - (Len(q) - i) = i
    BY <1>1, <1>2, <1>4
  <2>2. Len(q) - i \notin Valid
    BY <1>3, <2>1
  <2>3. QED
    BY <2>1, <2>2
<1>5. n \in 0 .. Len(q) /\ (n < Len(q) => ~Outdated(q[Len(q) - n]))
  BY <1>1, <1>3
<1>6. QED
  BY <1>4, <1>5 DEF OutdatedAtBack

-----------------------------------------------------------------------------
(* Counting the clients.                                                   *)

LEMMA GroupSize ==
  ASSUME PoolAssumption, NEW P, NEW f
  PROVE  /\ IsFiniteSet(Group(P, f)) /\ Cardinality(Group(P, f)) \in Nat
         /\ Cardinality(Group(P, f)) = 0 <=> Group(P, f) = {}
<1>1. IsFiniteSet(Group(P, f))
  BY FS_Subset DEF Group, PoolAssumption
<1>2. QED
  BY <1>1, FS_CardinalityType, FS_EmptySet

(* When only client c moves, the size of a group changes by what c does.   *)
LEMMA GroupMove ==
  ASSUME PoolAssumption, NEW P, NEW f, NEW c \in Clients,
         \A d \in Clients \ {c} : pc'[d] = pc[d] /\ wrflag'[d] = wrflag[d]
  PROVE  Cardinality(Group(P, f)') + Share(P, f, c)
           = Cardinality(Group(P, f)) + Share(P, f, c)'
<1> DEFINE Rest == Group(P, f) \ {c}
<1>1. IsFiniteSet(Rest) /\ Cardinality(Rest) \in Nat /\ c \notin Rest
  BY FS_Subset, FS_CardinalityType DEF Group, PoolAssumption
<1>2. Cardinality(Rest \cup {c}) = Cardinality(Rest) + 1
  BY <1>1, FS_AddElement
<1> HIDE DEF Rest
<1>3. Cardinality(Group(P, f)) = Cardinality(Rest) + Share(P, f, c)
  <2>1. CASE pc[c] \in P /\ wrflag[c] = f
    <3>1. Group(P, f) = Rest \cup {c}
      BY <2>1 DEF Group, Rest
    <3>2. QED
      BY <2>1, <3>1, <1>2 DEF Share
  <2>2. CASE ~(pc[c] \in P /\ wrflag[c] = f)
    <3>1. Group(P, f) = Rest
      BY <2>2 DEF Group, Rest
    <3>2. QED
      BY <2>2, <3>1, <1>1 DEF Share
  <2>3. QED
    BY <2>1, <2>2
<1>4. Cardinality(Group(P, f)') = Cardinality(Rest) + Share(P, f, c)'
  <2>1. CASE pc'[c] \in P /\ wrflag'[c] = f
    <3>1. Group(P, f)' = Rest \cup {c}
      BY <2>1 DEF Group, Rest
    <3>2. QED
      BY <2>1, <3>1, <1>2 DEF Share
  <2>2. CASE ~(pc'[c] \in P /\ wrflag'[c] = f)
    <3>1. Group(P, f)' = Rest
      BY <2>2 DEF Group, Rest
    <3>2. QED
      BY <2>2, <3>1, <1>1 DEF Share
  <2>3. QED
    BY <2>1, <2>2
<1>5. /\ Share(P, f, c) \in Nat
      /\ Share(P, f, c)' \in Nat
  BY DEF Share
<1>6. QED
  BY <1>1, <1>3, <1>4, <1>5

(* Users and Opening are such groups.                                      *)
LEMMA Groups == \A f : Users(f) = Group(InUse, f) /\ Opening(f) = Group(BeingOpened, f)
BY DEF Users, Opening, Group, InUse, BeingOpened

(***************************************************************************)
(* A move: client c changes its place or what it asks for, and the busy    *)
(* counters change by whether it comes to use a connection or ceases to.   *)
(***************************************************************************)
Move(c) ==
  /\ pc' \in [Clients -> Places] /\ wrflag' \in [Clients -> Flags]
  /\ \A d \in Clients \ {c} : pc'[d] = pc[d] /\ wrflag'[d] = wrflag[d]
  /\ busyCount' \in [Flags -> Int]
  /\ \A f \in Flags :
       busyCount'[f] = busyCount[f] + Share(InUse, f, c)'
                                    - Share(InUse, f, c)

(* A move keeps the busy counters exact, and the clients that open a       *)
(* connection change by c.                                                 *)
LEMMA MoveCounts ==
  ASSUME PoolAssumption, Types, CountsExact, NEW c \in Clients, Move(c)
  PROVE  /\ busyCount' \in [Flags -> Nat]
         /\ \A f \in Flags : busyCount'[f] = Cardinality(Users(f)')
         /\ \A f \in Flags :
              /\ Cardinality(Opening(f)) \in Nat /\ Cardinality(Opening(f)') \in Nat
              /\ Cardinality(Opening(f)') + Share(BeingOpened, f, c)
                   = Cardinality(Opening(f)) + Share(BeingOpened, f, c)'
<1>1. ASSUME NEW f \in Flags
      PROVE  busyCount'[f] = Cardinality(Users(f)') /\ busyCount'[f] \in Nat
  <2>1. Cardinality(Group(InUse, f)') + Share(InUse, f, c)
          = Cardinality(Group(InUse, f)) + Share(InUse, f, c)'
    BY GroupMove DEF Move
  <2>2. busyCount[f] = Cardinality(Group(InUse, f))
    BY Groups DEF CountsExact
  <2>3. Cardinality(Group(InUse, f)) \in Nat
    BY GroupSize
  <2>4. Cardinality(Group(InUse, f)') \in Nat
    <3>1. IsFiniteSet(Group(InUse, f)')
      BY FS_Subset DEF Group, PoolAssumption
    <3>2. QED
      BY <3>1, FS_CardinalityType
  <2>5. Users(f)' = Group(InUse, f)'
    BY DEF Users, Group, InUse
  <2>6. busyCount'[f] = busyCount[f] + Share(InUse, f, c)'
                                    - Share(InUse, f, c)
    BY DEF Move
  <2>7. /\ Share(InUse, f, c)' \in Nat
        /\ Share(InUse, f, c) \in Nat
    BY DEF Share
  <2>8. QED
    BY <2>1, <2>2, <2>3, <2>4, <2>5, <2>6, <2>7
<1>2. ASSUME NEW f \in Flags
      PROVE  /\ Cardinality(Opening(f)) \in Nat /\ Cardinality(Opening(f)') \in Nat
             /\ Cardinality(Opening(f)') + Share(BeingOpened, f, c)
                  = Cardinality(Opening(f)) + Share(BeingOpened, f, c)'
  <2>1. Cardinality(Group(BeingOpened, f)') + Share(BeingOpened, f, c)
          = Cardinality(Group(BeingOpened, f)) + Share(BeingOpened, f, c)'
    BY GroupMove DEF Move
  <2>2. Opening(f) = Group(BeingOpened, f) /\ Opening(f)' = Group(BeingOpened, f)'
    BY DEF Opening, Group, BeingOpened
  <2>3. IsFiniteSet(Opening(f)) /\ IsFiniteSet(Opening(f)')
    BY FS_Subset DEF Opening, PoolAssumption
  <2>4. QED
    BY <2>1, <2>2, <2>3, FS_CardinalityType
<1>3. busyCount' \in [Flags -> Nat]
  BY <1>1 DEF Move
<1>4. QED
  BY <1>1, <1>2, <1>3

-----------------------------------------------------------------------------
(* The steps of the clients.                                               *)

LEMMA InvInit == PoolAssumption /\ Init => IInv
<1> SUFFICES ASSUME PoolAssumption, Init PROVE IInv
  OBVIOUS
<1>1. Types
  <2>1. IsList(<<>>)
    BY DEF IsList
  <2>2. QED
    BY <2>1 DEF Init, Types, Flags, R, W, Places
<1>2. \A f \in Flags : Users(f) = {} /\ Opening(f) = {}
  BY DEF Init, Users, Opening
<1>3. CountsExact
  BY <1>2, FS_EmptySet DEF Init, CountsExact
<1>4. AllWithinMax
  <2>1. \A f \in Flags : busyCount[f] = 0 /\ idleCount[f] = 0 /\ Cardinality(Opening(f)) = 0
    BY <1>2, FS_EmptySet DEF Init
  <2>2. QED
    BY <2>1 DEF AllWithinMax, PoolAssumption
<1>5. CutOnce
  BY DEF Init, CutOnce, PoolAssumption
<1>6. QED
  BY <1>1, <1>3, <1>4, <1>5 DEF IInv

(* obtain takes an idle connection.                                        *)
LEMMA InvObtainIdle ==
  ASSUME PoolAssumption, IInv, NEW c \in Clients, NEW f \in Flags, obtain(c, f), idle[f] # <<>>
  PROVE  IInv'
<1> USE DEF IInv
<1>1. /\ pc[c] = "idle" /\ pc' = [pc EXCEPT ![c] = "using"]
      /\ wrflag' = [wrflag EXCEPT ![c] = f]
      /\ idle' = [idle EXCEPT ![f] = Tail(@)]
      /\ busyCount' = [busyCount EXCEPT ![f] = @ + 1]
      /\ idleCount' = [idleCount EXCEPT ![f] = @ - 1]
      /\ UNCHANGED <<instance, isCut, now, latest, overlapped>>
  BY DEF obtain
<1>2. Move(c)
  BY <1>1 DEF Move, Types, Places, InUse, Share
<1>3. IsList(Tail(idle[f])) /\ Len(Tail(idle[f])) = Len(idle[f]) - 1 /\ Len(idle[f]) \in Nat \ {0}
  BY ListTail, ListLen DEF Types
<1>4. idleCount[f] = Len(idle[f]) /\ idleCount' \in [Flags -> Nat]
  BY <1>1, <1>3 DEF CountsExact, Types
<1>5. Types'
  BY <1>1, <1>2, <1>3, <1>4, MoveCounts DEF Types, Move
<1>6. CountsExact'
  BY <1>1, <1>2, <1>3, <1>4, MoveCounts DEF CountsExact, Types
<1>7. AllWithinMax'
  <2>1. SUFFICES ASSUME ~overlapped, NEW g \in Flags
                 PROVE  busyCount'[g] + idleCount'[g] + Cardinality(Opening(g)') <= MaxBusy
    BY <1>1 DEF AllWithinMax
  <2>2. Cardinality(Opening(g)') = Cardinality(Opening(g)) /\ Cardinality(Opening(g)) \in Nat
    <3>1. Share(BeingOpened, g, c) = 0 /\ Share(BeingOpened, g, c)' = 0
      BY <1>1 DEF Types, BeingOpened, Share
    <3>2. QED
      BY <1>2, <3>1, MoveCounts
  <2>3. busyCount'[g] + idleCount'[g] = busyCount[g] + idleCount[g]
    BY <1>1 DEF Types
  <2>4. QED
    BY <2>1, <2>2, <2>3 DEF AllWithinMax
<1>8. CutOnce'
  BY <1>1 DEF CutOnce
<1>9. QED
  BY <1>5, <1>6, <1>7, <1>8

(* obtain leaves to open one.                                              *)
LEMMA InvObtainNew ==
  ASSUME PoolAssumption, IInv, NEW c \in Clients, NEW f \in Flags, obtain(c, f), idle[f] = <<>>
  PROVE  IInv'
<1> USE DEF IInv
<1>1. /\ pc[c] = "idle" /\ pc' = [pc EXCEPT ![c] = "opening"]
      /\ wrflag' = [wrflag EXCEPT ![c] = f]
      /\ busyCount[f] < MaxBusy
      /\ overlapped' = (overlapped \/ Opening(f) # {})
      /\ UNCHANGED <<idle, busyCount, idleCount, instance, isCut, now, latest>>
  BY DEF obtain, MayOpen
<1>2. Move(c)
  BY <1>1 DEF Move, Types, Places, InUse, Share
<1>3. Types'
  BY <1>1, <1>2 DEF Types, Move
<1>4. CountsExact'
  BY <1>1, <1>2, MoveCounts DEF CountsExact
<1>5. AllWithinMax'
  <2>1. SUFFICES ASSUME ~overlapped, Opening(f) = {}, NEW g \in Flags
                 PROVE  busyCount[g] + idleCount[g] + Cardinality(Opening(g)') <= MaxBusy
    BY <1>1 DEF AllWithinMax
  <2>2. busyCount[g] + idleCount[g] + Cardinality(Opening(g)) <= MaxBusy
    BY <2>1 DEF AllWithinMax
  <2>3. Cardinality(Opening(g)') = Cardinality(Opening(g)) + (IF f = g THEN 1 ELSE 0)
    <3>1. Share(BeingOpened, g, c) = 0 /\ Share(BeingOpened, g, c)' = IF f = g THEN 1 ELSE 0
      BY <1>1 DEF Types, BeingOpened, Share
    <3>2. QED
      BY <1>2, <3>1, MoveCounts
  <2>4. Cardinality(Opening(g)) \in Nat
    BY <1>2, MoveCounts
  <2>5. CASE g = f
    <3>1. idleCount[f] = 0 /\ Cardinality(Opening(f)) = 0
      BY <2>1, FS_EmptySet, ListLen DEF CountsExact, Types
    <3>2. QED
      BY <1>1, <2>3, <2>5, <3>1 DEF Types, PoolAssumption
  <2>6. CASE g # f
    BY <2>2, <2>3, <2>4, <2>6 DEF Types
  <2>7. QED
    BY <2>5, <2>6
<1>6. CutOnce'
  BY <1>1 DEF CutOnce
<1>7. QED
  BY <1>3, <1>4, <1>5, <1>6

(* A connection is opened, or fails to open.                               *)
LEMMA InvConnectionEntry ==
  ASSUME PoolAssumption, IInv, NEW c \in Clients, NEW s, ConnectionEntry(c, s)
  PROVE  IInv'
<1> USE DEF IInv
<1>1. /\ pc[c] = "opening"
      /\ \E p \in {"opened", "reporting", "idle"} : pc' = [pc EXCEPT ![c] = p]
      /\ UNCHANGED <<poolVars, wrflag, now, latest, overlapped>>
  BY DEF ConnectionEntry
<1>2. Move(c)
  BY <1>1 DEF Move, Types, Places, InUse, Share, poolVars
<1>3. Types'
  BY <1>1, <1>2 DEF Types, Move, poolVars
<1>4. CountsExact'
  BY <1>1, <1>2, MoveCounts DEF CountsExact, poolVars
<1>5. AllWithinMax'
  <2>1. SUFFICES ASSUME ~overlapped, NEW g \in Flags
                 PROVE  busyCount[g] + idleCount[g] + Cardinality(Opening(g)') <= MaxBusy
    BY <1>1 DEF AllWithinMax, poolVars
  <2>2. Share(BeingOpened, g, c)' <= Share(BeingOpened, g, c)
    BY <1>1 DEF Types, BeingOpened, Share
  <2>3. Share(BeingOpened, g, c)' \in Nat /\ Share(BeingOpened, g, c) \in Nat
    BY DEF Share
  <2>4. /\ Cardinality(Opening(g)') <= Cardinality(Opening(g))
        /\ Cardinality(Opening(g)') \in Nat /\ Cardinality(Opening(g)) \in Nat
    BY <1>2, <2>2, <2>3, MoveCounts
  <2>5. busyCount[g] + idleCount[g] + Cardinality(Opening(g)) <= MaxBusy
    BY <2>1 DEF AllWithinMax
  <2>6. QED
    BY <2>4, <2>5 DEF Types, PoolAssumption
<1>6. CutOnce'
  BY <1>1 DEF CutOnce, poolVars
<1>7. QED
  BY <1>3, <1>4, <1>5, <1>6

(* A connection that was opened is counted.                                *)
LEMMA InvCountOpened ==
  ASSUME PoolAssumption, IInv, NEW c \in Clients, countOpened(c)
  PROVE  IInv'
<1> USE DEF IInv
<1>1. /\ pc[c] = "opened" /\ pc' = [pc EXCEPT ![c] = "using"]
      /\ busyCount' = [busyCount EXCEPT ![wrflag[c]] = @ + 1]
      /\ UNCHANGED <<instance, isCut, idle, idleCount, wrflag, now, latest, overlapped>>
  BY DEF countOpened
<1>2. Move(c)
  BY <1>1 DEF Move, Types, Places, InUse, Share
<1>3. Types'
  BY <1>1, <1>2, MoveCounts DEF Types, Move
<1>4. CountsExact'
  BY <1>1, <1>2, MoveCounts DEF CountsExact
<1>5. AllWithinMax'
  <2>1. SUFFICES ASSUME ~overlapped, NEW g \in Flags
                 PROVE  busyCount'[g] + idleCount[g] + Cardinality(Opening(g)') <= MaxBusy
    BY <1>1 DEF AllWithinMax
  <2>2. PICK n \in Nat : /\ n = Share(BeingOpened, g, c)
                         /\ busyCount'[g] = busyCount[g] + n
                         /\ Share(BeingOpened, g, c)' = 0
    BY <1>1 DEF Types, BeingOpened, Share
  <2>3. /\ Cardinality(Opening(g)') + n = Cardinality(Opening(g))
        /\ Cardinality(Opening(g)') \in Nat /\ Cardinality(Opening(g)) \in Nat
    BY <1>2, <2>2, MoveCounts
  <2>4. busyCount[g] + idleCount[g] + Cardinality(Opening(g)) <= MaxBusy
    BY <2>1 DEF AllWithinMax
  <2>5. QED
    BY <2>2, <2>3, <2>4 DEF Types, PoolAssumption
<1>6. CutOnce'
  BY <1>1 DEF CutOnce
<1>7. QED
  BY <1>3, <1>4, <1>5, <1>6

(* When a client moves without opening, and the connections it and the     *)
(* idle lists have do not become more, the limit is kept.                  *)
LEMMA MaxKept ==
  ASSUME PoolAssumption, IInv, NEW c \in Clients, Move(c), overlapped' = overlapped,
         pc[c] \notin BeingOpened, pc'[c] \notin BeingOpened,
         \A g \in Flags : /\ idleCount'[g] \in Int
                          /\ busyCount'[g] + idleCount'[g] <= busyCount[g] + idleCount[g]
  PROVE  AllWithinMax'
<1> USE DEF IInv
<1>1. SUFFICES ASSUME ~overlapped, NEW g \in Flags
               PROVE  busyCount'[g] + idleCount'[g] + Cardinality(Opening(g)') <= MaxBusy
  BY DEF AllWithinMax
<1>2. Share(BeingOpened, g, c) = 0 /\ Share(BeingOpened, g, c)' = 0
  BY DEF Share
<1>3. Cardinality(Opening(g)') = Cardinality(Opening(g)) /\ Cardinality(Opening(g)) \in Nat
  BY <1>2, MoveCounts
<1>4. busyCount[g] + idleCount[g] + Cardinality(Opening(g)) <= MaxBusy
  BY <1>1 DEF AllWithinMax
<1>5. busyCount'[g] \in Nat /\ busyCount[g] \in Nat /\ idleCount[g] \in Nat
  BY MoveCounts DEF Types
<1>6. QED
  BY <1>3, <1>4, <1>5 DEF PoolAssumption

LEMMA InvValidate ==
  ASSUME PoolAssumption, IInv, NEW c \in Clients, NEW broken, validate(c, broken)
  PROVE  IInv'
<1> USE DEF IInv
<1>1. /\ pc[c] = "using"
      /\ pc' = [pc EXCEPT ![c] = "discarding"] \/ pc' = [pc EXCEPT ![c] = "returning"]
      /\ UNCHANGED <<poolVars, wrflag, now, latest, overlapped>>
  BY DEF validate
<1>2. Move(c)
  BY <1>1 DEF Move, Types, Places, InUse, Share, poolVars
<1>3. Types'
  BY <1>1, <1>2 DEF Types, Move, poolVars
<1>4. CountsExact'
  BY <1>1, <1>2, MoveCounts DEF CountsExact, poolVars
<1>5. AllWithinMax'
  BY <1>1, <1>2, MaxKept DEF Types, BeingOpened, poolVars
<1>6. CutOnce'
  BY <1>1 DEF CutOnce, poolVars
<1>7. QED
  BY <1>3, <1>4, <1>5, <1>6

LEMMA InvRelease ==
  ASSUME PoolAssumption, IInv, NEW c \in Clients, release(c)
  PROVE  IInv'
<1> USE DEF IInv
<1>1. PICK f \in Flags : f = wrflag[c]
  BY DEF Types
<1>2. /\ pc[c] \in {"returning", "discarding"}
      /\ pc' = [pc EXCEPT ![c] = "idle"] \/ pc' = [pc EXCEPT ![c] = "reporting"]
      /\ busyCount' = [busyCount EXCEPT ![f] = @ - 1]
      /\ UNCHANGED <<instance, isCut, wrflag, now, latest, overlapped>>
  BY <1>1 DEF release
<1>3. \/ UNCHANGED <<idle, idleCount>>
      \/ /\ idle' = [idle EXCEPT ![f] = <<entry[c]>> \o @]
         /\ idleCount' = [idleCount EXCEPT ![f] = @ + 1]
  BY <1>1 DEF release
<1>4. Move(c)
  BY <1>1, <1>2 DEF Move, Types, Places, InUse, Share
<1>5. IsList(<<entry[c]>> \o idle[f]) /\ Len(<<entry[c]>> \o idle[f]) = Len(idle[f]) + 1
  BY ListPush DEF Types
<1>6. Types'
  <2>1. DOMAIN idle' = Flags /\ \A g \in Flags : IsList(idle'[g])
    BY <1>3, <1>5 DEF Types
  <2>2. idleCount' \in [Flags -> Nat]
    BY <1>3 DEF Types
  <2>3. QED
    BY <1>2, <1>4, <2>1, <2>2, MoveCounts DEF Types, Move
<1>7. \A g \in Flags : idleCount'[g] = Len(idle'[g])
  BY <1>3, <1>5 DEF CountsExact, Types
<1>8. CountsExact'
  BY <1>4, <1>7, MoveCounts DEF CountsExact
<1>9. AllWithinMax'
  <2>1. ASSUME NEW g \in Flags
        PROVE  /\ idleCount'[g] \in Int
               /\ busyCount'[g] + idleCount'[g] <= busyCount[g] + idleCount[g]
    BY <1>2, <1>3 DEF Types
  <2>2. pc[c] \notin BeingOpened /\ pc'[c] \notin BeingOpened
    BY <1>2 DEF Types, BeingOpened
  <2>3. QED
    BY <1>2, <1>4, <2>1, <2>2, MaxKept
<1>10. CutOnce'
  BY <1>2 DEF CutOnce
<1>11. QED
  BY <1>6, <1>8, <1>9, <1>10

(* A server that is reported bad is taken out, or nothing happens.         *)
LEMMA InvDelBadDb ==
  ASSUME PoolAssumption, IInv, NEW c \in Clients, delBadDb(c)
  PROVE  IInv'
<1> USE DEF IInv
<1> DEFINE P == {i \in DOMAIN idle[R] : idle[R][i].server # bad[c]}
           kept == Subsequence(idle[R], P)
           rest == instance.rservers \ {bad[c]}
<1>1. /\ pc[c] = "reporting" /\ pc' = [pc EXCEPT ![c] = "idle"]
      /\ UNCHANGED <<busyCount, wrflag, now, latest, overlapped>>
  BY DEF delBadDb
<1>2. \/ UNCHANGED <<instance, idle, idleCount, isCut>>
      \/ isCut' = TRUE /\ UNCHANGED <<instance, idle, idleCount>>
      \/ /\ ~isCut /\ isCut' = TRUE /\ rest # {}
         /\ instance' = [instance EXCEPT !.rservers = rest]
         /\ idle' = [idle EXCEPT ![R] = Reverse(kept)]
         /\ idleCount' = [idleCount EXCEPT ![R] = @ - (Len(idle[R]) - Len(kept))]
  BY DEF delBadDb, NoneLeft
<1>3. Move(c)
  BY <1>1 DEF Move, Types, Places, InUse, Share
<1>4. R \in Flags /\ idleCount[R] = Len(idle[R]) /\ Len(idle[R]) \in Nat
  BY ListLen DEF Flags, CountsExact, Types
<1>5. PICK n \in Nat : /\ n = Len(kept) /\ n <= Len(idle[R])
                       /\ IsList(Reverse(kept)) /\ Len(Reverse(kept)) = n
  <2>1. IsList(idle[R]) /\ P \in SUBSET DOMAIN idle[R]
    BY <1>4 DEF Types
  <2>2. /\ IsList(Reverse(kept)) /\ Len(Reverse(kept)) = Len(kept)
        /\ Len(kept) \in 0 .. Len(idle[R])
    BY <2>1, ListReversedPart
  <2> HIDE DEF kept
  <2>3. Len(kept) \in Nat /\ Len(kept) <= Len(idle[R])
    BY <1>4, <2>2
  <2>4. QED
    BY <2>2, <2>3
<1> HIDE DEF kept, P
<1>6. PICK q : IsList(q) /\ Len(q) = n
        /\ \/ UNCHANGED <<idle, idleCount>>
           \/ idle' = [idle EXCEPT ![R] = q] /\ idleCount' = [idleCount EXCEPT ![R] = n]
  BY <1>2, <1>4, <1>5
<1>7. Types'
  <2>1. DOMAIN idle' = Flags /\ \A g \in Flags : IsList(idle'[g])
    <3>1. \A g \in Flags : idle'[g] = idle[g] \/ idle'[g] = q
      BY <1>6 DEF Types
    <3>2. DOMAIN idle' = Flags
      BY <1>6 DEF Types
    <3>3. QED
      BY <1>6, <3>1, <3>2 DEF Types
  <2>2. idleCount' \in [Flags -> Nat]
    BY <1>6 DEF Types
  <2>3. instance' \in [timestamp : Nat, rservers : SUBSET Servers]
    BY <1>2 DEF Types
  <2>4. isCut' \in BOOLEAN
    BY <1>2 DEF Types
  <2>5. QED
    BY <1>1, <1>3, <2>1, <2>2, <2>3, <2>4 DEF Types, Move
<1>8. \A g \in Flags : idleCount'[g] = Len(idle'[g])
  BY <1>5, <1>6 DEF CountsExact, Types
<1>9. CountsExact'
  BY <1>3, <1>8, MoveCounts DEF CountsExact
<1>10. AllWithinMax'
  <2>1. ASSUME NEW g \in Flags
        PROVE  /\ idleCount'[g] \in Int
               /\ busyCount'[g] + idleCount'[g] <= busyCount[g] + idleCount[g]
    <3>1. n <= idleCount[R]
      BY <1>4, <1>5
    <3>2. busyCount'[g] = busyCount[g] /\ busyCount[g] \in Nat /\ idleCount[g] \in Nat
      BY <1>1 DEF Types
    <3>3. idleCount'[g] = idleCount[g] \/ (g = R /\ idleCount'[g] = n)
      BY <1>4, <1>6 DEF Types
    <3>4. QED
      BY <3>1, <3>2, <3>3
  <2>2. pc[c] \notin BeingOpened /\ pc'[c] \notin BeingOpened
    BY <1>1 DEF Types, BeingOpened
  <2>3. QED
    BY <1>1, <1>3, <2>1, <2>2, MaxKept
<1>11. CutOnce'
  <2>1. CASE UNCHANGED <<instance, isCut>>
    BY <1>1, <2>1 DEF CutOnce
  <2>2. CASE isCut' = TRUE /\ UNCHANGED instance
    BY <1>1, <2>2 DEF CutOnce
  <2>3. CASE ~isCut /\ isCut' = TRUE /\ rest # {} /\ instance' = [instance EXCEPT !.rservers = rest]
    <3>1. instance'.rservers = rest /\ instance'.timestamp = instance.timestamp
      BY <2>3 DEF Types
    <3>2. instance.timestamp = latest.timestamp => latest.rservers \subseteq instance.rservers
      BY <2>3 DEF CutOnce
    <3>3. instance.timestamp = latest.timestamp => latest.rservers \ rest \subseteq {bad[c]}
      BY <3>2
    <3>4. QED
      BY <1>1, <2>3, <3>1, <3>3 DEF CutOnce
  <2>4. QED
    BY <1>2, <2>1, <2>2, <2>3
<1>12. QED
  BY <1>7, <1>9, <1>10, <1>11

-----------------------------------------------------------------------------
(* The steps of the manager, the administrators and the clock, which move  *)
(* no client.                                                              *)

LEMMA InvUpdated ==
  ASSUME PoolAssumption, IInv, updated
  PROVE  IInv'
<1>1. /\ instance' = latest /\ isCut' = FALSE
      /\ UNCHANGED <<idle, busyCount, idleCount, pc, wrflag, now, latest, overlapped>>
  BY DEF updated, clientVars
<1>2. Types' /\ CountsExact' /\ AllWithinMax'
  BY <1>1 DEF IInv, Types, CountsExact, AllWithinMax, Users, Opening
<1>3. CutOnce'
  BY <1>1 DEF IInv, CutOnce, Types
<1>4. QED
  BY <1>2, <1>3 DEF IInv

(* evict takes as many off the counter as off the list.                    *)
LEMMA InvUnchanged ==
  ASSUME PoolAssumption, IInv, unchanged
  PROVE  IInv'
<1> USE DEF IInv
<1>1. UNCHANGED <<instance, isCut, busyCount, pc, wrflag, now, latest, overlapped>>
  BY DEF unchanged, clientVars
<1>2. /\ DOMAIN idle' = Flags
      /\ idleCount' = [f \in Flags |-> idleCount[f] - OutdatedAtBack(f)]
  BY DEF unchanged, evict
<1>3. ASSUME NEW f \in Flags
      PROVE  /\ IsList(idle'[f]) /\ idleCount'[f] = Len(idle'[f])
             /\ idleCount'[f] \in Nat /\ idleCount'[f] <= idleCount[f]
  <2>1. Len(idle[f]) \in Nat /\ idleCount[f] = Len(idle[f])
    BY ListLen DEF Types, CountsExact
  <2>2. PICK n \in Nat : n = Len(idle[f]) - OutdatedAtBack(f) /\ n <= Len(idle[f])
    BY <2>1, BackFound
  <2>3. idle'[f] = [i \in 1 .. n |-> IF i = n THEN [idle[f][i] EXCEPT !.actionTime = now]
                                     ELSE idle[f][i]]
    BY <2>2 DEF unchanged, evict
  <2>4. DOMAIN idle'[f] = 1 .. n /\ idle'[f] = [i \in 1 .. n |-> idle'[f][i]]
    BY <2>3
  <2>5. IsList(idle'[f]) /\ Len(idle'[f]) = n
    BY <2>4, FunctionIsList
  <2>6. idleCount'[f] = n
    BY <1>2, <2>1, <2>2
  <2>7. QED
    BY <2>1, <2>2, <2>5, <2>6
<1>4. Types'
  BY <1>1, <1>2, <1>3 DEF Types
<1>5. CountsExact'
  BY <1>1, <1>3 DEF CountsExact, Users
<1>6. AllWithinMax'
  <2>1. SUFFICES ASSUME ~overlapped, NEW g \in Flags
                 PROVE  busyCount[g] + idleCount'[g] + Cardinality(Opening(g)) <= MaxBusy
    BY <1>1 DEF AllWithinMax, Opening
  <2>2. busyCount[g] + idleCount[g] + Cardinality(Opening(g)) <= MaxBusy
    BY <2>1 DEF AllWithinMax
  <2>3. Cardinality(Opening(g)) \in Nat
    <3>1. IsFiniteSet(Opening(g))
      BY FS_Subset DEF Opening, PoolAssumption
    <3>2. QED
      BY <3>1, FS_CardinalityType
  <2>4. QED
    BY <1>3, <2>2, <2>3 DEF Types, PoolAssumption
<1>7. CutOnce'
  BY <1>1 DEF CutOnce
<1>8. QED
  BY <1>4, <1>5, <1>6, <1>7

LEMMA InvReconfigure ==
  ASSUME PoolAssumption, IInv, NEW rservers \in SUBSET Servers, Reconfigure(rservers)
  PROVE  IInv'
<1>1. /\ rservers # {} /\ now > latest.timestamp
      /\ latest' = [timestamp |-> now, rservers |-> rservers]
      /\ UNCHANGED <<instance, isCut, idle, busyCount, idleCount, pc, wrflag, now, overlapped>>
  BY DEF Reconfigure, poolVars, clientVars
<1>2. Types' /\ CountsExact' /\ AllWithinMax'
  BY <1>1 DEF IInv, Types, CountsExact, AllWithinMax, Users, Opening
<1>3. instance.timestamp < latest'.timestamp
  BY <1>1 DEF IInv, Types, CutOnce
<1>4. CutOnce'
  BY <1>1, <1>3 DEF IInv, CutOnce, Types
<1>5. QED
  BY <1>2, <1>4 DEF IInv

LEMMA InvOther ==
  ASSUME IInv, Tick \/ UNCHANGED vars
  PROVE  IInv'
<1>1. /\ now' \in Nat
      /\ UNCHANGED <<instance, isCut, idle, busyCount, idleCount, pc, wrflag, latest, overlapped>>
  BY DEF Tick, vars, poolVars, clientVars, IInv, Types
<1>2. QED
  BY <1>1 DEF IInv, Types, CountsExact, AllWithinMax, CutOnce, Users, Opening

LEMMA InvStep == PoolAssumption /\ IInv /\ [Next]_vars => IInv'
<1> SUFFICES ASSUME PoolAssumption, IInv, [Next]_vars PROVE IInv'
  OBVIOUS
<1>1. ASSUME NEW c \in Clients, NEW f \in Asked, obtain(c, f) PROVE IInv'
  <2>1. f \in Flags
    BY DEF PoolAssumption, Flags, R, W
  <2>2. QED
    BY <1>1, <2>1, InvObtainIdle, InvObtainNew
<1>2. ASSUME NEW c \in Clients, NEW s, ConnectionEntry(c, s) PROVE IInv'
  BY <1>2, InvConnectionEntry
<1>3. ASSUME NEW c \in Clients, countOpened(c) \/ release(c) \/ delBadDb(c) PROVE IInv'
  BY <1>3, InvCountOpened, InvRelease, InvDelBadDb
<1>4. ASSUME NEW c \in Clients, NEW broken \in BOOLEAN, validate(c, broken) PROVE IInv'
  BY <1>4, InvValidate
<1>5. ASSUME updated \/ unchanged PROVE IInv'
  BY <1>5, InvUpdated, InvUnchanged
<1>6. ASSUME NEW rservers \in SUBSET Servers, Reconfigure(rservers) PROVE IInv'
  BY <1>6, InvReconfigure
<1>7. ASSUME Tick \/ UNCHANGED vars PROVE IInv'
  BY <1>7, InvOther
<1>8. QED
  BY <1>1, <1>2, <1>3, <1>4, <1>5, <1>6, <1>7 DEF Next

LEMMA InvAlways == PoolAssumption => (Spec => []IInv)
<1> SUFFICES ASSUME PoolAssumption PROVE Spec => []IInv
  OBVIOUS
<1>1. QED
  BY InvInit, InvStep, PTL DEF Spec

-----------------------------------------------------------------------------
(* obtain: unless two clients opened at once, the connections there are,   *)
(* idle, in use and being opened, never exceed _max, although a connection *)
(* is counted only after it was opened.                                    *)
THEOREM NeverBeyondMax == ASSUME PoolAssumption PROVE Spec => []AllWithinMax
<1>1. IInv => AllWithinMax
  BY DEF IInv
<1>2. QED
  BY <1>1, InvAlways, PTL

(* ConnectionPoolSingler: through every interleaving of obtain, release,   *)
(* delBadDb and evict the counters agree with the connections in use and   *)
(* the idle lists and stay within _max, and delBadDb takes out at most one *)
(* read server between two updates, never the last.                        *)
THEOREM PoolCounts == ASSUME PoolAssumption PROVE Spec => []ConnectionsCounted
<1>1. IInv => BusyWithinMax
  <2>1. SUFFICES ASSUME IInv, ~overlapped, NEW f \in Flags PROVE busyCount[f] <= MaxBusy
    BY DEF BusyWithinMax
  <2>2. busyCount[f] + idleCount[f] + Cardinality(Opening(f)) <= MaxBusy
    BY <2>1 DEF IInv, AllWithinMax
  <2>3. Cardinality(Opening(f)) \in Nat
    <3>1. IsFiniteSet(Opening(f))
      BY FS_Subset DEF Opening, PoolAssumption
    <3>2. QED
      BY <3>1, FS_CardinalityType
  <2>4. QED
    BY <2>1, <2>2, <2>3 DEF IInv, Types, PoolAssumption
<1>2. IInv => OneCutPerUpdate
  <2>1. SUFFICES ASSUME IInv, latest.timestamp = instance.timestamp
                 PROVE  Cardinality(latest.rservers \ instance.rservers) <= 1
    BY DEF OneCutPerUpdate, IInv, CutOnce
  <2>2. PICK D : D = latest.rservers \ instance.rservers
    OBVIOUS
  <2>3. \A s, t \in D : s = t
    BY <2>1, <2>2 DEF IInv, CutOnce
  <2>4. D = {} \/ \E s : D = {s}
    BY <2>3
  <2>5. Cardinality(D) = 0 \/ Cardinality(D) = 1
    BY <2>4, FS_EmptySet, FS_Singleton
  <2>6. QED
    BY <2>2, <2>5
<1>3. IInv => ConnectionsCounted
  BY <1>1, <1>2 DEF IInv, ConnectionsCounted
<1>4. QED
  BY <1>3, InvAlways, PTL
==============================================================================
