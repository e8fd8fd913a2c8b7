----------------------- MODULE ClusterControllerProofs -----------------------
(***************************************************************************)
(* Proofs about ClusterController and BackupSelection, for a cluster of    *)
(* any size, any servers, any intervals and any faults.                    *)
(*                                                                         *)
(* Part one: lemmas about Subsequences and ClusterDecision.  What a        *)
(* subsequence is made of, and that Decide turns any reports and any       *)
(* earlier decision that makes sense into a decision that makes sense.     *)
(*                                                                         *)
(* Part two: what the loops of FetchServerState decide, for any order of   *)
(* the reports and any earlier decision that makes sense.                  *)
(*                                                                         *)
(* Part three: every decision the controller holds or sends makes sense,   *)
(* whoever else calls FetchServerState; and when nobody else does, the     *)
(* outside knows the decision in force (ChangesAnnounced).  The inductive  *)
(* invariant adds to TypeOK and DecisionsWellFormed that nobody is         *)
(* subscribed twice, hence no server reports twice in a fetch, hence no    *)
(* mod has a server twice in a decision: that is what makes ClusterChanged,*)
(* which compares lengths and looks for the new servers among the old ones *)
(* only, see every difference.                                             *)
(***************************************************************************)
EXTENDS ClusterController, BackupSelection, FiniteSetTheorems, WellFoundedInduction, TLAPS

(***************************************************************************)
(* PART ONE.  Subsequences and decisions.                                  *)
(***************************************************************************)

-----------------------------------------------------------------------------
(* Ranks: the members of a finite set of numbers are ranked 0, 1, and so   *)
(* on, each rank once.                                                     *)

LEMMA RankBound ==
  ASSUME NEW S \in SUBSET Int, IsFiniteSet(S), NEW x \in S
  PROVE  Rank(S, x) \in 0 .. (Cardinality(S) - 1)
<1> DEFINE B == {y \in S : y < x}
<1>1. B \in SUBSET (S \ {x})
  OBVIOUS
<1>2. IsFiniteSet(S \ {x}) /\ Cardinality(S \ {x}) = Cardinality(S) - 1
  BY FS_RemoveElement
<1>3. IsFiniteSet(B) /\ Cardinality(B) <= Cardinality(S) - 1
  BY <1>1, <1>2, FS_Subset
<1>4. Cardinality(B) \in Nat /\ Cardinality(S) \in Nat
  BY <1>3, FS_CardinalityType
<1>5. QED
  BY <1>3, <1>4 DEF Rank

LEMMA RankGrows ==
  ASSUME NEW S \in SUBSET Int, IsFiniteSet(S), NEW x \in S, NEW z \in S, x < z
  PROVE  Rank(S, x) < Rank(S, z)
<1> DEFINE B == {y \in S : y < x}
           C == {y \in S : y < z}
<1>1. IsFiniteSet(B) /\ IsFiniteSet(C)
  BY FS_Subset
<1>2. \A y \in S : y < x => y < z
  <2> TAKE y \in S
  <2>1. x \in Int /\ y \in Int /\ z \in Int
    OBVIOUS
  <2>2. QED
    BY <2>1
<1>3. B \in SUBSET C /\ x \in C /\ x \notin B
  <2>1. x \in Int /\ ~(x < x)
    OBVIOUS
  <2>2. x \in C /\ x \notin B
    BY <2>1
  <2>3. \A y \in B : y \in C
    BY <1>2
  <2>4. QED
    BY <2>2, <2>3
<1>4. Cardinality(B) <= Cardinality(C) /\ Cardinality(B) # Cardinality(C)
  BY <1>1, <1>3, FS_Subset
<1>5. Cardinality(B) \in Nat /\ Cardinality(C) \in Nat
  BY <1>1, FS_CardinalityType
<1>6. QED
  BY <1>4, <1>5 DEF Rank

LEMMA RankOnce ==
  ASSUME NEW S \in SUBSET Int, IsFiniteSet(S), NEW x \in S, NEW z \in S,
         Rank(S, x) = Rank(S, z)
  PROVE  x = z
<1>1. Rank(S, x) \in Int /\ Rank(S, z) \in Int /\ x \in Int /\ z \in Int
  BY RankBound
<1>2. ASSUME x < z PROVE FALSE
  BY <1>1, <1>2, RankGrows
<1>3. ASSUME z < x PROVE FALSE
  BY <1>1, <1>3, RankGrows
<1>4. QED
  BY <1>1, <1>2, <1>3

(* Every rank is some member's: there are as many ranks as members.        *)
LEMMA NthRanked ==
  ASSUME NEW S \in SUBSET Int, IsFiniteSet(S), NEW k \in 0 .. (Cardinality(S) - 1)
  PROVE  Nth(S, k) \in S /\ Rank(S, Nth(S, k)) = k
<1> DEFINE n == Cardinality(S)
           T == 0 .. (n - 1)
           f == [x \in S |-> Rank(S, x)]
<1>1. n \in Nat
  BY FS_CardinalityType
<1>2. f \in Injection(S, T)
  <2>1. f \in [S -> T]
    BY RankBound
  <2>2. \A x, z \in S : f[x] = f[z] => x = z
    BY RankOnce
  <2>3. QED
    BY <2>1, <2>2 DEF Injection, IsInjective
<1>3. IsFiniteSet(T) /\ Cardinality(T) = n
  BY <1>1, FS_Interval
<1>4. f \in Surjection(S, T)
  BY <1>2, <1>3, FS_Injection
<1>5. \E x \in S : Rank(S, x) = k
  BY <1>4 DEF Surjection
<1>6. QED
  BY <1>5 DEF Nth

(* Nth and Rank are inverse.                                               *)
LEMMA NthOfRank ==
  ASSUME NEW S \in SUBSET Int, IsFiniteSet(S), NEW x \in S
  PROVE  Nth(S, Rank(S, x)) = x
<1>1. Rank(S, x) \in 0 .. (Cardinality(S) - 1)
  BY RankBound
<1>2. Nth(S, Rank(S, x)) \in S /\ Rank(S, Nth(S, Rank(S, x))) = Rank(S, x)
  BY <1>1, NthRanked
<1>3. \A z \in S : Rank(S, z) = Rank(S, x) => z = x
  BY RankOnce
<1>4. QED
  BY <1>2, <1>3

(***************************************************************************)
(* The members of U take those of F in order, each the one of its own      *)
(* rank.  When those before u have taken theirs, what is left of F are the *)
(* members of at least u's rank, and the first of these is the one for u.  *)
(***************************************************************************)
LEMMA LeftInOrder ==
  ASSUME NEW F \in SUBSET Int, IsFiniteSet(F), NEW U \in SUBSET Int, IsFiniteSet(U), NEW u \in U,
         NEW L, L = F \ {Nth(F, Rank(U, v)) : v \in {w \in U : w < u /\ Rank(U, w) < Cardinality(F)}}
  PROVE  /\ L # {} <=> Rank(U, u) < Cardinality(F)
         /\ \A s \in L : (\A t \in L : s <= t) => s = Nth(F, Rank(U, u))
<1> DEFINE G == {w \in U : w < u /\ Rank(U, w) < Cardinality(F)}
<1>1. PICK k \in Nat : k = Rank(U, u) /\ k < Cardinality(U)
  <2>1. Rank(U, u) \in 0 .. (Cardinality(U) - 1) /\ Cardinality(U) \in Nat
    BY RankBound, FS_CardinalityType
  <2>2. QED
    BY <2>1
<1>2. PICK n \in Nat : n = Cardinality(F)
  BY FS_CardinalityType
<1>3. ASSUME NEW w \in G
      PROVE  /\ Nth(F, Rank(U, w)) \in F
             /\ Rank(F, Nth(F, Rank(U, w))) < k
  <2>1. w \in U /\ w < u /\ Rank(U, w) < n
    BY <1>2
  <2>2. Rank(U, w) \in Nat /\ Rank(U, w) < k
    BY <1>1, <2>1, RankBound, RankGrows
  <2>3. Rank(U, w) \in 0 .. (Cardinality(F) - 1)
    BY <1>2, <2>1, <2>2
  <2>4. QED
    BY <2>2, <2>3, NthRanked
<1>4. ASSUME NEW x \in F, Rank(F, x) < k
      PROVE  \E w \in G : x = Nth(F, Rank(U, w))
  <2>1. PICK r \in Nat : r = Rank(F, x) /\ r < n /\ r < k
    BY <1>2, <1>4, RankBound
  <2>2. r \in 0 .. (Cardinality(U) - 1)
    BY <1>1, <2>1, FS_CardinalityType
  <2>3. PICK w \in U : Rank(U, w) = r
    BY <2>2, NthRanked
  <2>4. w < u
    <3>1. w \in Int /\ u \in Int
      OBVIOUS
    <3>2. w # u
      BY <1>1, <2>1, <2>3
    <3>3. ASSUME u < w PROVE FALSE
      <4>1. Rank(U, u) < Rank(U, w)
        BY <3>3, RankGrows
      <4>2. QED
        BY <1>1, <2>1, <2>3, <4>1
    <3>4. QED
      BY <3>1, <3>2, <3>3
  <2>5. w \in G
    BY <1>2, <2>1, <2>3, <2>4
  <2>6. Nth(F, Rank(U, w)) = x
    BY <2>1, <2>3, NthOfRank
  <2>7. QED
    BY <2>5, <2>6
<1> HIDE DEF G
<1>5. \A x : x \in L <=> x \in F /\ \A w \in G : x # Nth(F, Rank(U, w))
  BY DEF G
<1>6. \A x \in F : Rank(F, x) \in Nat /\ Rank(F, x) < n
  BY <1>2, RankBound
<1>7. \A x \in F : x \in L <=> Rank(F, x) >= k
  BY <1>1, <1>3, <1>4, <1>5, <1>6
<1>8. ASSUME k < n
      PROVE  Nth(F, k) \in L /\ Rank(F, Nth(F, k)) = k
  <2>1. k \in 0 .. (Cardinality(F) - 1)
    BY <1>1, <1>2, <1>8
  <2>2. Nth(F, k) \in F /\ Rank(F, Nth(F, k)) = k
    BY <2>1, NthRanked
  <2>3. Rank(F, Nth(F, k)) >= k
    BY <1>1, <2>2
  <2>4. QED
    BY <1>7, <2>2, <2>3
<1>9. L # {} <=> k < n
  <2>1. ASSUME NEW x \in L PROVE k < n
    <3>1. x \in F
      BY <1>5
    <3>2. Rank(F, x) \in Nat /\ Rank(F, x) < n /\ Rank(F, x) >= k
      BY <1>6, <1>7, <3>1
    <3>3. QED
      BY <1>1, <1>2, <3>2
  <2>2. QED
    BY <1>8, <2>1
<1>10. ASSUME NEW s \in L, \A t \in L : s <= t
       PROVE  s = Nth(F, k)
  <2>1. Nth(F, k) \in L /\ Rank(F, Nth(F, k)) = k
    BY <1>8, <1>9
  <2>2. /\ s \in F /\ s \in Int /\ Nth(F, k) \in F /\ Nth(F, k) \in Int
        /\ s <= Nth(F, k)
    BY <1>5, <1>10, <2>1
  <2>3. ASSUME s < Nth(F, k) PROVE FALSE
    <3>1. Rank(F, s) < k
      BY <2>1, <2>2, <2>3, RankGrows
    <3>2. Rank(F, s) >= k
      BY <1>7, <2>2
    <3>3. QED
      BY <1>1, <1>6, <2>2, <3>1, <3>2
  <2>4. QED
    BY <2>2, <2>3
<1>11. QED
  BY <1>1, <1>2, <1>9, <1>10

-----------------------------------------------------------------------------
(* Subsequences: a sequence over the same set, as long as there are        *)
(* places, with the elements at the places and no others, each once.       *)
LEMMA SubsequenceFacts ==
  ASSUME NEW T, NEW q \in Seq(T), NEW P \in SUBSET DOMAIN q
  PROVE  /\ IsFiniteSet(P) /\ Cardinality(P) \in Nat
         /\ Subsequence(q, P) \in Seq(T)
         /\ Len(Subsequence(q, P)) = Cardinality(P)
         /\ DOMAIN Subsequence(q, P) = 1 .. Cardinality(P)
         /\ \A k \in 1 .. Cardinality(P) : /\ Nth(P, k - 1) \in P
                                           /\ Rank(P, Nth(P, k - 1)) = k - 1
                                           /\ Subsequence(q, P)[k] = q[Nth(P, k - 1)]
         /\ \A i \in P : /\ Rank(P, i) + 1 \in 1 .. Cardinality(P)
                         /\ Subsequence(q, P)[Rank(P, i) + 1] = q[i]
<1> DEFINE n == Cardinality(P)
<1>1. DOMAIN q = 1 .. Len(q) /\ Len(q) \in Nat
  OBVIOUS
<1>2. P \in SUBSET Int /\ IsFiniteSet(P) /\ n \in Nat
  <2>1. IsFiniteSet(1 .. Len(q))
    BY <1>1, FS_Interval
  <2>2. P \in SUBSET (1 .. Len(q))
    BY <1>1
  <2>3. IsFiniteSet(P)
    BY <2>1, <2>2, FS_Subset
  <2>4. QED
    BY <2>2, <2>3, FS_CardinalityType
<1>3. \A k \in 1 .. n : Nth(P, k - 1) \in P /\ Rank(P, Nth(P, k - 1)) = k - 1
  <2> TAKE k \in 1 .. n
  <2>1. k - 1 \in 0 .. (n - 1)
    BY <1>2
  <2>2. QED
    BY <1>2, <2>1, NthRanked
<1>4. \A k \in 1 .. n : q[Nth(P, k - 1)] \in T
  BY <1>1, <1>3
<1>5. Subsequence(q, P) \in Seq(T) /\ Len(Subsequence(q, P)) = n
  BY <1>2, <1>4 DEF Subsequence
<1>6. \A i \in P : /\ Rank(P, i) + 1 \in 1 .. n
                   /\ Subsequence(q, P)[Rank(P, i) + 1] = q[i]
  <2> TAKE i \in P
  <2>1. Rank(P, i) \in 0 .. (n - 1)
    BY <1>2, RankBound
  <2>2. Nth(P, Rank(P, i)) = i
    BY <1>2, NthOfRank
  <2>3. Rank(P, i) + 1 \in 1 .. n /\ (Rank(P, i) + 1) - 1 = Rank(P, i)
    BY <1>2, <2>1
  <2>4. QED
    BY <2>2, <2>3 DEF Subsequence
<1>7. QED
  BY <1>2, <1>3, <1>5, <1>6 DEF Subsequence

(* A subsequence repeats nothing that the sequence does not repeat.        *)
LEMMA SubsequenceDistinct ==
  ASSUME NEW T, NEW q \in Seq(T), NEW P \in SUBSET DOMAIN q,
         \A i, j \in P : q[i] = q[j] => i = j,
         NEW k \in DOMAIN Subsequence(q, P), NEW l \in DOMAIN Subsequence(q, P),
         Subsequence(q, P)[k] = Subsequence(q, P)[l]
  PROVE  k = l
<1>1. k \in 1 .. Cardinality(P) /\ l \in 1 .. Cardinality(P) /\ Cardinality(P) \in Nat
  BY SubsequenceFacts
<1>2. /\ Nth(P, k - 1) \in P /\ Rank(P, Nth(P, k - 1)) = k - 1
      /\ Nth(P, l - 1) \in P /\ Rank(P, Nth(P, l - 1)) = l - 1
      /\ q[Nth(P, k - 1)] = q[Nth(P, l - 1)]
  BY <1>1, SubsequenceFacts
<1>3. Nth(P, k - 1) = Nth(P, l - 1)
  BY <1>2
<1>4. k - 1 = l - 1
  BY <1>2, <1>3
<1>5. QED
  BY <1>1, <1>4

(* A later place adds its element at the end.                              *)
LEMMA SubsequenceAppend ==
  ASSUME NEW T, NEW q \in Seq(T), NEW P \in SUBSET DOMAIN q, NEW j \in DOMAIN q,
         \A i \in P : i < j
  PROVE  Subsequence(q, P \cup {j}) = Append(Subsequence(q, P), q[j])
<1>1. DOMAIN q \in SUBSET Int /\ j \notin P /\ P \cup {j} \in SUBSET DOMAIN q
  OBVIOUS
<1>2. PICK n \in Nat : n = Cardinality(P) /\ IsFiniteSet(P)
  BY SubsequenceFacts
<1>3. PICK Q : Q = P \cup {j}
  OBVIOUS
<1>4. Q \in SUBSET DOMAIN q /\ Q \in SUBSET Int /\ IsFiniteSet(Q) /\ Cardinality(Q) = n + 1
  BY <1>1, <1>2, <1>3, FS_AddElement
<1>5. ASSUME NEW i \in P
      PROVE  Rank(Q, i) = Rank(P, i)
  <2>1. i \in Int /\ j \in Int /\ i < j
    BY <1>1
  <2>2. {y \in Q : y < i} = {y \in P : y < i}
    BY <1>3, <2>1
  <2>3. QED
    BY <2>2 DEF Rank
<1>6. Rank(Q, j) = n
  <2>1. {y \in Q : y < j} = P
    BY <1>1, <1>3
  <2>2. QED
    BY <1>2, <2>1 DEF Rank
<1>7. PICK s \in Seq(T) : s = Subsequence(q, P) /\ DOMAIN s = 1 .. n /\ Len(s) = n
  BY <1>2, SubsequenceFacts
<1>8. PICK t \in Seq(T) : t = Subsequence(q, Q) /\ DOMAIN t = 1 .. (n + 1) /\ Len(t) = n + 1
  BY <1>4, SubsequenceFacts
<1>9. ASSUME NEW k \in 1 .. n
      PROVE  t[k] = s[k]
  <2>1. PICK i \in P : s[k] = q[i] /\ Rank(P, i) = k - 1
    BY <1>2, <1>7, SubsequenceFacts
  <2>2. i \in Q /\ Rank(Q, i) = k - 1
    BY <1>3, <1>5, <2>1
  <2>3. t[Rank(Q, i) + 1] = q[i]
    BY <1>4, <1>8, <2>2, SubsequenceFacts
  <2>4. QED
    BY <2>1, <2>2, <2>3
<1>10. t[n + 1] = q[j]
  <2>1. j \in Q
    BY <1>3
  <2>2. t[Rank(Q, j) + 1] = q[j]
    BY <1>4, <1>8, <2>1, SubsequenceFacts
  <2>3. QED
    BY <1>6, <2>2
<1>11. t = Append(s, q[j])
  BY <1>7, <1>8, <1>9, <1>10
<1>12. QED
  BY <1>3, <1>7, <1>8, <1>11

-----------------------------------------------------------------------------
(* The parts of Decide.                                                    *)

(* The report of a server that has reported is that server's.              *)
LEMMA ReportOfServer ==
  ASSUME NEW received \in Seq(Report), NEW s \in Received(received)
  PROVE  ReportOf(received, s) \in Report /\ ReportOf(received, s).prx = s
<1>1. \E i \in DOMAIN received : received[i].prx = s
  BY DEF Received
<1>2. PICK i \in DOMAIN received : received[i].prx = s /\ ReportOf(received, s) = received[i]
  BY <1>1 DEF ReportOf
<1>3. received[i] \in Report
  OBVIOUS
<1>4. QED
  BY <1>2, <1>3

LEMMA ReceivedServers ==
  ASSUME NEW received \in Seq(Report)
  PROVE  /\ Received(received) \subseteq Servers
         /\ \A i \in DOMAIN received : received[i] \in Report /\ received[i].prx \in Servers
<1>1. \A i \in DOMAIN received : received[i] \in Report
  OBVIOUS
<1>2. QED
  BY <1>1 DEF Received, Report

(* The sets that are ranked are finite sets of numbers.                    *)
LEMMA FreeAndUnserved ==
  ASSUME NEW received \in Seq(Report), NEW old
  PROVE  /\ Free(received, old) \in SUBSET Int /\ IsFiniteSet(Free(received, old))
         /\ Unserved(received, old) \in SUBSET Int /\ IsFiniteSet(Unserved(received, old))
<1>1. Free(received, old) \in SUBSET Servers
  BY ReceivedServers DEF Free, Backups
<1>2. IsFiniteSet(Free(received, old))
  BY <1>1, FS_Subset, ClusterAssumption
<1>3. Unserved(received, old) \in SUBSET Mods
  BY DEF Unserved
<1>4. IsFiniteSet(Mods)
  BY FS_Interval, ClusterAssumption DEF Mods
<1>5. IsFiniteSet(Unserved(received, old))
  BY <1>3, <1>4, FS_Subset
<1>6. Servers \in SUBSET Int /\ Mods \in SUBSET Int
  BY ClusterAssumption DEF Mods
<1>7. QED
  BY <1>1, <1>2, <1>3, <1>5, <1>6

(* A mod without servers of its own that is served has a backup that has   *)
(* reported.                                                               *)
LEMMA BackupReported ==
  ASSUME NEW received \in Seq(Report), NEW old,
         NEW m \in Kept(received, old) \cup Taken(received, old)
  PROVE  /\ Backup(received, old, m) \in Backups(received)
         /\ m \notin Kept(received, old) =>
              /\ Backup(received, old, m) \in Free(received, old)
              /\ Rank(Free(received, old), Backup(received, old, m))
                   = Rank(Unserved(received, old), m)
<1>1. CASE m \in Kept(received, old)
  BY <1>1 DEF Kept, Backup
<1>2. CASE m \notin Kept(received, old)
  <2> DEFINE free == Free(received, old)
             unserved == Unserved(received, old)
             k == Rank(unserved, m)
  <2>1. m \in unserved /\ k < Cardinality(free)
    BY <1>2 DEF Taken
  <2>2. k \in Nat
    BY <2>1, RankBound, FreeAndUnserved, FS_CardinalityType
  <2>3. Cardinality(free) \in Nat
    BY FreeAndUnserved, FS_CardinalityType
  <2>4. k \in 0 .. (Cardinality(free) - 1)
    BY <2>1, <2>2, <2>3
  <2>5. Nth(free, k) \in free /\ Rank(free, Nth(free, k)) = k
    BY <2>4, FreeAndUnserved, NthRanked
  <2>6. QED
    BY <1>2, <2>5 DEF Backup, Free
<1>3. QED
  BY <1>1, <1>2

(* No backup serves two mods.                                              *)
LEMMA BackupOnce ==
  ASSUME NEW received \in Seq(Report), NEW old, WellFormed(old),
         NEW m \in Kept(received, old) \cup Taken(received, old),
         NEW n \in Kept(received, old) \cup Taken(received, old),
         Backup(received, old, m) = Backup(received, old, n)
  PROVE  m = n
<1> DEFINE kept == Kept(received, old)
           free == Free(received, old)
<1>1. ASSUME NEW x \in kept
      PROVE  Backup(received, old, x) = old[x][1].prx /\ Backup(received, old, x) \notin free
  BY <1>1 DEF Backup, Free
<1>2. ASSUME NEW x \in kept \cup Taken(received, old), x \notin kept
      PROVE  /\ Backup(received, old, x) \in free
             /\ Rank(free, Backup(received, old, x)) = Rank(Unserved(received, old), x)
             /\ x \in Unserved(received, old)
  BY <1>2, BackupReported DEF Taken
<1>3. CASE m \in kept /\ n \in kept
  <2>1. /\ m \in DOMAIN old /\ n \in DOMAIN old
        /\ IsBackup(old[m][1].prx) /\ old[m][1].prx = old[n][1].prx
    BY <1>1, <1>3 DEF Kept, Backups
  <2>2. QED
    BY <2>1 DEF WellFormed
<1>4. CASE m \in kept <=> n \notin kept
  BY <1>1, <1>2, <1>4
<1>5. CASE m \notin kept /\ n \notin kept
  <2>1. Rank(Unserved(received, old), m) = Rank(Unserved(received, old), n)
    BY <1>2, <1>5
  <2>2. QED
    BY <1>2, <1>5, <2>1, RankOnce, FreeAndUnserved
<1>6. QED
  BY <1>3, <1>4, <1>5

(* The reports of a mod's own servers, each as often as it was received.   *)
LEMMA OwnReportsFacts ==
  ASSUME NEW received \in Seq(Report), NEW m \in Own(received)
  PROVE  /\ OwnReports(received, m) \in Seq(Report) /\ OwnReports(received, m) # <<>>
         /\ ServesItself(OwnReports(received, m), m)
         /\ OneEach(received) => OneEach(OwnReports(received, m))
<1> DEFINE P == {i \in DOMAIN received : Mod[received[i].prx] = m}
           q == OwnReports(received, m)
<1>1. P \in SUBSET DOMAIN received /\ q = Subsequence(received, P)
  BY DEF OwnReports
<1>2. P # {}
  BY DEF Own, Received
<1> HIDE DEF P, q
<1>3. /\ IsFiniteSet(P) /\ Cardinality(P) \in Nat
      /\ q \in Seq(Report) /\ Len(q) = Cardinality(P)
      /\ DOMAIN q = 1 .. Cardinality(P)
      /\ \A k \in 1 .. Cardinality(P) : /\ Nth(P, k - 1) \in P
                                        /\ Rank(P, Nth(P, k - 1)) = k - 1
                                        /\ q[k] = received[Nth(P, k - 1)]
  BY <1>1, SubsequenceFacts
<1>4. q # <<>>
  <2>1. Cardinality(P) # 0
    BY <1>2, <1>3, FS_EmptySet
  <2>2. QED
    BY <1>3, <2>1
<1>5. ServesItself(q, m)
  BY <1>3 DEF ServesItself, P
<1>6. ASSUME OneEach(received) PROVE OneEach(q)
  <2> SUFFICES ASSUME NEW k \in DOMAIN q, NEW l \in DOMAIN q, q[k].prx = q[l].prx
               PROVE  k = l
    BY DEF OneEach
  <2>1. /\ Nth(P, k - 1) \in DOMAIN received /\ q[k] = received[Nth(P, k - 1)]
        /\ Nth(P, l - 1) \in DOMAIN received /\ q[l] = received[Nth(P, l - 1)]
    BY <1>1, <1>3
  <2>2. Nth(P, k - 1) = Nth(P, l - 1)
    BY <1>6, <2>1 DEF OneEach
  <2>3. k - 1 = l - 1
    BY <1>3, <2>2
  <2>4. QED
    BY <1>3, <2>3
<1>7. QED
  BY <1>3, <1>4, <1>5, <1>6 DEF q

(* What Decide gives to each mod.                                          *)
LEMMA DecideValues ==
  ASSUME NEW received, NEW old
  PROVE  /\ DOMAIN Decide(received, old)
              = Own(received) \cup Kept(received, old) \cup Taken(received, old)
         /\ \A m \in Own(received) : Decide(received, old)[m] = OwnReports(received, m)
         /\ \A m \in DOMAIN Decide(received, old) \ Own(received) :
              Decide(received, old)[m] = <<ReportOf(received, Backup(received, old, m))>>
BY DEF Decide

(* A mod with a backup: one report, of that backup.                        *)
LEMMA BackupReports ==
  ASSUME NEW received \in Seq(Report), NEW old,
         NEW m \in DOMAIN Decide(received, old) \ Own(received)
  PROVE  /\ m \in Kept(received, old) \cup Taken(received, old)
         /\ Decide(received, old)[m] \in Seq(Report) /\ Len(Decide(received, old)[m]) = 1
         /\ Decide(received, old)[m][1].prx = Backup(received, old, m)
         /\ IsBackup(Decide(received, old)[m][1].prx)
<1>1. m \in Kept(received, old) \cup Taken(received, old)
  BY DecideValues
<1>2. Backup(received, old, m) \in Backups(received)
  BY <1>1, BackupReported
<1>3. PICK r \in Report : r = ReportOf(received, Backup(received, old, m))
                          /\ r.prx = Backup(received, old, m)
  BY <1>2, ReportOfServer DEF Backups
<1>4. Decide(received, old)[m] = <<r>>
  BY <1>3, DecideValues
<1>5. QED
  BY <1>1, <1>2, <1>3, <1>4 DEF Backups

-----------------------------------------------------------------------------
(* A decision is a map from mods to reports.                               *)
LEMMA DecideTyped ==
  ASSUME NEW received \in Seq(Report), NEW old
  PROVE  IsServerStateMap(Decide(received, old))
<1>1. DOMAIN Decide(received, old) \subseteq Mods
  <2>1. Own(received) \subseteq Mods
    BY DEF Own
  <2>2. Kept(received, old) \subseteq Mods
    BY DEF Kept
  <2>3. Taken(received, old) \subseteq Mods
    BY DEF Taken, Unserved
  <2>4. QED
    BY <2>1, <2>2, <2>3, DecideValues
<1>2. \A m \in DOMAIN Decide(received, old) : Decide(received, old)[m] \in Seq(Report)
  <2> TAKE m \in DOMAIN Decide(received, old)
  <2>1. CASE m \in Own(received)
    BY <2>1, DecideValues, OwnReportsFacts
  <2>2. CASE m \notin Own(received)
    BY <2>2, BackupReports
  <2>3. QED
    BY <2>1, <2>2
<1>3. QED
  BY <1>1, <1>2 DEF IsServerStateMap, Decide

(* A sequence of one element is not empty.                                 *)
LEMMA OneIsSome ==
  ASSUME NEW S, NEW q \in Seq(S), Len(q) = 1
  PROVE  q # <<>>
OBVIOUS

(* Round one and two hand out backups so that the decision makes sense if  *)
(* the one before did.                                                     *)
LEMMA DecideWellFormed ==
  ASSUME NEW received \in Seq(Report), NEW old, WellFormed(old)
  PROVE  WellFormed(Decide(received, old))
<1> DEFINE d == Decide(received, old)
           own == Own(received)
<1>1. ASSUME NEW m \in own
      PROVE  d[m] \in Seq(Report) /\ d[m] # <<>> /\ ServesItself(d[m], m) /\ ~IsBackup(d[m][1].prx)
  <2>1. d[m] = OwnReports(received, m)
    BY <1>1, DecideValues
  <2>2. d[m] \in Seq(Report) /\ d[m] # <<>> /\ ServesItself(d[m], m)
    BY <1>1, <2>1, OwnReportsFacts
  <2>3. 1 \in DOMAIN d[m] /\ d[m][1] \in Report
    BY <2>2
  <2>4. Mod[d[m][1].prx] = m /\ m \in Mods
    BY <1>1, <2>2, <2>3 DEF ServesItself, Own
  <2>5. QED
    BY <2>2, <2>4, ClusterAssumption DEF IsBackup, Mods
<1>2. ASSUME NEW m \in DOMAIN d, m \notin own
      PROVE  d[m] # <<>> /\ ServedByBackup(d[m])
  <2>1. d[m] \in Seq(Report) /\ Len(d[m]) = 1 /\ IsBackup(d[m][1].prx)
    BY <1>2, BackupReports
  <2>2. d[m] # <<>>
    BY <2>1, OneIsSome
  <2>3. QED
    BY <2>1, <2>2 DEF ServedByBackup
<1>3. ASSUME NEW m \in DOMAIN d, NEW n \in DOMAIN d,
             IsBackup(d[m][1].prx), d[m][1].prx = d[n][1].prx
      PROVE  m = n
  <2>1. m \notin own /\ n \notin own
    BY <1>1, <1>3
  <2>2. /\ m \in Kept(received, old) \cup Taken(received, old)
        /\ n \in Kept(received, old) \cup Taken(received, old)
        /\ Backup(received, old, m) = Backup(received, old, n)
    BY <1>3, <2>1, BackupReports
  <2>3. QED
    BY <2>2, BackupOnce
<1>4. QED
  BY <1>1, <1>2, <1>3 DEF WellFormed

(* No mod of a decision has a server twice, if no server reports twice.    *)
LEMMA DecideOneEach ==
  ASSUME NEW received \in Seq(Report), OneEach(received), NEW old,
         NEW m \in DOMAIN Decide(received, old)
  PROVE  OneEach(Decide(received, old)[m])
<1>1. CASE m \in Own(received)
  BY <1>1, DecideValues, OwnReportsFacts
<1>2. CASE m \notin Own(received)
  <2>1. Decide(received, old)[m] \in Seq(Report) /\ Len(Decide(received, old)[m]) = 1
    BY <1>2, BackupReports
  <2>2. DOMAIN Decide(received, old)[m] = {1}
    BY <2>1
  <2>3. QED
    BY <2>2 DEF OneEach
<1>3. QED
  BY <1>1, <1>2

(***************************************************************************)
(* PART TWO.  The loops of FetchServerState.                               *)
(***************************************************************************)

(***************************************************************************)
(* The inductive invariant.  What has been decided so far makes sense; the *)
(* backups that serve are exactly the ones recorded as used; in round one  *)
(* they serve what they served before; and a mod that round two has passed *)
(* is served, or no backup was left for it.                                *)
(***************************************************************************)
Bookkeeping ==
  /\ \A s \in DOMAIN mapBk : IsBackup(s)
  /\ setBkUsed \subseteq DOMAIN mapBk
  /\ \A m \in DOMAIN decided :
       IsBackup(decided[m][1].prx) => decided[m][1].prx \in setBkUsed
  /\ \A s \in setBkUsed : \E m \in DOMAIN decided : decided[m][1].prx = s

Grouped ==
  /\ \A j \in 1 .. (it - 1) : IsBackup(reports[j].prx) => reports[j].prx \in DOMAIN mapBk
  /\ loop = "group" => setBkUsed = {} /\ mod = 0
  /\ loop # "group" => it = Len(reports) + 1

RoundOne ==
  loop = "first" =>
    \A m \in DOMAIN decided : IsBackup(decided[m][1].prx) =>
      m \in DOMAIN earlier /\ decided[m][1].prx = earlier[m][1].prx

RoundTwo ==
  /\ loop \in {"second", "done"} =>
       \A m \in 0 .. (mod - 1) : m \in DOMAIN decided \/ DOMAIN mapBk \subseteq setBkUsed
  /\ loop = "done" => mod = Cluster

SelectionInv ==
  /\ SelectionTypeOK /\ WellFormed(earlier) /\ WellFormed(decided)
  /\ Bookkeeping /\ Grouped /\ RoundOne /\ RoundTwo

-----------------------------------------------------------------------------

(* What insert does to a map that has no such key.                         *)
LEMMA InsertFacts ==
  ASSUME NEW f, NEW k, NEW v
  PROVE  /\ DOMAIN Insert(f, k, v) = DOMAIN f \cup {k}
         /\ Insert(f, k, v)[k] = v
         /\ \A x \in DOMAIN f : x # k => Insert(f, k, v)[x] = f[x]
BY DEF Insert

(* An insertion keeps a map a ServerStateMap.                              *)
LEMMA InsertTyped ==
  ASSUME NEW f, IsServerStateMap(f), NEW k \in Mods, NEW v \in Seq(Report)
  PROVE  IsServerStateMap(Insert(f, k, v))
<1>1. \A x \in DOMAIN f \cup {k} : Insert(f, k, v)[x] \in Seq(Report)
  BY DEF Insert, IsServerStateMap
<1> QED
  BY <1>1 DEF Insert, IsServerStateMap

(* Nonempty sets of naturals have a first member, so that FirstUnused is   *)
(* one of the unused backups.                                              *)
LEMMA FirstOfNaturals ==
  ASSUME NEW S, S \subseteq Nat, S # {}
  PROVE  \E s \in S : \A t \in S : s <= t
<1>1. PICK s \in S : \A t \in S : ~(<<t, s>> \in OpToRel(<, Nat))
  BY NatLessThanWellFounded, WFMin
<1>2. \A t \in S : ~(t < s)
  BY <1>1 DEF OpToRel
<1> QED
  BY <1>2

(* Walking mapBk to its first unused entry finds one, if there is one.     *)
LEMMA FirstUnusedIsUnused ==
  ASSUME Unused # {}, DOMAIN mapBk \subseteq Servers
  PROVE  FirstUnused \in Unused
<1>1. Unused \subseteq Nat
  BY ClusterAssumption DEF Unused
<1> QED
  BY <1>1, FirstOfNaturals DEF FirstUnused

(* The comparison of sizes in round two asks whether a backup is unused.   *)
LEMMA SizesTell ==
  ASSUME DOMAIN mapBk \subseteq Servers, setBkUsed \subseteq DOMAIN mapBk
  PROVE  Cardinality(setBkUsed) < Cardinality(DOMAIN mapBk) <=> Unused # {}
<1>1. IsFiniteSet(DOMAIN mapBk)
  BY FS_Subset, ClusterAssumption
<1>2. IsFiniteSet(setBkUsed)
  BY <1>1, FS_Subset
<1>3. Cardinality(DOMAIN mapBk) \in Nat /\ Cardinality(setBkUsed) \in Nat
  BY <1>1, <1>2, FS_CardinalityType
<1>4. /\ Cardinality(setBkUsed) <= Cardinality(DOMAIN mapBk)
      /\ Cardinality(DOMAIN mapBk) = Cardinality(setBkUsed) => DOMAIN mapBk = setBkUsed
  BY <1>1, FS_Subset
<1> QED
  BY <1>3, <1>4 DEF Unused

-----------------------------------------------------------------------------

(* FetchServerState starts its loops with nothing decided.                 *)
LEMMA SelectionInvInit == SelectionInit => SelectionInv
<1> SUFFICES ASSUME SelectionInit PROVE SelectionInv
  OBVIOUS
<1>1. reports \in Seq(Report) /\ OneEach(reports)
  BY DEF SelectionInit, Receipts
<1>2. Len(reports) \in Nat
  BY <1>1
<1>3. IsServerStateMap(earlier) /\ WellFormed(earlier)
  <2>1. PICK D \in SUBSET Mods : earlier \in [D -> UNION {Groups(m) : m \in D}]
    BY DEF SelectionInit, EarlierDecisions
  <2>2. \A m \in D : Groups(m) \subseteq Seq(Report)
    BY DEF Groups, Receipts
  <2>3. earlier \in [D -> Seq(Report)]
    BY <2>1, <2>2
  <2> QED
    BY <2>3 DEF SelectionInit, EarlierDecisions, IsServerStateMap
<1>4. DOMAIN decided = {} /\ DOMAIN mapBk = {} /\ IsServerStateMap(decided)
  BY DEF SelectionInit, IsServerStateMap
<1>5. SelectionTypeOK
  BY <1>1, <1>2, <1>3, <1>4, ClusterAssumption DEF SelectionInit, SelectionTypeOK
<1>6. WellFormed(decided) /\ Bookkeeping /\ RoundOne
  BY <1>4 DEF SelectionInit, WellFormed, Bookkeeping, RoundOne
<1>7. Grouped /\ RoundTwo
  BY DEF SelectionInit, Grouped, RoundTwo
<1> QED
  BY <1>3, <1>5, <1>6, <1>7 DEF SelectionInv

(* Before round one the servers of every mod in decided are its own.       *)
LEMMA OnlyOwnServers ==
  ASSUME SelectionInv, loop = "group"
  PROVE  \A m \in DOMAIN decided : ServesItself(decided[m], m) /\ ~IsBackup(decided[m][1].prx)
BY DEF SelectionInv, Bookkeeping, Grouped, WellFormed, ServedByBackup

(* Grouping a report keeps what has been decided the mods' own servers.    *)
LEMMA GroupStep == SelectionInv /\ Group => SelectionInv'
<1> SUFFICES ASSUME SelectionInv, Group PROVE SelectionInv'
  OBVIOUS
<1> DEFINE r == reports[it]
<1> DEFINE m0 == Mod[r.prx]
<1>0. /\ reports' = reports /\ earlier' = earlier /\ loop' = loop /\ mod' = mod
      /\ setBkUsed' = setBkUsed /\ fatal' = fatal /\ it' = it + 1
      /\ loop = "group" /\ setBkUsed = {} /\ mod = 0
  BY DEF Group, SelectionInv, Grouped
<1>1. /\ reports \in Seq(Report) /\ it \in 1 .. Len(reports) /\ r \in Report
      /\ r.prx \in Servers /\ m0 \in Int
  <2>1. reports \in Seq(Report) /\ it \in 1 .. (Len(reports) + 1) /\ it <= Len(reports)
    BY DEF Group, SelectionInv, SelectionTypeOK
  <2>2. it \in 1 .. Len(reports) /\ r \in Report
    BY <2>1
  <2>3. r.prx \in Servers
    BY <2>2 DEF Report
  <2> QED
    BY <2>1, <2>2, <2>3, ClusterAssumption
<1>2. OneEach(reports)' /\ it' \in 1 .. (Len(reports) + 1)
  BY <1>0, <1>1 DEF SelectionInv, SelectionTypeOK, OneEach
<1>3. CASE IsBackup(r.prx)
  <2>0. decided' = decided /\ mapBk' = IF r.prx \in DOMAIN mapBk THEN mapBk ELSE Insert(mapBk, r.prx, r)
    BY <1>3 DEF Group
  <2> HIDE DEF r, m0
  <2>1. /\ DOMAIN mapBk' = DOMAIN mapBk \cup {r.prx}
        /\ \A s \in DOMAIN mapBk' : mapBk'[s] \in Report /\ mapBk'[s].prx = s
    <3>1. CASE r.prx \in DOMAIN mapBk
      BY <2>0, <3>1 DEF SelectionInv, SelectionTypeOK
    <3>2. CASE r.prx \notin DOMAIN mapBk
      <4>1. mapBk' = Insert(mapBk, r.prx, r)
        BY <2>0, <3>2
      <4>2. /\ DOMAIN mapBk' = DOMAIN mapBk \cup {r.prx}
            /\ mapBk'[r.prx] = r
            /\ \A s \in DOMAIN mapBk : s # r.prx => mapBk'[s] = mapBk[s]
        BY <4>1, SMT DEF Insert
      <4> QED
        BY <1>1, <4>2 DEF SelectionInv, SelectionTypeOK
    <3> QED
      BY <3>1, <3>2
  <2>2. SelectionTypeOK'
    BY <1>0, <1>1, <1>2, <2>0, <2>1 DEF SelectionInv, SelectionTypeOK, OneEach, IsServerStateMap
  <2>3. WellFormed(earlier)' /\ WellFormed(decided)'
    BY <1>0, <2>0 DEF SelectionInv, WellFormed
  <2>4. Bookkeeping'
    BY <1>0, <1>3, <2>0, <2>1 DEF SelectionInv, Bookkeeping
  <2>5. Grouped'
    <3>1. \A j \in 1 .. (it' - 1) : j \in 1 .. (it - 1) \/ j = it
      BY <1>0, <1>1
    <3>2. r = reports[it]
      BY DEF r
    <3> QED
      BY <1>0, <2>1, <3>1, <3>2 DEF SelectionInv, Grouped
  <2>6. RoundOne' /\ RoundTwo'
    BY <1>0 DEF SelectionInv, RoundOne, RoundTwo
  <2> QED
    BY <2>2, <2>3, <2>4, <2>5, <2>6 DEF SelectionInv
<1>4. CASE ~IsBackup(r.prx)
  <2>0. /\ mapBk' = mapBk
        /\ decided' = IF m0 \in DOMAIN decided THEN [decided EXCEPT ![m0] = Append(@, r)]
                                             ELSE Insert(decided, m0, <<r>>)
    BY <1>4 DEF Group
  <2>1. m0 \in Mods
    BY <1>1, <1>4, ClusterAssumption DEF IsBackup, Mods
  <2>a. m0 = Mod[r.prx]
    OBVIOUS
  <2> HIDE DEF r, m0
  <2>2. /\ DOMAIN decided' = DOMAIN decided \cup {m0}
        /\ \A m \in DOMAIN decided : m # m0 => decided'[m] = decided[m]
        /\ IsServerStateMap(decided)'
    <3>1. CASE m0 \in DOMAIN decided
      <4>1. decided' = [decided EXCEPT ![m0] = Append(@, r)]
        BY <2>0, <3>1
      <4>2. Append(decided[m0], r) \in Seq(Report)
        BY <1>1, <3>1 DEF SelectionInv, SelectionTypeOK, IsServerStateMap
      <4> QED
        BY <3>1, <4>1, <4>2 DEF SelectionInv, SelectionTypeOK, IsServerStateMap
    <3>2. CASE m0 \notin DOMAIN decided
      <4>1. <<r>> \in Seq(Report)
        BY <1>1
      <4>2. IsServerStateMap(Insert(decided, m0, <<r>>))
        BY <2>1, <4>1, InsertTyped DEF SelectionInv, SelectionTypeOK
      <4> QED
        <5>1. decided' = Insert(decided, m0, <<r>>)
          BY <2>0, <3>2
        <5>2. /\ DOMAIN decided' = DOMAIN decided \cup {m0}
              /\ \A m \in DOMAIN decided : m # m0 => decided'[m] = decided[m]
          BY <5>1 DEF Insert
        <5> QED
          BY <4>2, <5>1, <5>2 DEF IsServerStateMap
    <3> QED
      BY <3>1, <3>2
  <2>3. /\ decided'[m0] # <<>> /\ ServesItself(decided'[m0], m0)
        /\ ~IsBackup(decided'[m0][1].prx)
    <3>1. CASE m0 \in DOMAIN decided
      <4>1. decided[m0] \in Seq(Report) /\ decided[m0] # <<>>
        BY <3>1 DEF SelectionInv, SelectionTypeOK, IsServerStateMap, WellFormed
      <4>2. decided'[m0] = Append(decided[m0], r)
        BY <2>0, <3>1 DEF SelectionInv, SelectionTypeOK, IsServerStateMap
      <4>3. /\ decided'[m0] # <<>> /\ decided'[m0][1] = decided[m0][1]
            /\ \A k \in DOMAIN decided'[m0] :
                 (k \in DOMAIN decided[m0] /\ decided'[m0][k] = decided[m0][k]) \/ decided'[m0][k] = r
        <5> DEFINE q == decided[m0]
        <5>1. q \in Seq(Report) /\ q # <<>> /\ r \in Report
          BY <1>1, <4>1
        <5> HIDE DEF q
        <5>2. /\ Append(q, r) # <<>> /\ Append(q, r)[1] = q[1]
              /\ \A k \in DOMAIN Append(q, r) :
                   (k \in DOMAIN q /\ Append(q, r)[k] = q[k]) \/ Append(q, r)[k] = r
          BY <5>1
        <5> QED
          BY <4>2, <5>2 DEF q
      <4> QED
        BY <1>0, <2>a, <3>1, <4>3, OnlyOwnServers DEF ServesItself
    <3>2. CASE m0 \notin DOMAIN decided
      <4>1. decided'[m0] = <<r>>
        <5>1. decided' = Insert(decided, m0, <<r>>)
          BY <2>0, <3>2
        <5> QED
          BY <5>1 DEF Insert
      <4> QED
        BY <1>4, <2>a, <4>1 DEF ServesItself
    <3> QED
      BY <3>1, <3>2
  <2>4. \A m \in DOMAIN decided' :
          decided'[m] # <<>> /\ ServesItself(decided'[m], m) /\ ~IsBackup(decided'[m][1].prx)
    BY <1>0, <2>2, <2>3, OnlyOwnServers DEF SelectionInv, WellFormed
  <2>5. WellFormed(earlier)' /\ WellFormed(decided)'
    BY <1>0, <2>4 DEF SelectionInv, WellFormed
  <2>6. SelectionTypeOK'
    BY <1>0, <1>1, <1>2, <2>0, <2>2 DEF SelectionInv, SelectionTypeOK, IsServerStateMap
  <2>7. Bookkeeping'
    BY <1>0, <2>0, <2>4 DEF SelectionInv, Bookkeeping
  <2>8. Grouped'
    <3>1. \A j \in 1 .. (it' - 1) : j \in 1 .. (it - 1) \/ j = it
      BY <1>0, <1>1
    <3>2. r = reports[it]
      BY DEF r
    <3> QED
      BY <1>0, <1>4, <2>0, <3>1, <3>2 DEF SelectionInv, Grouped
  <2>9. RoundOne' /\ RoundTwo'
    BY <1>0 DEF SelectionInv, RoundOne, RoundTwo
  <2> QED
    BY <2>5, <2>6, <2>7, <2>8, <2>9 DEF SelectionInv
<1> QED
  BY <1>3, <1>4

(* After the last report every backup that has reported is set aside.      *)
LEMMA EndGroupingStep == SelectionInv /\ EndGrouping => SelectionInv'
<1> SUFFICES ASSUME SelectionInv, EndGrouping PROVE SelectionInv'
  OBVIOUS
<1>0. /\ reports' = reports /\ earlier' = earlier /\ mod' = mod /\ it' = it
      /\ decided' = decided /\ mapBk' = mapBk
      /\ setBkUsed' = setBkUsed /\ fatal' = fatal
      /\ loop = "group" /\ loop' = "first" /\ it > Len(reports)
  BY DEF EndGrouping
<1>1. it = Len(reports) + 1
  BY <1>0 DEF SelectionInv, SelectionTypeOK
<1>2. SelectionTypeOK'
  BY <1>0 DEF SelectionInv, SelectionTypeOK, OneEach, IsServerStateMap
<1>3. WellFormed(earlier)' /\ WellFormed(decided)' /\ Bookkeeping'
  BY <1>0 DEF SelectionInv, WellFormed, Bookkeeping
<1>4. Grouped' /\ RoundTwo'
  BY <1>0, <1>1 DEF SelectionInv, Grouped, RoundTwo
<1>5. RoundOne'
  BY <1>0, OnlyOwnServers DEF RoundOne
<1> QED
  BY <1>2, <1>3, <1>4, <1>5 DEF SelectionInv

(***************************************************************************)
(* Giving a mod without a server a backup that serves nobody keeps the     *)
(* decision one that makes sense, and the used backups the ones that       *)
(* serve.                                                                  *)
(***************************************************************************)
LEMMA GiveIsSafe ==
  ASSUME SelectionInv, NEW m0 \in Mods, m0 \notin DOMAIN decided,
         NEW s0 \in DOMAIN mapBk, \A m \in DOMAIN decided : decided[m][1].prx # s0,
         Give(m0, s0), mapBk' = mapBk
  PROVE  /\ IsServerStateMap(decided)' /\ WellFormed(decided)' /\ Bookkeeping'
         /\ DOMAIN decided' = DOMAIN decided \cup {m0}
         /\ decided'[m0][1].prx = s0
         /\ \A m \in DOMAIN decided : decided'[m] = decided[m]
         /\ setBkUsed' = setBkUsed \cup {s0}
         /\ setBkUsed' \subseteq Servers
<1> DEFINE q == <<mapBk[s0]>>
<1>1. q \in Seq(Report) /\ q # <<>> /\ Len(q) = 1 /\ q[1].prx = s0
  BY DEF SelectionInv, SelectionTypeOK
<1>2. IsBackup(s0) /\ s0 \in Servers
  BY DEF SelectionInv, Bookkeeping, SelectionTypeOK
<1>3. decided' = Insert(decided, m0, q) /\ setBkUsed' = setBkUsed \cup {s0}
  BY DEF Give
<1> HIDE DEF q
<1>4. /\ DOMAIN decided' = DOMAIN decided \cup {m0}
      /\ decided'[m0] = q
      /\ \A m \in DOMAIN decided : decided'[m] = decided[m]
  BY <1>3 DEF Insert
<1>5. IsServerStateMap(decided)'
  <2>1. IsServerStateMap(Insert(decided, m0, q))
    BY <1>1, InsertTyped DEF SelectionInv, SelectionTypeOK
  <2> QED
    BY <1>3, <2>1 DEF IsServerStateMap
<1>6. WellFormed(decided)'
  <2>1. ServedByBackup(decided'[m0])
    BY <1>1, <1>2, <1>4 DEF ServedByBackup
  <2>2. ASSUME NEW m \in DOMAIN decided'
        PROVE  decided'[m] # <<>> /\ (ServesItself(decided'[m], m) \/ ServedByBackup(decided'[m]))
    BY <1>1, <1>4, <2>1 DEF SelectionInv, WellFormed
  <2>3. ASSUME NEW m \in DOMAIN decided', NEW n \in DOMAIN decided',
               IsBackup(decided'[m][1].prx), decided'[m][1].prx = decided'[n][1].prx
        PROVE  m = n
    BY <1>1, <1>4, <2>3 DEF SelectionInv, WellFormed
  <2> QED
    BY <2>2, <2>3 DEF WellFormed
<1>7. Bookkeeping'
  <2>1. \A m \in DOMAIN decided' :
          IsBackup(decided'[m][1].prx) => decided'[m][1].prx \in setBkUsed'
    BY <1>1, <1>3, <1>4 DEF SelectionInv, Bookkeeping
  <2>2. \A s \in setBkUsed' : \E m \in DOMAIN decided' : decided'[m][1].prx = s
    BY <1>1, <1>3, <1>4 DEF SelectionInv, Bookkeeping
  <2> QED
    BY <1>3, <2>1, <2>2 DEF SelectionInv, Bookkeeping
<1> QED
  BY <1>1, <1>2, <1>3, <1>4, <1>5, <1>6, <1>7 DEF SelectionInv, SelectionTypeOK

(***************************************************************************)
(* Round one looks at no record of used backups, and needs none: the       *)
(* earlier decision gave a backup to one mod only, and so far every backup *)
(* serves what it served then.                                             *)
(***************************************************************************)
LEMMA KeepStep == SelectionInv /\ Keep => SelectionInv'
<1> SUFFICES ASSUME SelectionInv, Keep PROVE SelectionInv'
  OBVIOUS
<1>0. /\ reports' = reports /\ earlier' = earlier /\ mod' = mod + 1 /\ it' = it
      /\ mapBk' = mapBk /\ fatal' = fatal
      /\ loop = "first" /\ loop' = loop /\ mod < Cluster
  BY DEF Keep
<1>1. mod \in Mods /\ mod' \in 0 .. Cluster
  BY <1>0, ClusterAssumption DEF SelectionInv, SelectionTypeOK, Mods
<1>2. WellFormed(earlier)' /\ Grouped' /\ RoundTwo'
  BY <1>0 DEF SelectionInv, WellFormed, Grouped, RoundTwo
<1>3. CASE /\ mod \notin DOMAIN decided /\ mod \in DOMAIN earlier
           /\ Len(earlier[mod]) > 0 /\ earlier[mod][1].prx \in DOMAIN mapBk
  <2> DEFINE s0 == earlier[mod][1].prx
  <2>1. Give(mod, s0)
    BY <1>3 DEF Keep
  <2>2. IsBackup(s0)
    BY <1>3 DEF SelectionInv, Bookkeeping
  <2>3. ASSUME NEW m \in DOMAIN decided, decided[m][1].prx = s0
        PROVE  FALSE
    <3>1. m \in DOMAIN earlier /\ earlier[m][1].prx = s0
      BY <1>0, <2>2, <2>3 DEF SelectionInv, RoundOne
    <3> QED
      BY <1>3, <2>2, <3>1 DEF SelectionInv, WellFormed
  <2>4. /\ IsServerStateMap(decided)' /\ WellFormed(decided)' /\ Bookkeeping'
        /\ DOMAIN decided' = DOMAIN decided \cup {mod}
        /\ decided'[mod][1].prx = s0
        /\ \A m \in DOMAIN decided : decided'[m] = decided[m]
        /\ setBkUsed' \subseteq Servers
    BY <1>0, <1>1, <1>3, <2>1, <2>3, GiveIsSafe
  <2> HIDE DEF s0
  <2>5. SelectionTypeOK'
    BY <1>0, <1>1, <2>4 DEF SelectionInv, SelectionTypeOK, OneEach, IsServerStateMap
  <2>6. RoundOne'
    BY <1>0, <1>3, <2>4 DEF SelectionInv, RoundOne, s0
  <2> QED
    BY <1>2, <2>4, <2>5, <2>6 DEF SelectionInv
<1>4. CASE decided' = decided /\ setBkUsed' = setBkUsed
  <2>1. SelectionTypeOK'
    BY <1>0, <1>1, <1>4 DEF SelectionInv, SelectionTypeOK, OneEach, IsServerStateMap
  <2>2. WellFormed(decided)' /\ Bookkeeping' /\ RoundOne'
    BY <1>0, <1>4 DEF SelectionInv, WellFormed, Bookkeeping, RoundOne
  <2> QED
    BY <1>2, <2>1, <2>2 DEF SelectionInv
<1> QED
  BY <1>3, <1>4 DEF Keep

(* Between the rounds only the loop variable changes.                      *)
LEMMA EndFirstRoundStep == SelectionInv /\ EndFirstRound => SelectionInv'
<1> SUFFICES ASSUME SelectionInv, EndFirstRound PROVE SelectionInv'
  OBVIOUS
<1>0. /\ reports' = reports /\ earlier' = earlier /\ mod' = 0 /\ it' = it
      /\ decided' = decided /\ mapBk' = mapBk
      /\ setBkUsed' = setBkUsed /\ fatal' = fatal
      /\ loop = "first" /\ loop' = "second"
  BY DEF EndFirstRound
<1>1. SelectionTypeOK'
  BY <1>0, ClusterAssumption DEF SelectionInv, SelectionTypeOK, OneEach, IsServerStateMap
<1>2. WellFormed(earlier)' /\ WellFormed(decided)' /\ Bookkeeping'
  BY <1>0 DEF SelectionInv, WellFormed, Bookkeeping
<1>3. Grouped' /\ RoundOne' /\ RoundTwo'
  BY <1>0 DEF SelectionInv, Grouped, RoundOne, RoundTwo
<1> QED
  BY <1>1, <1>2, <1>3 DEF SelectionInv

(* Round two hands out what setBkUsed does not record, and that serves     *)
(* nobody.                                                                 *)
LEMMA TakeStep == SelectionInv /\ Take => SelectionInv'
<1> SUFFICES ASSUME SelectionInv, Take PROVE SelectionInv'
  OBVIOUS
<1>0. /\ reports' = reports /\ earlier' = earlier /\ mod' = mod + 1 /\ it' = it
      /\ mapBk' = mapBk /\ fatal' = fatal
      /\ loop = "second" /\ loop' = loop /\ mod < Cluster
  BY DEF Take
<1>1. /\ mod \in Mods /\ mod' \in 0 .. Cluster
      /\ \A m \in 0 .. (mod' - 1) : m \in 0 .. (mod - 1) \/ m = mod
  BY <1>0, ClusterAssumption DEF SelectionInv, SelectionTypeOK, Mods
<1>2. WellFormed(earlier)' /\ RoundOne'
  BY <1>0 DEF SelectionInv, WellFormed, RoundOne
<1>3. DOMAIN mapBk \subseteq Servers /\ setBkUsed \subseteq DOMAIN mapBk
  BY DEF SelectionInv, SelectionTypeOK, Bookkeeping
<1>4. Cardinality(setBkUsed) < Cardinality(DOMAIN mapBk) <=> Unused # {}
  BY <1>3, SizesTell
<1>5. CASE mod \notin DOMAIN decided /\ Cardinality(setBkUsed) < Cardinality(DOMAIN mapBk)
  <2> DEFINE s0 == FirstUnused
  <2>1. Give(mod, s0)
    BY <1>5 DEF Take
  <2>2. s0 \in Unused
    BY <1>3, <1>4, <1>5, FirstUnusedIsUnused
  <2> HIDE DEF s0
  <2>3. s0 \in DOMAIN mapBk /\ s0 \notin setBkUsed
    BY <2>2 DEF Unused
  <2>4. \A m \in DOMAIN decided : decided[m][1].prx # s0
    BY <2>3 DEF SelectionInv, Bookkeeping
  <2>5. /\ IsServerStateMap(decided)' /\ WellFormed(decided)' /\ Bookkeeping'
        /\ DOMAIN decided' = DOMAIN decided \cup {mod}
        /\ setBkUsed' = setBkUsed \cup {s0}
        /\ setBkUsed' \subseteq Servers
    BY <1>0, <1>1, <1>5, <2>1, <2>3, <2>4, GiveIsSafe
  <2>6. SelectionTypeOK'
    BY <1>0, <1>1, <2>5 DEF SelectionInv, SelectionTypeOK, OneEach, IsServerStateMap
  <2>7. Grouped'
    BY <1>0 DEF SelectionInv, Grouped
  <2>8. RoundTwo'
    BY <1>0, <1>1, <2>5 DEF SelectionInv, RoundTwo
  <2> QED
    BY <1>2, <2>5, <2>6, <2>7, <2>8 DEF SelectionInv
<1>6. CASE ~(mod \notin DOMAIN decided /\ Cardinality(setBkUsed) < Cardinality(DOMAIN mapBk))
  <2>0. decided' = decided /\ setBkUsed' = setBkUsed
    BY <1>6 DEF Take
  <2>1. mod \in DOMAIN decided \/ DOMAIN mapBk \subseteq setBkUsed
    BY <1>4, <1>6 DEF Unused
  <2>2. SelectionTypeOK'
    BY <1>0, <1>1, <2>0 DEF SelectionInv, SelectionTypeOK, OneEach, IsServerStateMap
  <2>3. WellFormed(decided)' /\ Bookkeeping' /\ Grouped'
    BY <1>0, <2>0 DEF SelectionInv, WellFormed, Bookkeeping, Grouped
  <2>4. RoundTwo'
    BY <1>0, <1>1, <2>0, <2>1 DEF SelectionInv, RoundTwo
  <2> QED
    BY <1>2, <2>2, <2>3, <2>4 DEF SelectionInv
<1> QED
  BY <1>5, <1>6

(* The judgement leaves the decision alone.                                *)
LEMMA JudgeStep == SelectionInv /\ Judge => SelectionInv'
<1> SUFFICES ASSUME SelectionInv, Judge PROVE SelectionInv'
  OBVIOUS
<1>0. /\ reports' = reports /\ earlier' = earlier /\ mod' = mod /\ it' = it
      /\ decided' = decided /\ mapBk' = mapBk /\ setBkUsed' = setBkUsed
      /\ loop = "second" /\ loop' = "done" /\ mod = Cluster
  BY DEF Judge
<1>1. fatal' \in BOOLEAN
  BY DEF Judge, SelectionInv, SelectionTypeOK
<1>2. SelectionTypeOK'
  BY <1>0, <1>1 DEF SelectionInv, SelectionTypeOK, OneEach, IsServerStateMap
<1>3. WellFormed(earlier)' /\ WellFormed(decided)' /\ Bookkeeping'
  BY <1>0 DEF SelectionInv, WellFormed, Bookkeeping
<1>4. Grouped' /\ RoundOne' /\ RoundTwo'
  BY <1>0 DEF SelectionInv, Grouped, RoundOne, RoundTwo
<1> QED
  BY <1>2, <1>3, <1>4 DEF SelectionInv

(* Every step of FetchServerState's loops keeps the invariant.             *)
LEMMA SelectionInvStep == SelectionInv /\ [SelectionNext]_selectionVars => SelectionInv'
<1> SUFFICES ASSUME SelectionInv, [SelectionNext]_selectionVars PROVE SelectionInv'
  OBVIOUS
<1>1. CASE UNCHANGED selectionVars
  BY <1>1 DEF selectionVars, SelectionInv, SelectionTypeOK, OneEach, IsServerStateMap, WellFormed,
              Bookkeeping, Grouped, RoundOne, RoundTwo
<1> QED
  BY <1>1, GroupStep, EndGroupingStep, KeepStep, EndFirstRoundStep, TakeStep, JudgeStep
     DEF SelectionNext

(* The invariant holds throughout FetchServerState.                        *)
LEMMA SelectionInvAlways == SelectionSpec => []SelectionInv
BY SelectionInvInit, SelectionInvStep, PTL DEF SelectionSpec

-----------------------------------------------------------------------------

(* The loops of FetchServerState never read a map outside its keys or a    *)
(* report outside the received ones.                                       *)
THEOREM SelectionTyped == SelectionSpec => []SelectionTypeOK
<1>1. SelectionInv => SelectionTypeOK
  BY DEF SelectionInv
<1> QED
  BY <1>1, SelectionInvAlways, PTL

(* FetchServerState decides a map in which every mod has its own servers   *)
(* or else one backup that serves no other mod.                            *)
THEOREM SelectionMakesSense == SelectionSpec => []SelectionWellFormed
<1>1. SelectionInv => SelectionWellFormed
  BY DEF SelectionInv, SelectionWellFormed
<1> QED
  BY <1>1, SelectionInvAlways, PTL

(* FetchServerState leaves a mod unserved only when every backup that has  *)
(* reported serves another.                                                *)
THEOREM BackupsAreUsed == SelectionSpec => []NoIdleBackup
<1>1. SelectionInv => NoIdleBackup
  <2> SUFFICES ASSUME SelectionInv, loop = "done", NEW m \in Mods, m \notin DOMAIN decided,
                      NEW s \in Received(reports), IsBackup(s)
               PROVE  \E n \in DOMAIN decided : decided[n][1].prx = s
    BY DEF NoIdleBackup
  <2>1. DOMAIN mapBk \subseteq setBkUsed
    <3>1. m \in 0 .. (mod - 1)
      BY DEF SelectionInv, RoundTwo, Mods
    <3> QED
      BY <3>1 DEF SelectionInv, RoundTwo
  <2>2. PICK j \in DOMAIN reports : reports[j].prx = s
    BY DEF Received
  <2>3. j \in 1 .. (it - 1)
    BY DEF SelectionInv, Grouped, SelectionTypeOK
  <2>4. s \in DOMAIN mapBk
    BY <2>2, <2>3 DEF SelectionInv, Grouped
  <2> QED
    BY <2>1, <2>4 DEF SelectionInv, Bookkeeping
<1> QED
  BY <1>1, SelectionInvAlways, PTL

-----------------------------------------------------------------------------
(***************************************************************************)
(* The loops compute Decide.  Where the invariant above says what a        *)
(* decision may look like, this one says which decision it is: after some  *)
(* of the reports, these grouped by mod in their order; then the part of   *)
(* Decide that the rounds have come to.                                    *)
(***************************************************************************)
Backed ==
  /\ DOMAIN mapBk = {reports[j].prx : j \in {k \in 1 .. (it - 1) : IsBackup(reports[k].prx)}}
  /\ \A j \in 1 .. (it - 1) : IsBackup(reports[j].prx) => mapBk[reports[j].prx] = reports[j]

Places(n, m) == {j \in 1 .. (n - 1) : Mod[reports[j].prx] = m}

GroupedSoFar ==
  loop = "group" =>
    /\ DOMAIN decided = {m \in Mods : Places(it, m) # {}}
    /\ \A m \in DOMAIN decided : decided[m] = Subsequence(reports, Places(it, m))

Reached ==
  CASE loop = "first" -> {m \in Kept(reports, earlier) : m < mod}
    [] OTHER -> Kept(reports, earlier) \cup {m \in Taken(reports, earlier) : m < mod}

DecidedSoFar ==
  loop # "group" =>
    /\ DOMAIN decided = Own(reports) \cup Reached
    /\ \A m \in DOMAIN decided : decided[m] = Decide(reports, earlier)[m]
    /\ setBkUsed = {Backup(reports, earlier, m) : m \in Reached}

ExactInv == Backed /\ GroupedSoFar /\ DecidedSoFar

LEMMA ExactInit == SelectionInit => ExactInv
<1> SUFFICES ASSUME SelectionInit PROVE ExactInv
  OBVIOUS
<1>1. 1 .. (it - 1) = {} /\ DOMAIN decided = {} /\ DOMAIN mapBk = {} /\ loop = "group"
  BY DEF SelectionInit
<1>2. \A m : Places(it, m) = {}
  BY <1>1 DEF Places
<1>3. QED
  BY <1>1, <1>2 DEF ExactInv, Backed, GroupedSoFar, DecidedSoFar

(* Nobody reports twice, so that every backup's report is set aside; the   *)
(* other reports go to the end of their groups.                            *)
LEMMA ExactGroup == SelectionInv /\ ExactInv /\ Group => ExactInv'
<1> SUFFICES ASSUME SelectionInv, ExactInv, Group PROVE ExactInv'
  OBVIOUS
<1>1. PICK R : R = reports
  OBVIOUS
<1>2. PICK n : n = it
  OBVIOUS
<1>3. /\ reports' = R /\ it' = n + 1 /\ loop = "group" /\ loop' = "group"
  BY <1>1, <1>2 DEF Group
<1>4. /\ R \in Seq(Report) /\ OneEach(R) /\ n \in 1 .. Len(R) /\ Len(R) \in Nat
      /\ DOMAIN R = 1 .. Len(R)
  <2>1. R \in Seq(Report) /\ OneEach(R) /\ n \in 1 .. (Len(R) + 1) /\ n <= Len(R)
    BY <1>1, <1>2 DEF SelectionInv, SelectionTypeOK, Group
  <2>2. QED
    BY <2>1
<1>5. /\ n \in DOMAIN R /\ R[n] \in Report /\ R[n].prx \in Servers /\ Mod[R[n].prx] \in Int
  <2>1. n \in DOMAIN R /\ R[n] \in Report
    BY <1>4
  <2>2. R[n].prx \in Servers
    BY <2>1 DEF Report
  <2>3. QED
    BY <2>1, <2>2, ClusterAssumption
<1>6. 1 .. (it' - 1) = 1 .. (n - 1) \cup {n}
  BY <1>3, <1>4
<1>7. /\ DOMAIN mapBk = {R[j].prx : j \in {k \in 1 .. (n - 1) : IsBackup(R[k].prx)}}
      /\ \A j \in 1 .. (n - 1) : IsBackup(R[j].prx) => mapBk[R[j].prx] = R[j]
  BY <1>1, <1>2 DEF ExactInv, Backed
<1>8. \A m : Places(n, m) = {j \in 1 .. (n - 1) : Mod[R[j].prx] = m}
  BY <1>1 DEF Places
<1>9. /\ DOMAIN decided = {m \in Mods : Places(n, m) # {}}
      /\ \A m \in DOMAIN decided : decided[m] = Subsequence(R, Places(n, m))
  BY <1>1, <1>2, <1>3 DEF ExactInv, GroupedSoFar
<1>10. \A m : Places(it, m)' = {j \in 1 .. (n - 1) \cup {n} : Mod[R[j].prx] = m}
  BY <1>3, <1>6 DEF Places
<1>11. \A m : m # Mod[R[n].prx] => Places(it, m)' = Places(n, m)
  BY <1>8, <1>10
<1>12. CASE IsBackup(R[n].prx)
  <2>1. Mod[R[n].prx] \notin Mods
    BY <1>5, <1>12, ClusterAssumption DEF IsBackup, Mods
  <2>2. R[n].prx \notin DOMAIN mapBk
    <3>1. SUFFICES ASSUME R[n].prx \in DOMAIN mapBk PROVE FALSE
      OBVIOUS
    <3>2. PICK j \in 1 .. (n - 1) : R[j].prx = R[n].prx
      BY <1>7, <3>1
    <3>3. j \in 1 .. Len(R) /\ j # n
      BY <1>4, <3>2
    <3>4. QED
      BY <1>4, <1>5, <3>2, <3>3 DEF OneEach
  <2>3. mapBk' = Insert(mapBk, R[n].prx, R[n]) /\ decided' = decided
    BY <1>1, <1>2, <1>12, <2>2 DEF Group
  <2>4. /\ DOMAIN mapBk' = DOMAIN mapBk \cup {R[n].prx}
        /\ mapBk'[R[n].prx] = R[n]
        /\ \A s \in DOMAIN mapBk : mapBk'[s] = mapBk[s]
    BY <2>2, <2>3 DEF Insert
  <2>5. Backed'
    <3>1. DOMAIN mapBk' = {R[j].prx : j \in {k \in 1 .. (n - 1) \cup {n} : IsBackup(R[k].prx)}}
      BY <1>7, <1>12, <2>4
    <3>2. \A j \in 1 .. (n - 1) \cup {n} : IsBackup(R[j].prx) => mapBk'[R[j].prx] = R[j]
      BY <1>7, <2>4
    <3>3. QED
      BY <1>3, <1>6, <3>1, <3>2 DEF Backed
  <2>6. \A m \in Mods : Places(it, m)' = Places(n, m)
    BY <1>11, <2>1
  <2>7. DOMAIN decided' = {m \in Mods : Places(it, m)' # {}}
    BY <1>9, <2>3, <2>6
  <2>8. \A m \in DOMAIN decided' : decided'[m] = Subsequence(R, Places(it, m)')
    BY <1>9, <2>3, <2>6
  <2>9. QED
    BY <1>3, <2>5, <2>7, <2>8 DEF ExactInv, GroupedSoFar, DecidedSoFar
<1>13. CASE ~IsBackup(R[n].prx)
  <2>1. PICK m0 : m0 = Mod[R[n].prx]
    OBVIOUS
  <2>2. m0 \in Mods
    BY <1>5, <1>13, <2>1, ClusterAssumption DEF IsBackup, Mods
  <2>3. /\ mapBk' = mapBk
        /\ decided' = IF m0 \in DOMAIN decided THEN [decided EXCEPT ![m0] = Append(@, R[n])]
                                             ELSE Insert(decided, m0, <<R[n]>>)
    BY <1>1, <1>2, <1>13, <2>1 DEF Group
  <2>4. Backed'
    <3>1. {k \in 1 .. (n - 1) \cup {n} : IsBackup(R[k].prx)} = {k \in 1 .. (n - 1) : IsBackup(R[k].prx)}
      BY <1>13
    <3>2. \A j \in 1 .. (n - 1) \cup {n} : IsBackup(R[j].prx) => mapBk'[R[j].prx] = R[j]
      BY <1>7, <1>13, <2>3
    <3>3. QED
      BY <1>3, <1>6, <1>7, <2>3, <3>1, <3>2 DEF Backed
  <2>5. Places(it, m0)' = Places(n, m0) \cup {n} /\ n \notin Places(n, m0)
    BY <1>4, <1>8, <1>10, <2>1
  <2>6. Places(n, m0) \in SUBSET DOMAIN R /\ \A j \in Places(n, m0) : j < n
    BY <1>4, <1>8
  <2>7. Subsequence(R, Places(it, m0)') = Append(Subsequence(R, Places(n, m0)), R[n])
    BY <1>4, <1>5, <2>5, <2>6, SubsequenceAppend
  <2>8. /\ DOMAIN decided' = DOMAIN decided \cup {m0}
        /\ \A m \in DOMAIN decided : m # m0 => decided'[m] = decided[m]
        /\ decided'[m0] = Append(Subsequence(R, Places(n, m0)), R[n])
    <3>1. CASE m0 \in DOMAIN decided
      <4>1. decided' = [decided EXCEPT ![m0] = Append(decided[m0], R[n])]
        BY <2>3, <3>1
      <4>2. QED
        BY <1>9, <3>1, <4>1
    <3>2. CASE m0 \notin DOMAIN decided
      <4>1. decided' = Insert(decided, m0, <<R[n]>>)
        BY <2>3, <3>2
      <4>2. /\ DOMAIN decided' = DOMAIN decided \cup {m0} /\ decided'[m0] = <<R[n]>>
            /\ \A m \in DOMAIN decided : m # m0 => decided'[m] = decided[m]
        BY <4>1 DEF Insert
      <4>3. Places(n, m0) = {}
        BY <1>9, <2>2, <3>2
      <4>4. PICK e : e = Subsequence(R, {})
        OBVIOUS
      <4>5. e \in Seq(Report) /\ Len(e) = 0
        <5>1. {} \in SUBSET DOMAIN R /\ Cardinality({}) = 0
          BY FS_EmptySet
        <5>2. QED
          BY <1>4, <4>4, <5>1, SubsequenceFacts
      <4>6. Append(e, R[n]) = <<R[n]>>
        BY <4>5
      <4>7. QED
        BY <4>2, <4>3, <4>4, <4>6
    <3>3. QED
      BY <3>1, <3>2
  <2>9. DOMAIN decided' = {m \in Mods : Places(it, m)' # {}}
    BY <1>9, <1>11, <2>1, <2>2, <2>5, <2>8
  <2>10. \A m \in DOMAIN decided' : decided'[m] = Subsequence(R, Places(it, m)')
    BY <1>9, <1>11, <2>1, <2>7, <2>8
  <2>11. QED
    BY <1>3, <2>4, <2>9, <2>10 DEF ExactInv, GroupedSoFar, DecidedSoFar
<1>14. QED
  BY <1>12, <1>13

(* After the grouping: the groups are those of Decide, and the backups are *)
(* the ones it chooses from.                                               *)
LEMMA BackedAll ==
  ASSUME SelectionInv, Backed, it = Len(reports) + 1
  PROVE  /\ DOMAIN mapBk = Backups(reports)
         /\ \A s \in DOMAIN mapBk : mapBk[s] = ReportOf(reports, s)
<1>1. /\ reports \in Seq(Report) /\ OneEach(reports) /\ DOMAIN reports = 1 .. (it - 1)
  BY DEF SelectionInv, SelectionTypeOK
<1>2. DOMAIN mapBk = Backups(reports)
  BY <1>1 DEF Backed, Backups, Received
<1>3. ASSUME NEW s \in DOMAIN mapBk
      PROVE  mapBk[s] = ReportOf(reports, s)
  <2>1. PICK j \in DOMAIN reports : reports[j].prx = s /\ IsBackup(reports[j].prx)
    BY <1>1 DEF Backed
  <2>2. mapBk[s] = reports[j]
    BY <1>1, <2>1 DEF Backed
  <2>3. PICK k \in DOMAIN reports : reports[k].prx = s /\ ReportOf(reports, s) = reports[k]
    BY <2>1 DEF ReportOf
  <2>4. j = k
    BY <1>1, <2>1, <2>3 DEF OneEach
  <2>5. QED
    BY <2>2, <2>3, <2>4
<1>4. QED
  BY <1>2, <1>3

LEMMA ExactEndGrouping == SelectionInv /\ ExactInv /\ EndGrouping => ExactInv'
<1> SUFFICES ASSUME SelectionInv, ExactInv, EndGrouping PROVE ExactInv'
  OBVIOUS
<1>1. /\ UNCHANGED <<reports, earlier, it, mod, decided, mapBk, setBkUsed>>
      /\ loop = "group" /\ loop' = "first" /\ mod = 0 /\ setBkUsed = {} /\ it > Len(reports)
  BY DEF EndGrouping, SelectionInv, Grouped
<1>2. reports \in Seq(Report) /\ it = Len(reports) + 1 /\ DOMAIN reports = 1 .. (it - 1)
  <2>1. reports \in Seq(Report) /\ it \in 1 .. (Len(reports) + 1)
    BY DEF SelectionInv, SelectionTypeOK
  <2>2. QED
    BY <1>1, <2>1
<1>3. \A m : Places(it, m) = {j \in DOMAIN reports : Mod[reports[j].prx] = m}
  BY <1>2 DEF Places
<1>4. DOMAIN decided = Own(reports)
  <2>1. \A m : Places(it, m) # {} <=> \E s \in Received(reports) : Mod[s] = m
    BY <1>3 DEF Received
  <2>2. QED
    BY <1>1, <2>1 DEF ExactInv, GroupedSoFar, Own
<1>5. \A m \in DOMAIN decided : decided[m] = Decide(reports, earlier)[m]
  <2>1. \A m \in DOMAIN decided : decided[m] = OwnReports(reports, m)
    BY <1>1, <1>3 DEF ExactInv, GroupedSoFar, OwnReports
  <2>2. QED
    BY <1>4, <2>1, DecideValues
<1>6. Kept(reports, earlier) \subseteq Mods
  BY DEF Kept
<1>7. Reached' = {}
  <2>1. \A m \in Kept(reports, earlier) : ~(m < 0)
    BY <1>6, ClusterAssumption DEF Mods
  <2>2. QED
    BY <1>1, <2>1 DEF Reached
<1>8. DecidedSoFar'
  BY <1>1, <1>4, <1>5, <1>7 DEF DecidedSoFar
<1>9. QED
  BY <1>1, <1>8 DEF ExactInv, Backed, GroupedSoFar

(* A backup handed out is the one Decide gives the mod.                    *)
LEMMA GiveDecided ==
  ASSUME SelectionInv, Backed, loop # "group",
         NEW m0 \in Kept(reports, earlier) \cup Taken(reports, earlier), m0 \notin DOMAIN decided,
         Give(m0, Backup(reports, earlier, m0)),
         \A m \in DOMAIN decided : decided[m] = Decide(reports, earlier)[m]
  PROVE  /\ DOMAIN decided' = DOMAIN decided \cup {m0}
         /\ \A m \in DOMAIN decided' : decided'[m] = Decide(reports, earlier)[m]
         /\ setBkUsed' = setBkUsed \cup {Backup(reports, earlier, m0)}
<1>1. reports \in Seq(Report) /\ it = Len(reports) + 1
  BY DEF SelectionInv, SelectionTypeOK, Grouped
<1>2. PICK s : s = Backup(reports, earlier, m0) /\ s \in Backups(reports)
  BY <1>1, BackupReported
<1>3. mapBk[s] = ReportOf(reports, s)
  BY <1>1, <1>2, BackedAll
<1>4. m0 \in DOMAIN Decide(reports, earlier) \ Own(reports)
  <2>1. m0 \notin Own(reports)
    BY DEF Kept, Taken, Unserved
  <2>2. QED
    BY <2>1, DecideValues
<1>5. <<mapBk[s]>> = Decide(reports, earlier)[m0]
  BY <1>2, <1>3, <1>4, DecideValues
<1>6. decided' = Insert(decided, m0, <<mapBk[s]>>) /\ setBkUsed' = setBkUsed \cup {s}
  BY <1>2 DEF Give
<1>7. /\ DOMAIN decided' = DOMAIN decided \cup {m0} /\ decided'[m0] = <<mapBk[s]>>
      /\ \A m \in DOMAIN decided : m # m0 => decided'[m] = decided[m]
  BY <1>6 DEF Insert
<1>8. QED
  BY <1>2, <1>5, <1>6, <1>7

(* The steps of the rounds leave the reports, the earlier decision and the *)
(* backups alone.                                                          *)
LEMMA BackedKept ==
  ASSUME Backed, UNCHANGED <<reports, it, mapBk>>
  PROVE  Backed'
BY DEF Backed

(* A round that has passed one more mod.                                   *)
LEMMA UpToNext ==
  ASSUME NEW S \in SUBSET Int, NEW n \in Nat
  PROVE  {m \in S : m < n + 1} =
           IF n \in S THEN {m \in S : m < n} \cup {n} ELSE {m \in S : m < n}
<1>1. \A m \in S : m < n + 1 <=> m < n \/ m = n
  OBVIOUS
<1>2. QED
  BY <1>1

LEMMA ExactKeep == SelectionInv /\ ExactInv /\ Keep => ExactInv'
<1> SUFFICES ASSUME SelectionInv, ExactInv, Keep PROVE ExactInv'
  OBVIOUS
<1>1. /\ UNCHANGED <<reports, earlier, loop, it, mapBk>> /\ mod' = mod + 1
      /\ loop = "first" /\ mod \in Mods /\ mod \in Nat
  <2>1. UNCHANGED <<reports, earlier, loop, it, mapBk>> /\ mod' = mod + 1 /\ loop = "first" /\ mod < Cluster
    BY DEF Keep
  <2>2. mod \in 0 .. Cluster
    BY DEF SelectionInv, SelectionTypeOK
  <2>3. QED
    BY <2>1, <2>2, ClusterAssumption DEF Mods
<1>2. /\ Backed /\ it = Len(reports) + 1 /\ Backed'
      /\ DOMAIN mapBk = Backups(reports)
  BY <1>1, BackedAll, BackedKept DEF ExactInv, SelectionInv, Grouped
<1>3. PICK kept : kept = Kept(reports, earlier)
  OBVIOUS
<1>4. /\ DOMAIN decided = Own(reports) \cup {m \in kept : m < mod}
      /\ \A m \in DOMAIN decided : decided[m] = Decide(reports, earlier)[m]
      /\ setBkUsed = {Backup(reports, earlier, m) : m \in {m \in kept : m < mod}}
  BY <1>1, <1>3 DEF ExactInv, DecidedSoFar, Reached
<1>5. kept \subseteq Int
  BY <1>3, ClusterAssumption DEF Kept, Mods
<1>6. mod \notin {m \in kept : m < mod}
  BY <1>1
<1>7. /\ mod \notin DOMAIN decided /\ mod \in DOMAIN earlier
      /\ Len(earlier[mod]) > 0 /\ earlier[mod][1].prx \in DOMAIN mapBk
      <=> mod \in kept
  <2>1. mod \notin DOMAIN decided <=> mod \notin Own(reports)
    BY <1>4, <1>6
  <2>2. mod \in DOMAIN earlier => Len(earlier[mod]) > 0
    <3>1. SUFFICES ASSUME mod \in DOMAIN earlier PROVE Len(earlier[mod]) > 0
      OBVIOUS
    <3>2. PICK q \in Seq(Report) : q = earlier[mod] /\ q # <<>>
      BY <3>1 DEF SelectionInv, SelectionTypeOK, IsServerStateMap, WellFormed
    <3>3. QED
      BY <3>2
  <2>3. QED
    BY <1>1, <1>2, <1>3, <2>1, <2>2 DEF Kept
<1>8. PICK reached : reached = {m \in kept : m < mod}
  OBVIOUS
<1>9. /\ Reached' = {m \in kept : m < mod + 1}
  BY <1>1, <1>3 DEF Reached
<1>10. {m \in kept : m < mod + 1} = IF mod \in kept THEN reached \cup {mod} ELSE reached
  BY <1>1, <1>5, <1>8, UpToNext
<1>11. CASE mod \in kept
  <2>1. PICK s : s = earlier[mod][1].prx /\ s = Backup(reports, earlier, mod)
    BY <1>3, <1>11 DEF Backup
  <2>2. Give(mod, s)
    BY <1>7, <1>11, <2>1 DEF Keep
  <2>3. mod \notin DOMAIN decided
    BY <1>7, <1>11
  <2>4. /\ DOMAIN decided' = DOMAIN decided \cup {mod}
        /\ \A m \in DOMAIN decided' : decided'[m] = Decide(reports, earlier)[m]
        /\ setBkUsed' = setBkUsed \cup {Backup(reports, earlier, mod)}
    BY <1>1, <1>2, <1>3, <1>4, <1>11, <2>1, <2>2, <2>3, GiveDecided
  <2>5. Reached' = reached \cup {mod}
    BY <1>9, <1>10, <1>11
  <2>6. DOMAIN decided' = Own(reports) \cup Reached'
    BY <1>4, <1>8, <2>4, <2>5
  <2>7. setBkUsed' = {Backup(reports, earlier, m) : m \in Reached'}
    BY <1>4, <1>8, <2>4, <2>5
  <2>8. QED
    BY <1>1, <1>2, <2>4, <2>6, <2>7 DEF ExactInv, GroupedSoFar, DecidedSoFar
<1>12. CASE mod \notin kept
  <2>1. UNCHANGED <<decided, setBkUsed>>
    BY <1>7, <1>12 DEF Keep
  <2>2. Reached' = reached
    BY <1>9, <1>10, <1>12
  <2>3. QED
    BY <1>1, <1>2, <1>4, <1>8, <2>1, <2>2 DEF ExactInv, GroupedSoFar, DecidedSoFar
<1>13. QED
  BY <1>11, <1>12

(* Round one has passed every mod, and round two none.                     *)
LEMMA ExactEndFirstRound == SelectionInv /\ ExactInv /\ EndFirstRound => ExactInv'
<1> SUFFICES ASSUME SelectionInv, ExactInv, EndFirstRound PROVE ExactInv'
  OBVIOUS
<1>1. /\ UNCHANGED <<reports, earlier, it, decided, mapBk, setBkUsed>>
      /\ loop = "first" /\ loop' = "second" /\ mod = Cluster /\ mod' = 0
  BY DEF EndFirstRound
<1>2. \A m \in Mods : m < Cluster /\ ~(m < 0)
  BY ClusterAssumption DEF Mods
<1>3. Kept(reports, earlier) \subseteq Mods /\ Taken(reports, earlier) \subseteq Mods
  BY DEF Kept, Taken, Unserved
<1>4. Reached = Kept(reports, earlier) /\ Reached' = Kept(reports, earlier)
  BY <1>1, <1>2, <1>3 DEF Reached
<1>5. Backed'
  BY <1>1, BackedKept DEF ExactInv
<1>6. QED
  BY <1>1, <1>4, <1>5 DEF ExactInv, GroupedSoFar, DecidedSoFar

(* What round two walks mapBk for is the backup of the mod's own rank.     *)
LEMMA ExactTake == SelectionInv /\ ExactInv /\ Take => ExactInv'
<1> SUFFICES ASSUME SelectionInv, ExactInv, Take PROVE ExactInv'
  OBVIOUS
<1>1. /\ UNCHANGED <<reports, earlier, loop, it, mapBk>> /\ mod' = mod + 1
      /\ loop = "second" /\ mod \in Mods /\ mod \in Nat
  <2>1. UNCHANGED <<reports, earlier, loop, it, mapBk>> /\ mod' = mod + 1 /\ loop = "second" /\ mod < Cluster
    BY DEF Take
  <2>2. mod \in 0 .. Cluster
    BY DEF SelectionInv, SelectionTypeOK
  <2>3. QED
    BY <2>1, <2>2, ClusterAssumption DEF Mods
<1>2. /\ Backed /\ it = Len(reports) + 1 /\ Backed'
      /\ DOMAIN mapBk = Backups(reports)
  BY <1>1, BackedAll, BackedKept DEF ExactInv, SelectionInv, Grouped
<1>3. PICK kept : kept = Kept(reports, earlier)
  OBVIOUS
<1>4. PICK taken : taken = Taken(reports, earlier)
  OBVIOUS
<1>5. PICK U : U = Unserved(reports, earlier)
  OBVIOUS
<1>6. PICK F : F = Free(reports, earlier)
  OBVIOUS
<1>7. PICK before : before = {m \in taken : m < mod}
  OBVIOUS
<1>8. /\ DOMAIN decided = Own(reports) \cup kept \cup before
      /\ \A m \in DOMAIN decided : decided[m] = Decide(reports, earlier)[m]
      /\ setBkUsed = {Backup(reports, earlier, m) : m \in kept \cup before}
  BY <1>1, <1>3, <1>4, <1>7 DEF ExactInv, DecidedSoFar, Reached
<1>9. /\ F \in SUBSET Int /\ IsFiniteSet(F) /\ U \in SUBSET Int /\ IsFiniteSet(U)
  <2>1. reports \in Seq(Report)
    BY DEF SelectionInv, SelectionTypeOK
  <2>2. QED
    BY <1>5, <1>6, <2>1, FreeAndUnserved
<1>10. taken = {m \in U : Rank(U, m) < Cardinality(F)}
  BY <1>4, <1>5, <1>6 DEF Taken
<1>11. U = Mods \ (Own(reports) \cup kept)
  BY <1>3, <1>5 DEF Unserved
<1>12. taken \subseteq U /\ taken \subseteq Int
  BY <1>9, <1>10
<1>13. mod \notin DOMAIN decided <=> mod \in U
  BY <1>1, <1>7, <1>8, <1>11
<1>14. \A m \in U : Backup(reports, earlier, m) = Nth(F, Rank(U, m))
  BY <1>3, <1>5, <1>6, <1>11 DEF Backup
<1>15. Unused = F \ {Nth(F, Rank(U, m)) : m \in before}
  <2>1. \A m \in kept : Backup(reports, earlier, m) = earlier[m][1].prx
    BY <1>3 DEF Backup
  <2>2. F = Backups(reports) \ {Backup(reports, earlier, m) : m \in kept}
    BY <1>3, <1>6, <2>1 DEF Free
  <2>3. Unused = F \ {Backup(reports, earlier, m) : m \in before}
    BY <1>2, <1>8, <2>2 DEF Unused
  <2>4. before \subseteq U
    BY <1>7, <1>12
  <2>5. {Backup(reports, earlier, m) : m \in before} = {Nth(F, Rank(U, m)) : m \in before}
    BY <1>14, <2>4
  <2>6. QED
    BY <2>3, <2>5
<1>16. before = {w \in U : w < mod /\ Rank(U, w) < Cardinality(F)}
  BY <1>7, <1>10
<1>17. Cardinality(setBkUsed) < Cardinality(DOMAIN mapBk) <=> Unused # {}
  BY SizesTell DEF SelectionInv, SelectionTypeOK, Bookkeeping
<1>18. mod \notin DOMAIN decided /\ Cardinality(setBkUsed) < Cardinality(DOMAIN mapBk) <=> mod \in taken
  <2>1. CASE mod \in U
    <3>1. PICK L : L = Unused
      OBVIOUS
    <3>2. PICK u \in U : u = mod
      BY <2>1
    <3>3. L = F \ {Nth(F, Rank(U, v)) : v \in {w \in U : w < u /\ Rank(U, w) < Cardinality(F)}}
      BY <1>15, <1>16, <3>1, <3>2
    <3>4. L # {} <=> Rank(U, u) < Cardinality(F)
      <4>1. ASSUME L # {} PROVE Rank(U, u) < Cardinality(F)
        BY <1>9, <3>3, <4>1, LeftInOrder
      <4>2. ASSUME Rank(U, u) < Cardinality(F) PROVE L # {}
        BY <1>9, <3>3, <4>2, LeftInOrder
      <4>3. QED
        BY <4>1, <4>2
    <3>5. QED
      BY <1>10, <1>13, <1>17, <2>1, <3>1, <3>2, <3>4
  <2>2. CASE mod \notin U
    BY <1>12, <1>13, <2>2
  <2>3. QED
    BY <2>1, <2>2
<1>19. Reached' = kept \cup {m \in taken : m < mod + 1}
  BY <1>1, <1>3, <1>4 DEF Reached
<1>20. {m \in taken : m < mod + 1} = IF mod \in taken THEN before \cup {mod} ELSE before
  BY <1>1, <1>7, <1>12, UpToNext
<1>21. CASE mod \in taken
  <2>1. Give(mod, FirstUnused) /\ mod \notin DOMAIN decided /\ Unused # {}
    BY <1>17, <1>18, <1>21 DEF Take
  <2>2. PICK L : L = Unused
    OBVIOUS
  <2>3. FirstUnused \in L /\ \A t \in L : FirstUnused <= t
    <3>1. L \subseteq Nat /\ L # {}
      BY <2>1, <2>2, ClusterAssumption DEF Unused, SelectionInv, SelectionTypeOK
    <3>2. \E s \in L : \A t \in L : s <= t
      BY <3>1, FirstOfNaturals
    <3>3. FirstUnused = CHOOSE s \in L : \A t \in L : s <= t
      BY <2>2 DEF FirstUnused
    <3>4. QED
      BY <3>2, <3>3
  <2>4. mod \in U
    BY <1>12, <1>21
  <2>5. FirstUnused = Nth(F, Rank(U, mod))
    BY <1>9, <1>15, <1>16, <2>2, <2>3, <2>4, LeftInOrder
  <2>6. FirstUnused = Backup(reports, earlier, mod)
    BY <1>14, <2>4, <2>5
  <2>7. Give(mod, Backup(reports, earlier, mod))
    BY <2>1, <2>6 DEF Give
  <2>8. /\ DOMAIN decided' = DOMAIN decided \cup {mod}
        /\ \A m \in DOMAIN decided' : decided'[m] = Decide(reports, earlier)[m]
        /\ setBkUsed' = setBkUsed \cup {Backup(reports, earlier, mod)}
    BY <1>1, <1>2, <1>4, <1>8, <1>21, <2>1, <2>7, GiveDecided
  <2>9. Reached' = kept \cup before \cup {mod}
    BY <1>19, <1>20, <1>21
  <2>10. DOMAIN decided' = Own(reports) \cup Reached'
    BY <1>8, <2>8, <2>9
  <2>11. setBkUsed' = {Backup(reports, earlier, m) : m \in Reached'}
    BY <1>8, <2>8, <2>9
  <2>12. QED
    BY <1>1, <1>2, <2>8, <2>10, <2>11 DEF ExactInv, GroupedSoFar, DecidedSoFar
<1>22. CASE mod \notin taken
  <2>1. UNCHANGED <<decided, setBkUsed>>
    BY <1>18, <1>22 DEF Take
  <2>2. Reached' = kept \cup before
    BY <1>19, <1>20, <1>22
  <2>3. DOMAIN decided' = Own(reports) \cup Reached'
    BY <1>8, <2>1, <2>2
  <2>4. setBkUsed' = {Backup(reports, earlier, m) : m \in Reached'}
    BY <1>8, <2>1, <2>2
  <2>5. QED
    BY <1>1, <1>2, <1>8, <2>1, <2>3, <2>4 DEF ExactInv, GroupedSoFar, DecidedSoFar
<1>23. QED
  BY <1>21, <1>22

LEMMA ExactStep == SelectionInv /\ ExactInv /\ [SelectionNext]_selectionVars => ExactInv'
<1> SUFFICES ASSUME SelectionInv, ExactInv, [SelectionNext]_selectionVars PROVE ExactInv'
  OBVIOUS
<1>1. CASE Judge
  <2>1. /\ UNCHANGED <<reports, earlier, it, mod, decided, mapBk, setBkUsed>>
        /\ loop = "second" /\ loop' = "done"
    BY <1>1 DEF Judge
  <2>2. Reached' = Reached
    BY <2>1 DEF Reached
  <2>3. Backed'
    BY <2>1, BackedKept DEF ExactInv
  <2>4. QED
    BY <2>1, <2>2, <2>3 DEF ExactInv, GroupedSoFar, DecidedSoFar
<1>2. CASE UNCHANGED selectionVars
  <2>1. UNCHANGED <<reports, earlier, loop, it, mod, decided, mapBk, setBkUsed>>
    BY <1>2 DEF selectionVars
  <2>2. Reached' = Reached /\ \A m : Places(it, m)' = Places(it, m)
    BY <2>1 DEF Reached, Places
  <2>3. Backed'
    BY <2>1, BackedKept DEF ExactInv
  <2>4. QED
    BY <2>1, <2>2, <2>3 DEF ExactInv, GroupedSoFar, DecidedSoFar
<1>3. QED
  BY <1>1, <1>2, ExactGroup, ExactEndGrouping, ExactKeep, ExactEndFirstRound, ExactTake
     DEF SelectionNext

(* The loops of FetchServerState compute the decision in closed form that  *)
(* ClusterController uses for them, for any number of mods and servers,    *)
(* any order of the reports and any earlier decision: round two's walk     *)
(* through mapBk, which skips used backups and stops by comparing sizes,   *)
(* gives the unserved mods the free backups in order.                      *)
THEOREM LoopsComputeDecide == SelectionSpec => []LoopsDecide
<1>1. SelectionInit => SelectionInv /\ ExactInv
  BY SelectionInvInit, ExactInit
<1>2. SelectionInv /\ ExactInv /\ [SelectionNext]_selectionVars => (SelectionInv /\ ExactInv)'
  BY SelectionInvStep, ExactStep
<1>3. SelectionInv /\ ExactInv => LoopsDecide
  <2> SUFFICES ASSUME SelectionInv, ExactInv, loop = "done" PROVE decided = Decide(reports, earlier)
    BY DEF LoopsDecide
  <2>1. mod = Cluster
    BY DEF SelectionInv, RoundTwo
  <2>2. \A m \in Taken(reports, earlier) : m < Cluster
    BY ClusterAssumption DEF Taken, Unserved, Mods
  <2>3. DOMAIN decided = DOMAIN Decide(reports, earlier)
    BY <2>1, <2>2, DecideValues DEF ExactInv, DecidedSoFar, Reached
  <2>4. \A m \in DOMAIN decided : decided[m] = Decide(reports, earlier)[m]
    BY DEF ExactInv, DecidedSoFar
  <2>5. decided = [m \in DOMAIN decided |-> decided[m]]
    BY DEF SelectionInv, SelectionTypeOK, IsServerStateMap
  <2>6. \E f : Decide(reports, earlier) = f /\ f = [m \in DOMAIN f |-> f[m]]
    <3>1. PICK f : f = Decide(reports, earlier)
      OBVIOUS
    <3>2. f \in [DOMAIN f -> Seq(Report)]
      BY <3>1, DecideTyped DEF SelectionInv, SelectionTypeOK, IsServerStateMap
    <3>3. QED
      BY <3>1, <3>2
  <2>7. QED
    BY <2>3, <2>4, <2>5, <2>6
<1>4. QED
  BY <1>1, <1>2, <1>3, PTL DEF SelectionSpec

(***************************************************************************)
(* PART THREE.  The controller.                                            *)
(***************************************************************************)

(* A sequence without repetitions.                                         *)
Once(q) == \A i, j \in DOMAIN q : q[i] = q[j] => i = j

(* A decision that makes sense, with no server twice in a mod.             *)
Sensible(f) ==
  /\ IsServerStateMap(f) /\ WellFormed(f)
  /\ \A m \in DOMAIN f : OneEach(f[m])

ServersOK ==
  /\ life \in [Servers -> {"new", "up", "gone"}]
  /\ status \in [Servers -> {0, 1}] /\ newSet \in [Servers -> BOOLEAN]

TopicOK == topic \in 0 .. MaxAge \cup {None}

SubscribersOK == subscribers \in Seq(Servers) /\ Once(subscribers)

CallsOK ==
  /\ stamp \in [Callers -> 0 .. (MaxAge - 1) \cup {None}]
  /\ pc \in [Callers -> {"idle", "get", "backup", "judge", "publish", "fetched"}]
  /\ \A c \in Callers : stamp[c] # None <=> pc[c] = "get"

ReceivesOK ==
  receives \in [Callers -> Seq(Report)] /\ \A c \in Callers : OneEach(receives[c])

MapsOK ==
  /\ Sensible(clusterState) /\ Sensible(clusterStateOld) /\ Sensible(sent)
  /\ DOMAIN tmpOld = Callers /\ DOMAIN tmpNew = Callers
  /\ \A c \in Callers : Sensible(tmpOld[c]) /\ Sensible(tmpNew[c])
  /\ fatalStatus \in BOOLEAN

TimersOK ==
  /\ nap \in 0 .. (IntervalFetch + 1)
  /\ sinceFetch \in 0 .. IntervalFetch /\ sinceNotify \in 0 .. IntervalNotify

IInv ==
  /\ ServersOK /\ TopicOK /\ SubscribersOK /\ CallsOK
  /\ ReceivesOK /\ MapsOK /\ TimersOK

-----------------------------------------------------------------------------
(* The invariant says what the runs check.                                 *)
LEMMA InvImplies == IInv => TypeOK /\ DecisionsWellFormed
<1> SUFFICES ASSUME IInv PROVE TypeOK /\ DecisionsWellFormed
  OBVIOUS
<1>1. \A f \in States : Sensible(f)
  BY DEF IInv, MapsOK, States
<1>2. \A f \in States : IsServerStateMap(f)
  BY <1>1 DEF Sensible
<1>3. DecisionsWellFormed
  BY <1>1 DEF Sensible, DecisionsWellFormed
<1>4. TypeOK
  BY <1>2 DEF IInv, ServersOK, TopicOK, SubscribersOK, CallsOK, ReceivesOK, MapsOK, TimersOK,
              TypeOK
<1>5. QED
  BY <1>3, <1>4

(* Parts of the invariant whose variables do not change.                   *)
LEMMA ServersKept == ServersOK /\ UNCHANGED serverVars => ServersOK'
BY DEF ServersOK, serverVars

LEMMA ObserverKept ==
  TopicOK /\ SubscribersOK /\ UNCHANGED <<topic, subscribers>> => TopicOK' /\ SubscribersOK'
BY DEF TopicOK, SubscribersOK

LEMMA CallsKept == CallsOK /\ UNCHANGED <<stamp, pc>> => CallsOK'
BY DEF CallsOK

LEMMA ReceivesKept == ReceivesOK /\ UNCHANGED receives => ReceivesOK'
BY DEF ReceivesOK

LEMMA MapsKept == MapsOK /\ UNCHANGED <<decisionVars, sent, tmpOld, tmpNew>> => MapsOK'
BY DEF MapsOK, decisionVars

LEMMA TimersKept == TimersOK /\ UNCHANGED timers => TimersOK'
BY DEF TimersOK, timers

LEMMA EmptySensible == Sensible(Empty)
BY DEF Sensible, Empty, IsServerStateMap, WellFormed

LEMMA InvInit == Init => IInv
<1> SUFFICES ASSUME Init PROVE IInv
  OBVIOUS
<1> USE DEF Init, ControllerInit, ObserverInit
<1>1. ServersOK
  BY DEF ServersOK
<1>2. TopicOK /\ SubscribersOK
  BY DEF TopicOK, SubscribersOK, Once
<1>3. CallsOK
  BY DEF CallsOK
<1>4. ReceivesOK
  BY DEF ReceivesOK, OneEach
<1>5. MapsOK
  BY EmptySensible DEF MapsOK
<1>6. TimersOK
  <2>1. /\ IntervalFetch \in Nat /\ IntervalNotify \in Nat
        /\ nap = IntervalFetch + 1 /\ sinceFetch = 0 /\ sinceNotify = 0
    BY ControllerAssumption
  <2>2. QED
    BY <2>1 DEF TimersOK
<1>7. QED
  BY <1>1, <1>2, <1>3, <1>4, <1>5, <1>6 DEF IInv

-----------------------------------------------------------------------------
(* The servers.                                                            *)
LEMMA InvServer ==
  ASSUME IInv, NEW s \in Servers, initialize(s) \/ setStatus(s) \/ Crash(s)
  PROVE  IInv'
<1>1. ServersOK'
  BY DEF IInv, ServersOK, initialize, setStatus, Crash
<1>2. UNCHANGED <<observerVars, decisionVars, sent, callVars, timers>>
  BY DEF initialize, setStatus, Crash
<1>3. QED
  BY <1>1, <1>2, ObserverKept, CallsKept, ReceivesKept, MapsKept, TimersKept
     DEF IInv, observerVars, callVars

(* A subscriber comes to the end of the sequence, if it is not in it.      *)
LEMMA InvResubscribe ==
  ASSUME IInv, NEW s \in Servers, Resubscribe(s)
  PROVE  IInv'
<1>1. UNCHANGED <<serverVars, decisionVars, sent, callVars, timers, stamp>>
  BY DEF Resubscribe, subscribe
<1>2. TopicOK'
  BY ObserverAssumption DEF IInv, TopicOK, Resubscribe, subscribe
<1>3. SubscribersOK'
  <2>1. subscribers \in Seq(Servers) /\ Once(subscribers)
    BY DEF IInv, SubscribersOK
  <2>2. CASE s \in ToSet(subscribers)
    BY <2>1, <2>2 DEF Resubscribe, subscribe, SubscribersOK
  <2>3. CASE s \notin ToSet(subscribers)
    <3>1. subscribers' = Append(subscribers, s)
      BY <2>3 DEF Resubscribe, subscribe
    <3>2. \A i \in 1 .. Len(subscribers) : subscribers[i] # s
      BY <2>1, <2>3 DEF ToSet
    <3>3. /\ subscribers' \in Seq(Servers) /\ DOMAIN subscribers' = 1 .. (Len(subscribers) + 1)
          /\ \A i \in 1 .. Len(subscribers) : subscribers'[i] = subscribers[i]
          /\ subscribers'[Len(subscribers) + 1] = s
      BY <2>1, <3>1
    <3>4. \A i, j \in 1 .. Len(subscribers) : subscribers[i] = subscribers[j] => i = j
      BY <2>1 DEF Once
    <3>5. Once(subscribers')
      <4> SUFFICES ASSUME NEW i \in 1 .. (Len(subscribers) + 1), NEW j \in 1 .. (Len(subscribers) + 1),
                          subscribers'[i] = subscribers'[j]
                   PROVE  i = j
        BY <3>3 DEF Once
      <4>1. Len(subscribers) \in Nat
        BY <2>1
      <4>2. QED
        BY <3>2, <3>3, <3>4, <4>1
    <3>6. QED
      BY <3>3, <3>5 DEF SubscribersOK
  <2>4. QED
    BY <2>2, <2>3
<1>4. QED
  BY <1>1, <1>2, <1>3, ServersKept, CallsKept, ReceivesKept, MapsKept, TimersKept
     DEF IInv, callVars

-----------------------------------------------------------------------------
(* Choosing some of the elements of a sequence without repetitions.        *)
LEMMA OnlyFacts ==
  ASSUME NEW T, NEW q \in Seq(T), Once(q), NEW S
  PROVE  /\ Only(q, S) \in Seq(T) /\ Once(Only(q, S))
         /\ \A k \in DOMAIN Only(q, S) : Only(q, S)[k] \in S \cap T
<1> DEFINE P == {i \in DOMAIN q : q[i] \in S}
<1>1. P \in SUBSET DOMAIN q /\ Only(q, S) = Subsequence(q, P)
  BY DEF Only
<1>2. \A i, j \in P : q[i] = q[j] => i = j
  BY DEF Once
<1>3. \A i \in P : q[i] \in S
  OBVIOUS
<1> HIDE DEF P
<1>4. Only(q, S) \in Seq(T) /\ DOMAIN Only(q, S) = 1 .. Cardinality(P)
  BY <1>1, SubsequenceFacts
<1>5. Once(Only(q, S))
  BY <1>1, <1>2, SubsequenceDistinct DEF Once
<1>6. \A k \in DOMAIN Only(q, S) : Only(q, S)[k] \in S
  BY <1>1, <1>3, <1>4, SubsequenceFacts
<1>7. \A k \in DOMAIN Only(q, S) : Only(q, S)[k] \in T
  <2>1. \A o \in Seq(T) : \A k \in DOMAIN o : o[k] \in T
    OBVIOUS
  <2>2. QED
    BY <1>4, <2>1
<1>8. QED
  BY <1>4, <1>5, <1>6, <1>7

(* The answers of the servers asked, those of the second round after those *)
(* of the first: nobody answers twice.                                     *)
LEMMA ConcatOnce ==
  ASSUME NEW T, NEW q \in Seq(T), NEW r \in Seq(T), Once(q), Once(r),
         \A i \in DOMAIN q : \A j \in DOMAIN r : q[i] # r[j]
  PROVE  q \o r \in Seq(T) /\ Once(q \o r)
<1>1. q \o r \in Seq(T) /\ Len(q) \in Nat /\ Len(r) \in Nat
      /\ DOMAIN q = 1 .. Len(q) /\ DOMAIN r = 1 .. Len(r)
  OBVIOUS
<1>2. /\ DOMAIN (q \o r) = 1 .. (Len(q) + Len(r))
      /\ \A i \in 1 .. (Len(q) + Len(r)) :
           (q \o r)[i] = IF i <= Len(q) THEN q[i] ELSE r[i - Len(q)]
  OBVIOUS
<1>3. ASSUME NEW i \in 1 .. (Len(q) + Len(r)), NEW j \in 1 .. (Len(q) + Len(r)),
             (q \o r)[i] = (q \o r)[j]
      PROVE  i = j
  <2>1. CASE i <= Len(q) /\ j <= Len(q)
    <3>1. i \in DOMAIN q /\ j \in DOMAIN q /\ q[i] = q[j]
      BY <1>1, <1>2, <1>3, <2>1
    <3>2. QED
      BY <3>1 DEF Once
  <2>2. CASE i > Len(q) /\ j > Len(q)
    <3>1. /\ i - Len(q) \in DOMAIN r /\ j - Len(q) \in DOMAIN r
          /\ r[i - Len(q)] = r[j - Len(q)]
      BY <1>1, <1>2, <1>3, <2>2
    <3>2. i - Len(q) = j - Len(q)
      BY <3>1 DEF Once
    <3>3. QED
      BY <1>1, <3>2
  <2>3. CASE i <= Len(q) /\ j > Len(q)
    <3>1. i \in DOMAIN q /\ j - Len(q) \in DOMAIN r /\ q[i] = r[j - Len(q)]
      BY <1>1, <1>2, <1>3, <2>3
    <3>2. QED
      BY <3>1
  <2>4. CASE i > Len(q) /\ j <= Len(q)
    <3>1. j \in DOMAIN q /\ i - Len(q) \in DOMAIN r /\ q[j] = r[i - Len(q)]
      BY <1>1, <1>2, <1>3, <2>4
    <3>2. QED
      BY <3>1
  <2>5. QED
    BY <1>1, <2>1, <2>2, <2>3, <2>4
<1>4. QED
  BY <1>1, <1>2, <1>3 DEF Once

-----------------------------------------------------------------------------
(* FetchServerState.                                                       *)
LEMMA InvBeginFetch ==
  ASSUME IInv, NEW c \in Callers, pc[c] = "idle", BeginFetch(c),
         UNCHANGED <<serverVars, decisionVars, sent, tmpOld, tmpNew, timers>>
  PROVE  IInv'
<1>1. TopicOK' /\ SubscribersOK'
  <2>1. UNCHANGED <<topic, subscribers>>
    BY DEF BeginFetch, StampTopic, observerVars
  <2>2. QED
    BY <2>1, ObserverKept DEF IInv
<1>2. CallsOK'
  <2>1. CASE StampTopic(c) /\ Goto(c, "get")
    <3>1. 0 # None /\ 0 \in 0 .. (MaxAge - 1) \cup {None}
      BY ObserverAssumption
    <3>2. /\ stamp' = [stamp EXCEPT ![c] = 0]
          /\ pc' = [pc EXCEPT ![c] = "get"]
      BY <2>1 DEF StampTopic, Goto
    <3>3. QED
      BY <3>1, <3>2 DEF IInv, CallsOK
  <2>2. CASE Goto(c, "backup") /\ UNCHANGED observerVars
    <3>1. pc' = [pc EXCEPT ![c] = "backup"] /\ stamp' = stamp
      BY <2>2 DEF Goto, observerVars
    <3>2. QED
      BY <3>1 DEF IInv, CallsOK
  <2>3. QED
    BY <2>1, <2>2 DEF BeginFetch
<1>3. ReceivesOK'
  <2>1. \/ UNCHANGED receives
        \/ receives' = [receives EXCEPT ![c] = <<>>]
    BY DEF BeginFetch
  <2>2. OneEach(<<>>) /\ <<>> \in Seq(Report)
    BY DEF OneEach
  <2>3. QED
    BY <2>1, <2>2, ReceivesKept DEF IInv, ReceivesOK
<1>4. QED
  BY <1>1, <1>2, <1>3, ServersKept, MapsKept, TimersKept DEF IInv

LEMMA InvGet ==
  ASSUME IInv, NEW c \in Callers, get(c)
  PROVE  IInv'
<1>1. pc[c] = "get" /\ stamp[c] # None /\ stamp[c] \in 0 .. (MaxAge - 1)
  BY DEF IInv, CallsOK, get
<1>2. TopicOK'
  <2>1. topic' = stamp[c]
    BY DEF get, StoreTopic
  <2>2. stamp[c] \in 0 .. MaxAge
    BY <1>1, ObserverAssumption
  <2>3. QED
    BY <2>1, <2>2 DEF TopicOK
<1>3. CallsOK'
  <2>1. /\ stamp' = [stamp EXCEPT ![c] = None]
        /\ pc' = [pc EXCEPT ![c] = "backup"]
    BY DEF get, StoreTopic, Goto
  <2>2. QED
    BY <2>1 DEF IInv, CallsOK
<1>4. subscribers \in Seq(Servers) /\ Once(subscribers)
  BY DEF IInv, SubscribersOK
<1>5. /\ life \in [Servers -> {"new", "up", "gone"}]
      /\ status \in [Servers -> {0, 1}] /\ newSet \in [Servers -> BOOLEAN]
  BY DEF IInv, ServersOK
<1>6. receives \in [Callers -> Seq(Report)] /\ \A d \in Callers : OneEach(receives[d])
  BY DEF IInv, ReceivesOK
<1>7. ASSUME Newer(c)
      PROVE  ServersOK' /\ SubscribersOK' /\ ReceivesOK'
  <2> DEFINE asked == ToSet(subscribers)
             up    == {s \in asked : life[s] = "up"}
  <2>1. PICK lost \in SUBSET asked : \E late \in SUBSET (up \ lost) :
          /\ newSet' = [s \in Servers |-> newSet[s] /\ s \notin up]
          /\ LET first  == Only(subscribers, asked \ (lost \cup late))
                 second == Only(subscribers, late)
                 order  == first \o second
             IN receives' = [receives EXCEPT ![c] = [i \in DOMAIN order |-> opera(order[i])]]
          /\ subscribers' = doUnsubscribe(lost)
    BY <1>7 DEF get
  <2>2. PICK late \in SUBSET (up \ lost) :
          /\ newSet' = [s \in Servers |-> newSet[s] /\ s \notin up]
          /\ LET first  == Only(subscribers, asked \ (lost \cup late))
                 second == Only(subscribers, late)
                 order  == first \o second
             IN receives' = [receives EXCEPT ![c] = [i \in DOMAIN order |-> opera(order[i])]]
          /\ subscribers' = doUnsubscribe(lost)
    BY <2>1
  <2>3. SubscribersOK'
    <3>1. subscribers' = Only(subscribers, asked \ lost)
      BY <2>2 DEF doUnsubscribe
    <3>2. Only(subscribers, asked \ lost) \in Seq(Servers) /\ Once(Only(subscribers, asked \ lost))
      BY <1>4, OnlyFacts
    <3>3. QED
      BY <3>1, <3>2 DEF SubscribersOK
  <2>4. ServersOK'
    <3>1. newSet' \in [Servers -> BOOLEAN]
      BY <2>2, <1>5
    <3>2. UNCHANGED <<life, status>>
      BY DEF get
    <3>3. QED
      BY <1>5, <3>1, <3>2 DEF ServersOK
  <2>5. ReceivesOK'
    <3>1. PICK first : first = Only(subscribers, asked \ (lost \cup late))
      OBVIOUS
    <3>2. PICK second : second = Only(subscribers, late)
      OBVIOUS
    <3>3. /\ first \in Seq(Servers) /\ Once(first)
          /\ \A i \in DOMAIN first : first[i] \notin late
      BY <1>4, <3>1, OnlyFacts
    <3>4. /\ second \in Seq(Servers) /\ Once(second)
          /\ \A i \in DOMAIN second : second[i] \in late
      BY <1>4, <3>2, OnlyFacts
    <3>5. PICK order : order = first \o second
      OBVIOUS
    <3>6. order \in Seq(Servers) /\ Once(order)
      BY <3>3, <3>4, <3>5, ConcatOnce
    <3>7. PICK q : q = [i \in DOMAIN order |-> opera(order[i])]
      OBVIOUS
    <3>8. receives' = [receives EXCEPT ![c] = q]
      BY <2>2, <3>1, <3>2, <3>5, <3>7
    <3>9. \A s \in Servers : opera(s) \in Report /\ opera(s).prx = s
      BY <1>5, <2>4, ControllerAssumption DEF ServersOK, opera, Report
    <3>10. DOMAIN order = 1 .. Len(order) /\ Len(order) \in Nat
           /\ \A i \in DOMAIN order : order[i] \in Servers
      BY <3>6
    <3>11. q \in Seq(Report)
      <4>1. q \in [1 .. Len(order) -> Report]
        BY <3>7, <3>9, <3>10
      <4>2. QED
        BY <3>10, <4>1
    <3>12. OneEach(q)
      BY <3>6, <3>7, <3>9, <3>10 DEF OneEach, Once
    <3>13. QED
      BY <1>6, <3>8, <3>11, <3>12 DEF ReceivesOK
  <2>6. QED
    BY <2>3, <2>4, <2>5
<1>8. ASSUME ~Newer(c)
      PROVE  ServersOK' /\ SubscribersOK' /\ ReceivesOK'
  <2>1. receives' = [receives EXCEPT ![c] = <<>>] /\ UNCHANGED <<subscribers, newSet, life, status>>
    BY <1>8 DEF get
  <2>2. OneEach(<<>>) /\ <<>> \in Seq(Report)
    BY DEF OneEach
  <2>3. ReceivesOK'
    BY <1>6, <2>1, <2>2 DEF ReceivesOK
  <2>4. SubscribersOK' /\ ServersOK'
    BY <1>4, <1>5, <2>1 DEF SubscribersOK, ServersOK
  <2>5. QED
    BY <2>3, <2>4
<1>9. UNCHANGED <<decisionVars, sent, tmpOld, tmpNew, timers>>
  BY DEF get
<1>10. QED
  BY <1>2, <1>3, <1>7, <1>8, <1>9, MapsKept, TimersKept DEF IInv

LEMMA InvBackupOld ==
  ASSUME IInv, NEW c \in Callers, BackupOld(c)
  PROVE  IInv'
<1>1. MapsOK'
  <2>1. /\ clusterStateOld' = clusterState
        /\ tmpOld' = [tmpOld EXCEPT ![c] = clusterStateOld]
        /\ UNCHANGED <<clusterState, fatalStatus, sent, tmpNew>>
    BY DEF BackupOld
  <2>2. QED
    BY <2>1 DEF IInv, MapsOK
<1>2. CallsOK'
  <2>1. pc[c] = "backup" /\ pc' = [pc EXCEPT ![c] = "judge"] /\ stamp' = stamp
    BY DEF BackupOld, Goto, observerVars
  <2>2. QED
    BY <2>1 DEF IInv, CallsOK
<1>3. UNCHANGED <<serverVars, topic, subscribers, receives, timers>>
  BY DEF BackupOld, observerVars
<1>4. QED
  BY <1>1, <1>2, <1>3, ServersKept, ObserverKept, ReceivesKept, TimersKept DEF IInv

LEMMA InvJudge ==
  ASSUME IInv, NEW c \in Callers, JudgeCluster(c)
  PROVE  IInv'
<1>1. receives[c] \in Seq(Report) /\ OneEach(receives[c]) /\ Sensible(tmpOld[c])
  BY DEF IInv, ReceivesOK, MapsOK
<1>2. Sensible(Decide(receives[c], tmpOld[c]))
  <2>1. WellFormed(tmpOld[c])
    BY <1>1 DEF Sensible
  <2>2. QED
    BY <1>1, <2>1, DecideTyped, DecideWellFormed, DecideOneEach DEF Sensible
<1>3. MapsOK'
  <2>1. /\ tmpNew' = [tmpNew EXCEPT ![c] = Decide(receives[c], tmpOld[c])]
        /\ UNCHANGED <<clusterState, clusterStateOld, sent, tmpOld>>
    BY DEF JudgeCluster
  <2>2. fatalStatus' \in BOOLEAN
    BY DEF JudgeCluster, IInv, MapsOK
  <2>3. QED
    BY <1>2, <2>1, <2>2 DEF IInv, MapsOK
<1>4. CallsOK'
  <2>1. pc[c] = "judge" /\ pc' = [pc EXCEPT ![c] = "publish"] /\ stamp' = stamp
    BY DEF JudgeCluster, Goto, observerVars
  <2>2. QED
    BY <2>1 DEF IInv, CallsOK
<1>5. UNCHANGED <<serverVars, topic, subscribers, receives, timers>>
  BY DEF JudgeCluster, observerVars
<1>6. QED
  BY <1>3, <1>4, <1>5, ServersKept, ObserverKept, ReceivesKept, TimersKept DEF IInv

LEMMA InvPublish ==
  ASSUME IInv, NEW c \in Callers, Publish(c)
  PROVE  IInv'
<1>1. MapsOK'
  <2>1. /\ clusterState' = tmpNew[c]
        /\ tmpOld' = [tmpOld EXCEPT ![c] = Empty]
        /\ tmpNew' = [tmpNew EXCEPT ![c] = Empty]
        /\ UNCHANGED <<clusterStateOld, fatalStatus, sent>>
    BY DEF Publish
  <2>2. QED
    BY <2>1, EmptySensible DEF IInv, MapsOK
<1>2. CallsOK'
  <2>1. PICK there \in {"fetched", "idle"} : pc' = [pc EXCEPT ![c] = there]
    BY DEF Publish, Goto
  <2>2. pc[c] = "publish" /\ stamp' = stamp
    BY DEF Publish, observerVars
  <2>3. QED
    BY <2>1, <2>2 DEF IInv, CallsOK
<1>3. ReceivesOK'
  <2>1. receives' = [receives EXCEPT ![c] = <<>>]
    BY DEF Publish
  <2>2. OneEach(<<>>) /\ <<>> \in Seq(Report)
    BY DEF OneEach
  <2>3. QED
    BY <2>1, <2>2 DEF IInv, ReceivesOK
<1>4. UNCHANGED <<serverVars, topic, subscribers, timers>>
  BY DEF Publish, observerVars
<1>5. QED
  BY <1>1, <1>2, <1>3, <1>4, ServersKept, ObserverKept, TimersKept DEF IInv

-----------------------------------------------------------------------------
(* The controller's thread, the other callers and the clock.               *)
LEMMA InvWakeNotDue == IInv /\ WakeNotDue => IInv'
<1> SUFFICES ASSUME IInv, WakeNotDue PROVE IInv'
  OBVIOUS
<1>1. IntervalFetch \in Nat /\ IntervalNotify \in Nat
  BY ControllerAssumption
<1>2. MapsOK'
  <2>1. /\ UNCHANGED <<clusterState, clusterStateOld, fatalStatus, tmpOld, tmpNew>>
        /\ sent' \in {sent, clusterState}
    BY DEF WakeNotDue, NotifyClusterState, decisionVars, callVars
  <2>2. QED
    BY <2>1 DEF IInv, MapsOK
<1>3. TimersOK'
  <2>1. nap' = 1 /\ sinceFetch' = sinceFetch /\ sinceNotify' \in {0, sinceNotify}
    BY DEF WakeNotDue, NotifyClusterState
  <2>2. QED
    BY <1>1, <2>1 DEF IInv, TimersOK
<1>4. UNCHANGED <<serverVars, topic, subscribers, stamp, pc, receives>>
  BY DEF WakeNotDue, observerVars, callVars
<1>5. QED
  BY <1>2, <1>3, <1>4, ServersKept, ObserverKept, CallsKept, ReceivesKept DEF IInv

LEMMA InvFetched == IInv /\ Fetched => IInv'
<1> SUFFICES ASSUME IInv, Fetched PROVE IInv'
  OBVIOUS
<1>1. IntervalFetch \in Nat /\ IntervalNotify \in Nat /\ Run \in Callers
  BY ControllerAssumption
<1>2. MapsOK'
  <2>1. /\ UNCHANGED <<clusterState, clusterStateOld, fatalStatus, tmpOld, tmpNew>>
        /\ sent' \in {sent, clusterState}
    BY DEF Fetched, NotifyClusterState, decisionVars
  <2>2. QED
    BY <2>1 DEF IInv, MapsOK
<1>3. TimersOK'
  <2>1. nap' = 1 /\ sinceFetch' = 0 /\ sinceNotify' \in {0, sinceNotify}
    BY DEF Fetched, NotifyClusterState
  <2>2. QED
    BY <1>1, <2>1 DEF IInv, TimersOK
<1>4. CallsOK'
  <2>1. pc[Run] = "fetched" /\ pc' = [pc EXCEPT ![Run] = "idle"] /\ stamp' = stamp
    BY DEF Fetched, Goto, observerVars
  <2>2. QED
    BY <1>1, <2>1 DEF IInv, CallsOK
<1>5. UNCHANGED <<serverVars, topic, subscribers, receives>>
  BY DEF Fetched, observerVars
<1>6. QED
  BY <1>2, <1>3, <1>4, <1>5, ServersKept, ObserverKept, ReceivesKept DEF IInv

LEMMA InvRemoteNotify ==
  ASSUME IInv, NEW c \in Callers, RemoteNotify(c)
  PROVE  IInv'
<1>1. sent' = clusterState /\ UNCHANGED <<serverVars, observerVars, decisionVars, callVars, timers>>
  BY DEF RemoteNotify
<1>2. MapsOK'
  BY <1>1 DEF IInv, MapsOK, decisionVars, callVars
<1>3. QED
  BY <1>1, <1>2, ServersKept, ObserverKept, CallsKept, ReceivesKept, TimersKept
     DEF IInv, observerVars, callVars

(* A call takes less than MaxAge seconds, so that its time stays exact.    *)
LEMMA InvTick == IInv /\ Tick => IInv'
<1> SUFFICES ASSUME IInv, Tick PROVE IInv'
  OBVIOUS
<1>1. MaxAge \in Nat /\ MaxAge > 1 /\ None \notin 0 .. MaxAge
  BY ObserverAssumption
<1>2. TopicOK'
  <2>1. topic' = Older(topic) /\ topic \in 0 .. MaxAge \cup {None}
    BY DEF Tick, ObserverTick, IInv, TopicOK
  <2>2. Older(topic) \in 0 .. MaxAge \cup {None}
    BY <1>1, <2>1 DEF Older
  <2>3. QED
    BY <2>1, <2>2 DEF TopicOK
<1>3. SubscribersOK'
  BY DEF Tick, ObserverTick, IInv, SubscribersOK
<1>4. CallsOK'
  <2>1. /\ stamp \in [Callers -> 0 .. (MaxAge - 1) \cup {None}]
        /\ \A c \in Callers : stamp[c] # None => stamp[c] + 1 < MaxAge
        /\ stamp' = [c \in Callers |-> Older(stamp[c])]
    BY DEF Tick, ObserverTick, IInv, CallsOK
  <2>2. ASSUME NEW c \in Callers
        PROVE  /\ Older(stamp[c]) \in 0 .. (MaxAge - 1) \cup {None}
               /\ Older(stamp[c]) # None <=> stamp[c] # None
    <3>1. CASE stamp[c] = None
      BY <3>1 DEF Older
    <3>2. CASE stamp[c] # None
      <4>1. stamp[c] \in 0 .. (MaxAge - 1) /\ stamp[c] + 1 < MaxAge
        BY <2>1, <3>2
      <4>2. Older(stamp[c]) = stamp[c] + 1
        BY <1>1, <3>2, <4>1 DEF Older
      <4>3. stamp[c] + 1 \in 0 .. (MaxAge - 1) /\ stamp[c] + 1 \in 0 .. MaxAge
        BY <1>1, <4>1
      <4>4. QED
        BY <1>1, <3>2, <4>2, <4>3
    <3>3. QED
      BY <3>1, <3>2
  <2>3. pc' = pc
    BY DEF Tick, callVars
  <2>4. QED
    BY <2>1, <2>2, <2>3 DEF IInv, CallsOK
<1>5. TimersOK'
  <2>1. /\ IntervalFetch \in Nat /\ IntervalNotify \in Nat
        /\ nap \in 0 .. (IntervalFetch + 1)
        /\ sinceFetch \in 0 .. IntervalFetch /\ sinceNotify \in 0 .. IntervalNotify
    BY ControllerAssumption DEF IInv, TimersOK
  <2>2. nap' \in 0 .. (IntervalFetch + 1)
    BY <2>1 DEF Tick
  <2>3. sinceFetch' \in 0 .. IntervalFetch
    BY <2>1 DEF Tick, FetchDue
  <2>4. sinceNotify' \in 0 .. IntervalNotify
    BY <2>1 DEF Tick, NotifyDue
  <2>5. QED
    BY <2>2, <2>3, <2>4 DEF TimersOK
<1>6. UNCHANGED <<serverVars, decisionVars, sent, callVars>>
  BY DEF Tick
<1>7. QED
  BY <1>2, <1>3, <1>4, <1>5, <1>6, ServersKept, ReceivesKept, MapsKept DEF IInv, callVars

(* A restart of the controller is a new beginning, the servers excepted.   *)
LEMMA InvRestart == IInv /\ Restart => IInv'
<1> SUFFICES ASSUME IInv, Restart PROVE IInv'
  OBVIOUS
<1>1. /\ topic' = None /\ subscribers' = <<>> /\ stamp' = [c \in Callers |-> None]
      /\ clusterState' = Empty /\ clusterStateOld' = Empty /\ fatalStatus' = FALSE
      /\ sent' = Empty
      /\ pc' = [c \in Callers |-> "idle"]
      /\ receives' = [c \in Callers |-> <<>>]
      /\ tmpOld' = [c \in Callers |-> Empty]
      /\ tmpNew' = [c \in Callers |-> Empty]
      /\ nap' = IntervalFetch + 1 /\ sinceFetch' = 0 /\ sinceNotify' = 0
      /\ UNCHANGED serverVars
  BY DEF Restart
<1>2. TopicOK' /\ SubscribersOK'
  BY <1>1 DEF TopicOK, SubscribersOK, Once
<1>3. CallsOK'
  BY <1>1 DEF CallsOK
<1>4. ReceivesOK'
  BY <1>1 DEF ReceivesOK, OneEach
<1>5. MapsOK'
  BY <1>1, EmptySensible DEF MapsOK
<1>6. TimersOK'
  <2>1. IntervalFetch \in Nat /\ IntervalNotify \in Nat
    BY ControllerAssumption
  <2>2. QED
    BY <1>1, <2>1 DEF TimersOK
<1>7. QED
  BY <1>1, <1>2, <1>3, <1>4, <1>5, <1>6, ServersKept DEF IInv

LEMMA InvFetchStep ==
  ASSUME IInv, NEW c \in Callers, FetchStep(c)
  PROVE  IInv'
BY InvGet, InvBackupOld, InvJudge, InvPublish DEF FetchStep

LEMMA InvStep == IInv /\ [Next]_vars => IInv'
<1> SUFFICES ASSUME IInv, [Next]_vars PROVE IInv'
  OBVIOUS
<1>1. Run \in Callers
  BY ControllerAssumption
<1>2. CASE \E s \in Servers : initialize(s) \/ setStatus(s) \/ Resubscribe(s) \/ Crash(s)
  BY <1>2, InvServer, InvResubscribe
<1>3. CASE RunStep
  <2>1. CASE WakeAndFetch
    BY <1>1, <2>1, InvBeginFetch DEF WakeAndFetch
  <2>2. QED
    BY <1>1, <1>3, <2>1, InvWakeNotDue, InvFetched, InvFetchStep DEF RunStep
<1>4. CASE \E c \in Callers \ {Run} : RemoteFetch(c) \/ RemoteNotify(c) \/ FetchStep(c)
  <2>1. PICK c \in Callers \ {Run} : RemoteFetch(c) \/ RemoteNotify(c) \/ FetchStep(c)
    BY <1>4
  <2>2. CASE RemoteFetch(c)
    BY <2>2, InvBeginFetch DEF RemoteFetch
  <2>3. QED
    BY <2>1, <2>2, InvRemoteNotify, InvFetchStep
<1>5. CASE Tick
  BY <1>5, InvTick
<1>6. CASE Restart
  BY <1>6, InvRestart
<1>7. CASE UNCHANGED vars
  BY <1>7, ServersKept, ObserverKept, CallsKept, ReceivesKept, MapsKept, TimersKept
     DEF IInv, vars, observerVars, callVars
<1>8. QED
  BY <1>2, <1>3, <1>4, <1>5, <1>6, <1>7 DEF Next

(* The controller's state always has its type: a fetch whose answers come  *)
(* back carries a time exactly while it is between fetch and get, every    *)
(* map names mods of the cluster and reports of servers only, and no       *)
(* counter of seconds leaves its range.                                    *)
THEOREM TypeCorrect == Spec => []TypeOK
<1>1. Spec => []IInv
  BY InvInit, InvStep, PTL DEF Spec
<1>2. QED
  BY <1>1, InvImplies, PTL

(* Every decision ControllerManagerI holds, is computing or has sent makes *)
(* sense, although _clusterState, _clusterStateOld and the locals of       *)
(* concurrent FetchServerState calls are swapped without a lock: a mod has *)
(* its own servers or a single backup, and no backup serves two mods.      *)
THEOREM DecisionsMakeSense == Spec => []DecisionsWellFormed
<1>1. Spec => []IInv
  BY InvInit, InvStep, PTL DEF Spec
<1>2. QED
  BY <1>1, InvImplies, PTL

-----------------------------------------------------------------------------
(***************************************************************************)
(* The controller's thread alone.  ClusterChanged compares the decision    *)
(* with the one before the fetch: their numbers of mods, then for each mod *)
(* their lengths, then whether the new servers are among the old ones.     *)
(***************************************************************************)

(* A sequence without repetitions whose elements all are in another one of *)
(* the same length has all of them.                                        *)
LEMMA SameElements ==
  ASSUME NEW T, NEW q \in Seq(T), NEW r \in Seq(T), Once(q),
         Len(q) = Len(r), ToSet(q) \subseteq ToSet(r)
  PROVE  ToSet(q) = ToSet(r)
<1>1. PICK n \in Nat : DOMAIN q = 1 .. n /\ DOMAIN r = 1 .. n
  OBVIOUS
<1>2. IsFiniteSet(1 .. n) /\ Cardinality(1 .. n) = n
  BY <1>1, FS_Interval
<1>3. r \in Surjection(1 .. n, ToSet(r))
  <2>1. r \in [1 .. n -> ToSet(r)]
    BY <1>1 DEF ToSet
  <2>2. \A t \in ToSet(r) : \E i \in 1 .. n : r[i] = t
    BY <1>1 DEF ToSet
  <2>3. QED
    BY <2>1, <2>2 DEF Surjection
<1>4. q \in Injection(1 .. n, ToSet(r))
  <2>1. q \in [1 .. n -> ToSet(r)]
    BY <1>1 DEF ToSet
  <2>2. IsInjective(q)
    BY DEF IsInjective, Once
  <2>3. QED
    BY <2>1, <2>2 DEF Injection
<1>5. IsFiniteSet(ToSet(r)) /\ Cardinality(ToSet(r)) <= n
  BY <1>2, <1>3, FS_Surjection
<1>6. n <= Cardinality(ToSet(r)) /\ Cardinality(ToSet(r)) \in Nat
  BY <1>2, <1>4, <1>5, FS_Injection, FS_CardinalityType
<1>7. Cardinality(1 .. n) = Cardinality(ToSet(r))
  BY <1>1, <1>2, <1>5, <1>6
<1>8. q \in Surjection(1 .. n, ToSet(r))
  BY <1>4, <1>5, <1>7, FS_Injection
<1>9. ToSet(r) \subseteq ToSet(q)
  BY <1>1, <1>8 DEF Surjection, ToSet
<1>10. QED
  BY <1>9

(* ClusterChanged misses nothing a client could see.                       *)
LEMMA UnchangedAlike ==
  ASSUME Sensible(clusterState), Sensible(clusterStateOld), ~ClusterChanged
  PROVE  Alike(clusterStateOld, clusterState)
<1>1. /\ DOMAIN clusterState \subseteq Mods /\ DOMAIN clusterStateOld \subseteq Mods
      /\ clusterState \in [DOMAIN clusterState -> Seq(Report)]
      /\ clusterStateOld \in [DOMAIN clusterStateOld -> Seq(Report)]
      /\ \A m \in DOMAIN clusterState : OneEach(clusterState[m])
  BY DEF Sensible, IsServerStateMap
<1>2. /\ Cardinality(DOMAIN clusterState) = Cardinality(DOMAIN clusterStateOld)
      /\ \A m \in DOMAIN clusterState :
           /\ m \in DOMAIN clusterStateOld
           /\ Len(clusterState[m]) = Len(clusterStateOld[m])
           /\ ToSet(clusterState[m]) \subseteq ToSet(clusterStateOld[m])
  BY DEF ClusterChanged
<1>3. DOMAIN clusterStateOld = DOMAIN clusterState
  <2>1. IsFiniteSet(Mods)
    BY ClusterAssumption, FS_Interval DEF Mods
  <2>2. IsFiniteSet(DOMAIN clusterStateOld)
    BY <1>1, <2>1, FS_Subset
  <2>3. QED
    BY <1>2, <2>2, FS_Subset
<1>4. ASSUME NEW m \in DOMAIN clusterState
      PROVE  ToSet(clusterStateOld[m]) = ToSet(clusterState[m])
  <2>1. PICK q \in Seq(Report) : q = clusterState[m]
    BY <1>1
  <2>2. PICK r \in Seq(Report) : r = clusterStateOld[m]
    BY <1>1, <1>2
  <2>3. Once(q)
    BY <1>1, <2>1 DEF OneEach, Once
  <2>4. Len(q) = Len(r) /\ ToSet(q) \subseteq ToSet(r)
    BY <1>2, <2>1, <2>2
  <2>5. ToSet(q) = ToSet(r)
    BY <2>3, <2>4, SameElements
  <2>6. QED
    BY <2>1, <2>2, <2>5
<1>5. QED
  BY <1>3, <1>4 DEF Alike

LEMMA AlikeFacts ==
  ASSUME NEW f, NEW g, NEW h
  PROVE  Alike(f, f) /\ (Alike(f, g) /\ Alike(g, h) => Alike(f, h))
BY DEF Alike

(* What the clients know, wherever the controller's thread is: what is in  *)
(* force, or during a fetch what was in force when it began.               *)
Announced ==
  /\ pc[Run] \in {"idle", "get", "backup"} => Alike(sent, clusterState)
  /\ pc[Run] \in {"judge", "publish"} =>
       clusterState = clusterStateOld /\ Alike(sent, clusterStateOld)
  /\ pc[Run] = "fetched" => Alike(sent, clusterStateOld)

(* _fatalStatus judges the decision in force, except between JudgeCluster  *)
(* and the swap, where it judges the next one.                             *)
FatalRight(f) ==
  /\ fatalStatus => DOMAIN f # Mods
  /\ DOMAIN f \notin {{}, Mods} => fatalStatus

Judged ==
  /\ pc[Run] # "publish" => FatalRight(clusterState)
  /\ pc[Run] = "publish" => FatalRight(tmpNew[Run])

AloneInv == Announced /\ Judged

LEMMA AloneImplies == AloneInv /\ IInv => ChangesAnnounced
<1> SUFFICES ASSUME AloneInv, IInv, pc[Run] \in {"idle", "get"}
             PROVE  /\ Alike(sent, clusterState)
                    /\ StateValid = -2 => DOMAIN clusterState # Mods
                    /\ DOMAIN clusterState \notin {{}, Mods} => StateValid = -2
  BY DEF ChangesAnnounced
<1>1. Alike(sent, clusterState) /\ FatalRight(clusterState)
  BY DEF AloneInv, Announced, Judged
<1>2. StateValid = -2 <=> fatalStatus
  BY DEF StateValid, IInv, MapsOK
<1>3. QED
  BY <1>1, <1>2 DEF FatalRight

LEMMA EmptyUnserved == DOMAIN Empty = {}
BY DEF Empty

LEMMA AloneInit == Init => AloneInv
<1> SUFFICES ASSUME Init PROVE AloneInv
  OBVIOUS
<1>1. /\ pc[Run] = "idle" /\ sent = Empty /\ clusterState = Empty /\ fatalStatus = FALSE
  BY ControllerAssumption DEF Init, ControllerInit
<1>2. QED
  BY <1>1, AlikeFacts, EmptyUnserved DEF AloneInv, Announced, Judged, FatalRight

(* Steps that leave what matters here alone.                               *)
LEMMA AloneKept ==
  ASSUME AloneInv, UNCHANGED <<pc, sent, decisionVars, tmpNew>>
  PROVE  AloneInv'
BY DEF AloneInv, Announced, Judged, FatalRight, decisionVars

LEMMA AloneMoves ==
  ASSUME AloneInv, pc[Run] \in {"idle", "get"}, pc'[Run] \in {"get", "backup"},
         UNCHANGED <<sent, decisionVars>>
  PROVE  AloneInv'
BY DEF AloneInv, Announced, Judged, FatalRight, decisionVars

LEMMA AloneFetchStep ==
  ASSUME IInv, AloneInv, FetchStep(Run)
  PROVE  AloneInv'
<1>1. Run \in Callers /\ DOMAIN pc = Callers /\ DOMAIN tmpNew = Callers
  BY ControllerAssumption DEF IInv, CallsOK, MapsOK
<1>2. CASE get(Run)
  <2>1. pc[Run] = "get" /\ pc'[Run] = "backup" /\ UNCHANGED <<sent, decisionVars>>
    BY <1>1, <1>2 DEF get, Goto
  <2>2. QED
    BY <2>1, AloneMoves
<1>3. CASE BackupOld(Run)
  <2>1. /\ pc[Run] = "backup" /\ pc'[Run] = "judge" /\ clusterStateOld' = clusterState
        /\ UNCHANGED <<clusterState, fatalStatus, sent>>
    BY <1>1, <1>3 DEF BackupOld, Goto
  <2>2. QED
    BY <2>1 DEF AloneInv, Announced, Judged, FatalRight
<1>4. CASE JudgeCluster(Run)
  <2>1. /\ pc[Run] = "judge" /\ pc'[Run] = "publish"
        /\ UNCHANGED <<clusterState, clusterStateOld, sent>>
    BY <1>1, <1>4 DEF JudgeCluster, Goto
  <2>2. Announced'
    BY <2>1 DEF AloneInv, Announced
  <2>3. FatalRight(tmpNew[Run])'
    <3>1. CASE Cluster > 0
      <4>1. fatalStatus' = (DOMAIN tmpNew'[Run] # Mods)
        BY <1>4, <3>1 DEF JudgeCluster
      <4>2. QED
        BY <4>1 DEF FatalRight, Mods
    <3>2. CASE ~(Cluster > 0)
      <4>1. Mods = {}
        BY <3>2, ClusterAssumption DEF Mods
      <4>2. IInv'
        BY <1>1, <1>4, InvJudge
      <4>3. DOMAIN clusterState \subseteq Mods /\ DOMAIN tmpNew'[Run] \subseteq Mods
        BY <1>1, <4>2 DEF IInv, MapsOK, Sensible, IsServerStateMap
      <4>4. fatalStatus' = fatalStatus
        BY <1>4, <3>2 DEF JudgeCluster
      <4>5. FatalRight(clusterState)
        BY <2>1 DEF AloneInv, Judged
      <4>6. QED
        BY <4>1, <4>3, <4>4, <4>5 DEF FatalRight, Mods
    <3>3. QED
      BY <3>1, <3>2
  <2>4. QED
    BY <2>1, <2>2, <2>3 DEF AloneInv, Judged
<1>5. CASE Publish(Run)
  <2>1. /\ pc[Run] = "publish" /\ pc'[Run] = "fetched"
        /\ clusterState' = tmpNew[Run] /\ UNCHANGED <<clusterStateOld, fatalStatus, sent>>
    BY <1>1, <1>5 DEF Publish, Goto
  <2>2. QED
    BY <2>1 DEF AloneInv, Announced, Judged, FatalRight
<1>6. QED
  BY <1>2, <1>3, <1>4, <1>5 DEF FetchStep

LEMMA AloneRunStep ==
  ASSUME IInv, AloneInv, RunStep
  PROVE  AloneInv'
<1>1. Run \in Callers /\ DOMAIN pc = Callers
  BY ControllerAssumption DEF IInv, CallsOK
<1>2. CASE WakeAndFetch
  <2>1. /\ pc[Run] = "idle" /\ pc'[Run] \in {"get", "backup"}
        /\ UNCHANGED <<sent, decisionVars>>
    BY <1>1, <1>2 DEF WakeAndFetch, BeginFetch, Goto
  <2>2. QED
    BY <2>1, AloneMoves
<1>3. CASE WakeNotDue
  <2>1. /\ pc[Run] = "idle" /\ pc' = pc /\ sent' \in {sent, clusterState}
        /\ UNCHANGED <<clusterState, fatalStatus>>
    BY <1>3 DEF WakeNotDue, NotifyClusterState, decisionVars, callVars
  <2>2. QED
    BY <2>1, AlikeFacts DEF AloneInv, Announced, Judged, FatalRight
<1>4. CASE Fetched
  <2>1. /\ pc[Run] = "fetched" /\ pc'[Run] = "idle"
        /\ UNCHANGED <<clusterState, fatalStatus>>
        /\ IF ClusterChanged \/ NotifyDue THEN sent' = clusterState ELSE sent' = sent
    BY <1>1, <1>4 DEF Fetched, Goto, NotifyClusterState, decisionVars
  <2>2. Alike(sent', clusterState)
    <3>1. CASE ClusterChanged \/ NotifyDue
      BY <2>1, <3>1, AlikeFacts
    <3>2. CASE ~ClusterChanged /\ ~NotifyDue
      <4>1. Alike(clusterStateOld, clusterState)
        BY <3>2, UnchangedAlike DEF IInv, MapsOK
      <4>2. Alike(sent, clusterStateOld)
        BY <2>1 DEF AloneInv, Announced
      <4>3. QED
        BY <2>1, <3>2, <4>1, <4>2, AlikeFacts
    <3>3. QED
      BY <3>1, <3>2
  <2>3. QED
    BY <2>1, <2>2 DEF AloneInv, Announced, Judged, FatalRight
<1>5. CASE FetchStep(Run)
  BY <1>5, AloneFetchStep
<1>6. QED
  BY <1>2, <1>3, <1>4, <1>5 DEF RunStep

LEMMA AloneStep ==
  ASSUME Callers = {Run}, IInv, AloneInv, [Next]_vars
  PROVE  AloneInv'
<1>1. CASE \E s \in Servers : initialize(s) \/ setStatus(s) \/ Resubscribe(s) \/ Crash(s)
  <2>1. UNCHANGED <<pc, sent, decisionVars, tmpNew>>
    BY <1>1 DEF initialize, setStatus, Resubscribe, Crash, callVars
  <2>2. QED
    BY <2>1, AloneKept
<1>2. CASE RunStep
  BY <1>2, AloneRunStep
<1>3. CASE Tick
  <2>1. UNCHANGED <<pc, sent, decisionVars, tmpNew>>
    BY <1>3 DEF Tick, callVars
  <2>2. QED
    BY <2>1, AloneKept
<1>4. CASE Restart
  <2>1. /\ pc'[Run] = "idle" /\ sent' = Empty /\ clusterState' = Empty /\ fatalStatus' = FALSE
    BY <1>4, ControllerAssumption DEF Restart
  <2>2. QED
    BY <2>1, AlikeFacts, EmptyUnserved DEF AloneInv, Announced, Judged, FatalRight
<1>5. CASE UNCHANGED vars
  <2>1. UNCHANGED <<pc, sent, decisionVars, tmpNew>>
    BY <1>5 DEF vars, callVars
  <2>2. QED
    BY <2>1, AloneKept
<1>6. QED
  BY <1>1, <1>2, <1>3, <1>4, <1>5 DEF Next

(* When only the controller's own thread fetches, the outside knows the    *)
(* decision in force whenever that thread is not deciding: what run sent   *)
(* last is what a client would get now, although ClusterChanged compares   *)
(* with the previous fetch only and looks for the new servers among the    *)
(* old ones and not the other way round; and StateValid answers -2 for a   *)
(* decision that leaves a mod unserved and for no other.  That nobody else *)
(* fetches is needed: a remote FetchServerState puts a decision in force   *)
(* and notifies nobody.                                                    *)
THEOREM ClientsKnowDecision ==
  ASSUME Callers = {Run}
  PROVE  Spec => []ChangesAnnounced
<1>1. Init => IInv /\ AloneInv
  BY InvInit, AloneInit
<1>2. IInv /\ AloneInv /\ [Next]_vars => (IInv /\ AloneInv)'
  BY InvStep, AloneStep
<1>3. IInv /\ AloneInv => ChangesAnnounced
  BY AloneImplies
<1>4. QED
  BY <1>1, <1>2, <1>3, PTL DEF Spec
==============================================================================
