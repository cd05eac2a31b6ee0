-------------------------- MODULE QueueStoreProofs --------------------------
(***************************************************************************)
(* How a file is cut into chunks, and safety of the queue for every set of *)
(* jobs, every snapshot and every number of claims.                        *)
(***************************************************************************)
EXTENDS QueueStore, Sums, FiniteSetTheorems, TLAPS

USE JobIdsAssumption, FilesAssumption, SizeAssumption, ChunkSizesAssumption, BoundsAssumption

-----------------------------------------------------------------------------
(* The operators the store counts with.                                    *)

\* completed_files is a number no greater than the number of file rows.
LEMMA CountOfComplete ==
    ASSUME NEW fs
    PROVE  /\ Complete(fs) \subseteq Files
           /\ IsFiniteSet(Complete(fs))
           /\ Cardinality(Complete(fs)) \in Nat
  <1>1. Complete(fs) \subseteq Files
    BY DEF Complete
  <1>2. IsFiniteSet(Complete(fs))
    BY <1>1, FS_Subset
  <1>3. QED
    BY <1>1, <1>2, FS_CardinalityType

\* The counter reaches the number of files only when every file is completed.
LEMMA FullCount ==
    ASSUME NEW fs, Cardinality(Complete(fs)) = Cardinality(Files)
    PROVE  Complete(fs) = Files
  BY CountOfComplete, FS_Subset DEF Complete

\* A chunk row has a first byte and a last byte.
LEMMA RangesType ==
    ASSUME NEW size \in Nat, NEW c \in Nat \ {0}
    PROVE  Ranges(size, c) \in SUBSET (Nat \X Int)
  <1> SUFFICES ASSUME NEW s \in 0 .. size - 1
               PROVE  <<s, Smaller(s + c, size) - 1>> \in Nat \X Int
    BY DEF Ranges
  <1> QED
    BY DEF Smaller

-----------------------------------------------------------------------------
(* How a file is cut.                                                      *)

LEMMA DivMod ==
    ASSUME NEW n \in Nat, NEW c \in Nat \ {0}
    PROVE  /\ n \div c \in Nat /\ n % c \in 0 .. c - 1
           /\ n % c = n - c * (n \div c)
  <1>1. n \div c \in Nat /\ n % c \in 0 .. c - 1
    OBVIOUS
  <1>2. n % c = n - c * (n \div c)
    BY Z3
  <1> QED
    BY <1>1, <1>2

LEMMA Products ==
    ASSUME NEW k \in Nat, NEW l \in Nat, NEW c \in Nat \ {0}
    PROVE  /\ c * k \in Nat
           /\ c * k < c * l => c * k + c <= c * l
  <1>1. c * k \in Nat /\ c * l \in Nat
    OBVIOUS
  <1>2. CASE l <= k
    <2>1. c * l <= c * k
      BY <1>2
    <2> QED
      BY <1>1, <2>1
  <1>3. CASE k < l
    <2>1. c * (k + 1) <= c * l
      BY <1>3
    <2>2. c * (k + 1) = c * k + c
      OBVIOUS
    <2> QED
      BY <1>1, <2>1, <2>2
  <1> QED
    BY <1>2, <1>3

\* The last multiple of c up to n.
LEMMA Floor ==
    ASSUME NEW n \in Nat, NEW c \in Nat \ {0}
    PROVE  \E a \in Nat : a % c = 0 /\ a <= n /\ n <= a + c - 1
  <1>1. PICK q \in Nat : q = n \div c
    BY DivMod
  <1>2. c * q \in Nat
    BY <1>1, Products
  <1>3. n % c \in 0 .. c - 1 /\ n % c = n - c * q
    BY <1>1, DivMod
  <1>4. (c * q) % c = 0
    BY <1>1, SMT
  <1>5. c * q <= n /\ n <= c * q + c - 1
    BY <1>2, <1>3
  <1> QED
    BY <1>2, <1>4, <1>5

\* Two multiples of c are at least c apart.
LEMMA Multiples ==
    ASSUME NEW a \in Nat, NEW b \in Nat, NEW c \in Nat \ {0}, a < b, a % c = 0, b % c = 0
    PROVE  a + c <= b
  <1>1. PICK k \in Nat : k = a \div c
    BY DivMod
  <1>2. PICK l \in Nat : l = b \div c
    BY DivMod
  <1>3. a % c = a - c * k /\ b % c = b - c * l
    BY <1>1, <1>2, DivMod
  <1>4. c * k \in Nat /\ c * l \in Nat /\ (c * k < c * l => c * k + c <= c * l)
    BY Products
  <1> QED
    BY <1>3, <1>4

\* download.py:115-119: the ranges that _ranges cuts a file into cover every byte exactly once and no
\* byte beyond it, for every size and chunk size, sizes that are no multiple of the chunk
\* size and empty files included.  This is why a file whose ranges are all recorded is whole.
THEOREM RangesPartition ==
    ASSUME NEW size \in Nat, NEW c \in Nat \ {0}
    PROVE  /\ \A r \in Ranges(size, c) : 0 <= r[1] /\ r[1] <= r[2] /\ r[2] < size
           /\ \A b \in 0 .. size - 1 : \E r \in Ranges(size, c) : b \in r[1] .. r[2]
           /\ \A r, s \in Ranges(size, c) : (r[1] .. r[2]) \cap (s[1] .. s[2]) # {} => r = s
  <1> DEFINE Starts == {b \in 0 .. size - 1 : b % c = 0}
             Cut(a) == <<a, Smaller(a + c, size) - 1>>
  <1>1. Ranges(size, c) = {Cut(a) : a \in Starts}
    BY DEF Ranges
  <1>2. ASSUME NEW a \in Starts
        PROVE  /\ a \in Nat /\ a % c = 0 /\ a < size
               /\ Cut(a)[1] = a /\ Cut(a)[2] \in Nat
               /\ Cut(a)[2] <= a + c - 1 /\ Cut(a)[2] <= size - 1 /\ a <= Cut(a)[2]
               /\ Cut(a)[2] \in {a + c - 1, size - 1}
    BY DEF Smaller
  <1> HIDE DEF Cut
  <1>3. ASSUME NEW b \in 0 .. size - 1
        PROVE  \E r \in Ranges(size, c) : b \in r[1] .. r[2]
    <2>1. b \in Nat /\ b <= size - 1
      BY <1>3
    <2>2. PICK a \in Nat : a % c = 0 /\ a <= b /\ b <= a + c - 1
      BY <2>1, Floor
    <2>3. a \in Starts
      BY <2>1, <2>2
    <2>4. Cut(a)[1] = a /\ Cut(a)[2] \in Nat /\ Cut(a)[2] \in {a + c - 1, size - 1}
      BY <1>2, <2>3
    <2>5. b \in Cut(a)[1] .. Cut(a)[2]
      BY <2>1, <2>2, <2>4
    <2> QED
      BY <1>1, <2>3, <2>5
  <1>4. ASSUME NEW a \in Starts, NEW b \in Starts, a < b, NEW x \in Cut(a)[1] .. Cut(a)[2]
        PROVE  x \notin Cut(b)[1] .. Cut(b)[2]
    <2>1. a + c <= b
      BY <1>2, <1>4, Multiples
    <2>2. /\ a \in Nat /\ b \in Nat
          /\ Cut(a)[1] \in Int /\ Cut(a)[2] \in Int /\ Cut(a)[2] <= a + c - 1
          /\ Cut(b)[1] = b /\ Cut(b)[2] \in Int
      BY <1>2
    <2>3. x \in Int /\ x <= Cut(a)[2]
      BY <1>4, <2>2
    <2> QED
      BY <2>1, <2>2, <2>3
  <1>5. ASSUME NEW a \in Starts, NEW b \in Starts,
               (Cut(a)[1] .. Cut(a)[2]) \cap (Cut(b)[1] .. Cut(b)[2]) # {}
        PROVE  a = b
    <2>1. ~ a < b /\ ~ b < a
      BY <1>4, <1>5
    <2> QED
      BY <1>2, <2>1
  <1>6. \A r \in Ranges(size, c) : 0 <= r[1] /\ r[1] <= r[2] /\ r[2] < size
    <2> SUFFICES ASSUME NEW a \in Starts
                 PROVE  0 <= Cut(a)[1] /\ Cut(a)[1] <= Cut(a)[2] /\ Cut(a)[2] < size
      BY <1>1
    <2> QED
      BY <1>2
  <1>7. \A r, s \in Ranges(size, c) : (r[1] .. r[2]) \cap (s[1] .. s[2]) # {} => r = s
    BY <1>1, <1>5
  <1> QED
    BY <1>3, <1>6, <1>7

-----------------------------------------------------------------------------
(* What the ranges of a file add up to.                                    *)

LEMMA BytesAreSum ==
    ASSUME NEW S, IsFiniteSet(S), NEW R \in SUBSET S
    PROVE  BytesOf(R) = SumOf([r \in S |-> Length(r)], R)
  <1> DEFINE f == [r \in S |-> Length(r)]
             step(g, s) == IF s = {} THEN 0 ELSE Length(Picked(s)) + g[s \ {Picked(s)}]
             h == CHOOSE g : g = [s \in SUBSET R |-> step(g, s)]
  <1>1. BytesOf(R) = h[R]
    BY DEF BytesOf, Picked, MapThenSumSet, MapThenFoldSet
  <1>2. IsFiniteSet(R)
    BY FS_Subset
  <1>3. PICK k : IsFold(f, k, R)
    BY <1>2, FoldExists
  <1>4. ASSUME NEW g, NEW s \in SUBSET R
        PROVE  step(g, s) = Added(f, g, s)
    <2>1. s # {} => f[Picked(s)] = Length(Picked(s))
      BY DEF Picked
    <2> QED
      BY <2>1 DEF Added
  <1> HIDE DEF step, f
  <1>5. k = [s \in SUBSET R |-> step(k, s)]
    BY <1>3, <1>4 DEF IsFold
  <1>6. h = [s \in SUBSET R |-> step(h, s)]
    BY <1>5
  <1> HIDE DEF h
  <1>7. IsFold(f, h, R)
    BY <1>4, <1>6 DEF IsFold
  <1>8. SumOf(f, R) = h[R]
    BY <1>2, <1>7, SumIsFold
  <1> QED
    BY <1>1, <1>8 DEF f

LEMMA RangesFinite ==
    ASSUME NEW size \in Nat, NEW c \in Nat \ {0}
    PROVE  IsFiniteSet(Ranges(size, c)) /\ \A r \in Ranges(size, c) : Length(r) \in Nat \ {0}
  <1> DEFINE Bytes == 0 .. size - 1
  <1>1. IsFiniteSet(Bytes) 
    BY FS_Interval
  <1>2. IsFiniteSet(Bytes \X Bytes)
    BY <1>1, FS_Product
  <1>3. Ranges(size, c) \subseteq Bytes \X Bytes
    BY DEF Ranges, Smaller
  <1>4. IsFiniteSet(Ranges(size, c))
    BY <1>2, <1>3, FS_Subset
  <1>5. ASSUME NEW r \in Ranges(size, c)
        PROVE  Length(r) \in Nat \ {0}
    <2>1. r[1] \in Int /\ r[2] \in Int
      BY RangesType
    <2>2. r[1] <= r[2]
      BY RangesPartition
    <2> QED
      BY <2>1, <2>2 DEF Length
  <1> QED
    BY <1>4, <1>5

\* The bytes that record_progress is told to write are those of the completed ranges: they are
\* the size of the file when all of its ranges are completed, and less before.
THEOREM RangesAddUp ==
    ASSUME NEW size \in Nat, NEW c \in Nat \ {0}
    PROVE  /\ BytesOf(Ranges(size, c)) = size
           /\ \A R \in SUBSET Ranges(size, c) :
                  /\ BytesOf(R) \in 0 .. size
                  /\ BytesOf(R) = size => R = Ranges(size, c)
  <1> DEFINE T == {n \in Nat : BytesOf(Ranges(n, c)) # n}
  <1>1. ASSUME NEW n \in T, \A k \in T : n <= k
        PROVE  FALSE
    <2>0. n \in Nat
      OBVIOUS
    <2>1. n # 0
      <3>1. Ranges(0, c) = {}
        BY DEF Ranges
      <3>2. BytesOf({}) = SumOf([r \in {} |-> Length(r)], {})
        BY BytesAreSum, FS_EmptySet
      <3> QED
        BY <1>1, <3>1, <3>2, SumEmpty
    <2>2. PICK a \in Nat : a % c = 0 /\ a <= n - 1 /\ n - 1 <= a + c - 1
      <3>1. n - 1 \in Nat
        BY <2>0, <2>1
      <3> QED
        BY <3>1, Floor
    <2> DEFINE last == <<a, n - 1>>
               S == Ranges(n, c)
               f == [r \in S |-> Length(r)]
    <2>3. ASSUME NEW b \in 0 .. n - 1, b % c = 0, b # a
          PROVE  b \in 0 .. a - 1 /\ b + c <= a
      <3>0. b \in Nat /\ b <= n - 1
        BY <2>0, <2>3
      <3>1. a < b => a + c <= b
        BY <2>2, <2>3, <3>0, Multiples
      <3>2. b \in Nat /\ b < a
        BY <2>0, <2>2, <2>3, <3>0, <3>1
      <3>3. b + c <= a
        <4>1. a \in Nat /\ a % c = 0 /\ b % c = 0
          BY <2>2, <2>3
        <4> HIDE DEF T
        <4> QED
          BY <3>2, <4>1, Multiples
      <3> QED
        BY <3>2, <3>3, <2>2
    <2>4. S = Ranges(a, c) \cup {last}
      <3>1. n \in Nat /\ a \in 0 .. n - 1 /\ Smaller(a + c, n) - 1 = n - 1
        BY <1>1, <2>1, <2>2 DEF Smaller
      <3>2. \A b \in 0 .. a - 1 : b % c = 0 =>
                b \in 0 .. n - 1 /\ b # a /\ Smaller(b + c, n) = Smaller(b + c, a)
        <4>1. ASSUME NEW b \in 0 .. a - 1, b % c = 0
              PROVE  b \in 0 .. n - 1 /\ b # a
          BY <2>0, <2>2
        <4>2. ASSUME NEW b \in 0 .. a - 1, b % c = 0
              PROVE  Smaller(b + c, n) = Smaller(b + c, a)
          <5>1. b + c <= a
            BY <2>3, <4>1, <4>2
          <5> QED
            BY <2>0, <2>2, <5>1 DEF Smaller
        <4> QED
          BY <4>1, <4>2
      <3>3. \A b \in 0 .. n - 1 : b % c = 0 => b = a \/ b \in 0 .. a - 1
        BY <2>3
      <3>4. S \subseteq Ranges(a, c) \cup {last}
        BY <3>1, <3>2, <3>3 DEF Ranges
      <3>5. Ranges(a, c) \cup {last} \subseteq S
        BY <2>2, <3>1, <3>2 DEF Ranges
      <3> QED
        BY <3>4, <3>5
    <2>5. last \notin Ranges(a, c)
      BY <2>2 DEF Ranges
    <2>6. Ranges(a, c) = S \ {last}
      BY <2>4, <2>5
    <2>7. IsFiniteSet(S) /\ \A r \in S : f[r] \in Nat
      BY <1>1, RangesFinite
    <2>9. f[last] = n - a /\ last \in S
      BY <2>0, <2>2, <2>4 DEF Length
    <2>10. BytesOf(S) = SumOf(f, S) /\ BytesOf(Ranges(a, c)) = SumOf(f, S \ {last})
      BY <2>6, <2>7, BytesAreSum
    <2> HIDE DEF f
    <2>8. SumOf(f, S) = f[last] + SumOf(f, S \ {last})
      BY <2>7, <2>9, SumWithout
    <2>11. BytesOf(Ranges(a, c)) = a
      BY <1>1, <2>0, <2>1, <2>2
    <2> HIDE DEF last, S
    <2>12. BytesOf(S) # n
      BY <1>1 DEF S
    <2> QED
      BY <2>0, <2>12, <2>2, <2>8, <2>9, <2>10, <2>11
  <1>2. T = {}
    BY <1>1, LeastNat
  <1>3. BytesOf(Ranges(size, c)) = size
    BY <1>2
  <1>4. ASSUME NEW R \in SUBSET Ranges(size, c)
        PROVE  BytesOf(R) \in 0 .. size /\ (BytesOf(R) = size => R = Ranges(size, c))
    <2> DEFINE S == Ranges(size, c)
               f == [r \in S |-> Length(r)]
    <2>1. IsFiniteSet(S) /\ IsFiniteSet(R) /\ \A r \in S : f[r] \in Nat /\ f[r] # 0
      BY RangesFinite, FS_Subset
    <2>2. BytesOf(R) = SumOf(f, R) /\ BytesOf(S) = SumOf(f, S)
      BY <2>1, BytesAreSum
    <2> HIDE DEF S
    <2>3. R \in SUBSET S /\ BytesOf(S) = size
      BY <1>3 DEF S
    <2> HIDE DEF f
    <2>4. SumOf(f, R) \in Nat
      BY <2>1, <2>3, SumType
    <2>5. /\ SumOf(f, R) <= SumOf(f, S)
          /\ SumOf(f, R) = SumOf(f, S) => \A x \in S \ R : f[x] = 0
      BY <2>1, <2>3, SumSubset
    <2> QED
      BY <2>1, <2>2, <2>3, <2>4, <2>5 DEF S
  <1> QED
    BY <1>3, <1>4

-----------------------------------------------------------------------------
(* Type correctness.                                                       *)

LEMMA TypeInit == Init => TypeOK
  BY DEF Init, TypeOK, NoFiles, NoRow

\* Requests of users, and the passing of time.
LEMMA TypeSubmit ==
    ASSUME TypeOK, NEW j \in JobIds, Submit(j) \/ Tick(j)
    PROVE  TypeOK'
  <1> USE DEF TypeOK, NoRow, Active, Running, Held, Terminal
  <1>1. CASE \E m \in Models, d \in Destinations : EnqueueRequeues(j, m, d)
    BY <1>1 DEF EnqueueRequeues, identity, totals, rows
  <1>2. CASE \E m \in Models, d \in Destinations : EnqueueInserts(j, m, d)
    BY <1>2 DEF EnqueueInserts, claimVars, totals, rows
  <1>3. CASE Retry(j)
    BY <1>3 DEF Retry, FreeClaim, identity, totals, rows
  <1>4. CASE RequestCancel(j)
    BY <1>4 DEF RequestCancel, identity, claimVars, totals, rows
  <1>5. CASE Dismiss(j)
    BY <1>5 DEF Dismiss, NoFiles
  <1>6. CASE LeaseExpires(j)
    BY <1>6 DEF LeaseExpires, identity, totals, rows
  <1>7. CASE RetryDue(j)
    BY <1>7 DEF RetryDue, identity, totals, rows
  <1> QED
    BY <1>1, <1>2, <1>3, <1>4, <1>5, <1>6, <1>7 DEF Submit, Tick

LEMMA TypePoll ==
    ASSUME TypeOK, Poll
    PROVE  TypeOK'
  <1> USE DEF TypeOK, NoRow, Active, Running, Held, Terminal
  <1>1. CASE ClaimNothing
    BY <1>1 DEF ClaimNothing, identity, totals, rows
  <1>2. ASSUME NEW k \in JobIds, Claim(k)
        PROVE  TypeOK'
    BY <1>2 DEF Claim, Claimed, identity, totals, rows
  <1> QED
    BY <1>1, <1>2 DEF Poll

\* Store calls about the job row.
LEMMA TypeJobStep ==
    ASSUME TypeOK, NEW j \in JobIds, NEW t \in Issued(j), JobStep(j, t)
    PROVE  TypeOK'
  <1> USE DEF TypeOK, NoRow, Active, Running, Held, Terminal
  <1>1. CASE Heartbeat(j, t)
    BY <1>1 DEF Heartbeat, identity, totals, rows
  <1>2. CASE SaveSnapshot(j, t)
    BY <1>2 DEF SaveSnapshot, NoFiles, identity, claimVars, totals
  <1>3. CASE RecordError(j, t) \/ RecordJobError(j, t)
    BY <1>3 DEF RecordError, RecordJobError, identity, claimVars, totals, rows
  <1>4. CASE \E d \in BOOLEAN : ScheduleRetry(j, t, d)
    BY <1>4 DEF ScheduleRetry, FreeClaim, identity, totals, rows
  <1>5. CASE Release(j, t)
    BY <1>5 DEF Release, FreeClaim, identity, totals, rows
  <1>6. CASE MarkVerifying(j, t)
    BY <1>6 DEF MarkVerifying, identity, claimVars, totals, rows
  <1>7. CASE Outcome(j, t)
    BY <1>7 DEF Outcome, Finish, FreeClaim, identity, totals, rows
  <1> QED
    BY <1>1, <1>2, <1>3, <1>4, <1>5, <1>6, <1>7 DEF JobStep

\* Store calls about one file row.
LEMMA TypeFileStep ==
    ASSUME TypeOK, NEW j \in JobIds, NEW t \in Issued(j), FileStep(j, t)
    PROVE  TypeOK'
  <1> PICK f \in Files :
        \/ \E c \in ChunkSizes : PrepareChunks(j, f, t, c)
        \/ Progress(j, f, t)
        \/ \E bad \in BOOLEAN : ResetFile(j, f, t, bad)
        \/ UpdateFile(j, f, t)
    BY DEF FileStep
  <1>1. ASSUME NEW c \in ChunkSizes, PrepareChunks(j, f, t, c)
        PROVE  TypeOK'
    <2>1. Ranges(Size[f], c) \in SUBSET (Nat \X Int)
      BY RangesType
    <2> QED
      BY <1>1, <2>1 DEF PrepareChunks, TypeOK, identity, claimVars, totals
  <1>2. ASSUME NEW b \in 0 .. Size[f], NEW r, RecordProgress(j, f, t, b, r)
        PROVE  TypeOK'
    <2>1. {r} \cap layout[j][f] \in SUBSET (Nat \X Int)
      BY DEF TypeOK
    <2>2. b \in Nat
      OBVIOUS
    <2> QED
      BY <1>2, <2>1, <2>2 DEF RecordProgress, TypeOK, identity, claimVars
  <1>3. ASSUME NEW bad \in BOOLEAN, ResetFile(j, f, t, bad)
        PROVE  TypeOK'
    <2>1. Cardinality(Complete(fstate'[j])) \in Nat
      BY CountOfComplete
    <2> QED
      BY <1>3, <2>1 DEF ResetFile, Recount, TypeOK, identity, claimVars
  <1>4. CASE UpdateFile(j, f, t)
    <2>1. Cardinality(Complete(fstate'[j])) \in Nat
      BY CountOfComplete
    <2> QED
      BY <1>4, <2>1 DEF UpdateFile, Recount, TypeOK, identity, claimVars
  <1> QED
    BY <1>1, <1>2, <1>3, <1>4 DEF Progress

LEMMA TypeNext == TypeOK /\ [Next]_vars => TypeOK'
  <1> SUFFICES ASSUME TypeOK, [Next]_vars
               PROVE  TypeOK'
    OBVIOUS
  <1>1. CASE UNCHANGED vars
    BY <1>1 DEF vars, identity, claimVars, totals, rows, TypeOK
  <1>2. CASE Next
    BY <1>2, TypeSubmit, TypePoll, TypeJobStep, TypeFileStep DEF Next
  <1> QED
    BY <1>1, <1>2

\* Every column keeps its type, in every instance of the store: the CHECK
\* constraints of the schema never reject a write.
THEOREM TypeCorrect == Spec => []TypeOK
  BY TypeInit, TypeNext, PTL DEF Spec

-----------------------------------------------------------------------------
(* Ownership.                                                              *)

LEMMA DisciplineSubmit ==
    ASSUME TypeOK, ClaimDiscipline, NEW j \in JobIds, Submit(j) \/ Tick(j)
    PROVE  ClaimDiscipline'
  <1> USE DEF TypeOK, ClaimDiscipline, Active, Running, Held, Terminal
  <1>1. CASE \E m \in Models, d \in Destinations : EnqueueRequeues(j, m, d)
    BY <1>1 DEF EnqueueRequeues
  <1>2. CASE \E m \in Models, d \in Destinations : EnqueueInserts(j, m, d)
    BY <1>2 DEF EnqueueInserts, claimVars
  <1>3. CASE Retry(j)
    BY <1>3 DEF Retry, FreeClaim
  <1>4. CASE RequestCancel(j)
    BY <1>4 DEF RequestCancel, claimVars
  <1>5. CASE Dismiss(j)
    BY <1>5 DEF Dismiss
  <1>6. CASE LeaseExpires(j)
    BY <1>6 DEF LeaseExpires
  <1>7. CASE RetryDue(j)
    BY <1>7 DEF RetryDue
  <1> QED
    BY <1>1, <1>2, <1>3, <1>4, <1>5, <1>6, <1>7 DEF Submit, Tick

LEMMA DisciplinePoll ==
    ASSUME TypeOK, ClaimDiscipline, Poll
    PROVE  ClaimDiscipline'
  <1> USE DEF TypeOK, ClaimDiscipline, Held
  <1>1. CASE ClaimNothing
    BY <1>1 DEF ClaimNothing, Reapable
  <1>2. ASSUME NEW k \in JobIds, Claim(k)
        PROVE  ClaimDiscipline'
    BY <1>2 DEF Claim, Claimed, Reapable
  <1> QED
    BY <1>1, <1>2 DEF Poll

LEMMA DisciplineOwner ==
    ASSUME TypeOK, ClaimDiscipline, NEW j \in JobIds, NEW t \in Issued(j),
           JobStep(j, t) \/ FileStep(j, t)
    PROVE  ClaimDiscipline'
  <1> USE DEF TypeOK, ClaimDiscipline, Held, Owns, Presents
  <1>1. CASE Heartbeat(j, t)
    BY <1>1 DEF Heartbeat
  <1>2. CASE SaveSnapshot(j, t)
    BY <1>2 DEF SaveSnapshot, claimVars
  <1>3. CASE RecordError(j, t) \/ RecordJobError(j, t)
    BY <1>3 DEF RecordError, RecordJobError, claimVars
  <1>4. CASE \E d \in BOOLEAN : ScheduleRetry(j, t, d)
    BY <1>4 DEF ScheduleRetry, FreeClaim
  <1>5. CASE Release(j, t)
    BY <1>5 DEF Release, FreeClaim
  <1>6. CASE MarkVerifying(j, t)
    BY <1>6 DEF MarkVerifying, CanMarkVerifying, claimVars
  <1>7. CASE Outcome(j, t)
    BY <1>7 DEF Outcome, Finish, FreeClaim, Terminal
  <1>8. CASE FileStep(j, t)
    <2>1. UNCHANGED <<state, claimVars>>
      BY <1>8 DEF FileStep, PrepareChunks, Progress, RecordProgress, ResetFile, UpdateFile
    <2> QED
      BY <2>1 DEF claimVars
  <1> QED
    BY <1>1, <1>2, <1>3, <1>4, <1>5, <1>6, <1>7, <1>8 DEF JobStep

LEMMA DisciplineNext ==
    ASSUME TypeOK, ClaimDiscipline, [Next]_vars
    PROVE  ClaimDiscipline'
  <1>1. CASE UNCHANGED vars
    BY <1>1 DEF vars, claimVars, ClaimDiscipline
  <1>2. CASE Next
    BY <1>2, DisciplineSubmit, DisciplinePoll, DisciplineOwner DEF Next
  <1> QED
    BY <1>1, <1>2

\* A job is held by at most one token, the latest that was issued, and exactly in
\* the worker states, for any number of jobs and claims.
THEOREM ClaimDisciplined == Spec => []ClaimDiscipline
  <1>1. Init => ClaimDiscipline
    BY DEF Init, ClaimDiscipline, Held
  <1> QED
    BY <1>1, TypeCorrect, DisciplineNext, PTL DEF Spec

-----------------------------------------------------------------------------
(* Completed means complete.                                               *)

\* What makes CompletedIsWhole inductive.  The counter that mark_verifying and
\* finish compare equals the number of completed rows, a completed row has all its
\* bytes, and a job without a snapshot has no rows: save_snapshot, which replaces
\* the rows and leaves the counter, runs only in such a job.
RowsInv(j) ==
    /\ jobFiles[j] = Cardinality(Complete(fstate[j]))
    /\ \A f \in Files : fstate[j][f] = "completed" => fbytes[j][f] = Size[f]
    /\ ~ snapshot[j] => fstate[j] = NoFiles("none")
    /\ state[j] = "snapshotting" => ~ snapshot[j]
    /\ state[j] = "completed" => Complete(fstate[j]) = Files

QueueInv ==
    /\ TypeOK
    /\ ClaimDiscipline
    /\ \A j \in JobIds : RowsInv(j)

LEMMA NoneComplete ==
    ASSUME NEW x, x # "completed"
    PROVE  Complete(NoFiles(x)) = {} /\ Cardinality(Complete(NoFiles(x))) = 0
  <1>1. Complete(NoFiles(x)) = {}
    BY DEF Complete, NoFiles
  <1> QED
    BY <1>1, FS_EmptySet

\* A step that keeps the rows of a job keeps RowsInv, unless the job becomes
\* snapshotting or completed.
LEMMA RowsFrame ==
    ASSUME NEW j \in JobIds, RowsInv(j),
           jobFiles'[j] = jobFiles[j], fstate'[j] = fstate[j], fbytes'[j] = fbytes[j],
           snapshot'[j] = snapshot[j],
           state'[j] = "snapshotting" => state[j] = "snapshotting" \/ ~ snapshot[j],
           state'[j] = "completed" =>
               state[j] = "completed" \/ Complete(fstate[j]) = Files
    PROVE  RowsInv(j)'
  BY DEF RowsInv, Complete, NoFiles

LEMMA RowsSubmit ==
    ASSUME QueueInv, NEW j \in JobIds, Submit(j) \/ Tick(j), NEW i \in JobIds
    PROVE  RowsInv(i)'
  <1> USE DEF QueueInv, TypeOK
  <1>1. CASE Dismiss(j) /\ i = j
    <2>1. fstate'[i] = NoFiles("none") /\ jobFiles'[i] = 0 /\ state'[i] = "dismissed"
          /\ ~ snapshot'[i]
      BY <1>1 DEF Dismiss
    <2>2. Cardinality(Complete(NoFiles("none"))) = 0
      BY NoneComplete
    <2>3. \A f \in Files : fstate'[i][f] # "completed"
      BY <2>1 DEF NoFiles
    <2> QED
      BY <2>1, <2>2, <2>3 DEF RowsInv, Complete
  <1>2. CASE ~ (Dismiss(j) /\ i = j)
    <2>1. /\ jobFiles'[i] = jobFiles[i] /\ fstate'[i] = fstate[i]
          /\ fbytes'[i] = fbytes[i] /\ snapshot'[i] = snapshot[i]
          /\ state'[i] \in {"queued", "cancelled", "cancel_requested", state[i]}
      BY <1>2 DEF Submit, Tick, EnqueueRequeues, EnqueueInserts, Retry, RequestCancel,
                  Dismiss, LeaseExpires, RetryDue, totals, rows
    <2> QED
      BY <2>1, RowsFrame
  <1> QED
    BY <1>1, <1>2

\* A claim starts with the listing only when there is no snapshot.
LEMMA RowsPoll ==
    ASSUME QueueInv, Poll, NEW i \in JobIds
    PROVE  RowsInv(i)'
  <1>1. /\ jobFiles'[i] = jobFiles[i] /\ fstate'[i] = fstate[i]
        /\ fbytes'[i] = fbytes[i] /\ snapshot'[i] = snapshot[i]
    BY DEF Poll, ClaimNothing, Claim, totals, rows
  <1>2. \/ state'[i] \in {"downloading", "cancelled", state[i]}
        \/ state'[i] = "snapshotting" /\ ~ snapshot[i]
    BY DEF Poll, ClaimNothing, Claim, Claimed
  <1> QED
    BY <1>1, <1>2, RowsFrame DEF QueueInv

\* finish("completed") finds the counter full, so every row is completed.
LEMMA RowsFinish ==
    ASSUME QueueInv, NEW j \in JobIds, NEW t, NEW s, Finish(j, t, s), s # "snapshotting",
           NEW i \in JobIds
    PROVE  RowsInv(i)'
  <1>1. /\ jobFiles'[i] = jobFiles[i] /\ fstate'[i] = fstate[i]
        /\ fbytes'[i] = fbytes[i] /\ snapshot'[i] = snapshot[i]
    BY DEF Finish, totals, rows
  <1>2. state'[i] = IF i = j THEN s ELSE state[i]
    BY DEF Finish, QueueInv, TypeOK
  <1>3. CASE i = j /\ s = "completed"
    <2>1. jobFiles[j] = Cardinality(Files)
      BY <1>3 DEF Finish, CanFinish, AllCounted
    <2>2. Complete(fstate[j]) = Files
      BY <2>1, FullCount DEF QueueInv, RowsInv
    <2> QED
      BY <1>1, <1>2, <1>3, <2>2, RowsFrame DEF QueueInv
  <1>4. CASE ~ (i = j /\ s = "completed")
    BY <1>1, <1>2, <1>4, RowsFrame DEF QueueInv
  <1> QED
    BY <1>3, <1>4

LEMMA RowsJobStep ==
    ASSUME QueueInv, NEW j \in JobIds, NEW t \in Issued(j), JobStep(j, t), NEW i \in JobIds
    PROVE  RowsInv(i)'
  <1>1. CASE SaveSnapshot(j, t) /\ i = j
    <2>1. fstate[i] = NoFiles("none")
      BY <1>1 DEF SaveSnapshot, Owns, QueueInv, RowsInv
    <2>2. jobFiles'[i] = 0
      BY <1>1, <2>1, NoneComplete DEF SaveSnapshot, totals, QueueInv, RowsInv
    <2>3. fstate'[i] = NoFiles("queued") /\ snapshot'[i] /\ state'[i] = "downloading"
      BY <1>1 DEF SaveSnapshot, QueueInv, TypeOK
    <2>4. Cardinality(Complete(NoFiles("queued"))) = 0
      BY NoneComplete
    <2>5. \A f \in Files : fstate'[i][f] # "completed"
      BY <2>3 DEF NoFiles
    <2> QED
      BY <2>2, <2>3, <2>4, <2>5 DEF RowsInv, Complete
  <1>2. CASE SaveSnapshot(j, t) /\ i # j
    BY <1>2, RowsFrame DEF SaveSnapshot, totals, QueueInv, TypeOK
  <1>3. CASE Outcome(j, t)
    BY <1>3, RowsFinish DEF Outcome, Terminal
  <1>4. CASE ~ SaveSnapshot(j, t) /\ ~ Outcome(j, t)
    <2>1. /\ jobFiles'[i] = jobFiles[i] /\ fstate'[i] = fstate[i]
          /\ fbytes'[i] = fbytes[i] /\ snapshot'[i] = snapshot[i]
          /\ state'[i] \in {"queued", "retry_wait", "verifying", state[i]}
      BY <1>4 DEF JobStep, Heartbeat, RecordError, RecordJobError, ScheduleRetry, Release,
                  MarkVerifying, totals, rows, QueueInv, TypeOK
    <2> QED
      BY <2>1, RowsFrame DEF QueueInv
  <1> QED
    BY <1>1, <1>2, <1>3, <1>4

\* The row of a file changes only under a claim, which a completed job does not have.
LEMMA PresentedIsLive ==
    ASSUME QueueInv, NEW j \in JobIds, NEW t, Presents(j, t)
    PROVE  state[j] # "completed"
  BY DEF QueueInv, ClaimDiscipline, Presents, Held

LEMMA RowsFileStep ==
    ASSUME QueueInv, NEW j \in JobIds, NEW t \in Issued(j), FileStep(j, t), NEW i \in JobIds
    PROVE  RowsInv(i)'
  <1> PICK f \in Files :
        \/ \E c \in ChunkSizes : PrepareChunks(j, f, t, c)
        \/ Progress(j, f, t)
        \/ \E bad \in BOOLEAN : ResetFile(j, f, t, bad)
        \/ UpdateFile(j, f, t)
    BY DEF FileStep
  <1> USE DEF QueueInv, TypeOK
  <1>1. ASSUME NEW c \in ChunkSizes, PrepareChunks(j, f, t, c)
        PROVE  RowsInv(i)'
    BY <1>1, RowsFrame DEF PrepareChunks, totals
  <1>2. ASSUME fstate[j][f] # "completed", NEW b, NEW r, RecordProgress(j, f, t, b, r)
        PROVE  RowsInv(i)'
    <2>1. CASE i # j
      BY <1>2, <2>1, RowsFrame DEF RecordProgress
    <2>2. CASE i = j
      <3>1. Complete(fstate'[j]) = Complete(fstate[j])
        BY <1>2 DEF RecordProgress, Complete
      <3>2. jobFiles'[j] = jobFiles[j] /\ snapshot[j] /\ snapshot'[j] /\ state'[j] = state[j]
        BY <1>2 DEF RecordProgress, CanRecordProgress
      <3>3. \A g \in Files : fstate'[j][g] = "completed" => fbytes'[j][g] = Size[g]
        BY <1>2 DEF RecordProgress, RowsInv
      <3> QED
        BY <2>2, <3>1, <3>2, <3>3 DEF RowsInv
    <2> QED
      BY <2>1, <2>2
  <1>3. CASE UpdateFile(j, f, t) \/ \E bad \in BOOLEAN : ResetFile(j, f, t, bad)
    <2>1. CASE i # j
      BY <1>3, <2>1, RowsFrame DEF UpdateFile, ResetFile, Recount
    <2>2. CASE i = j
      <3>1. jobFiles'[j] = Cardinality(Complete(fstate'[j]))
        BY <1>3 DEF UpdateFile, ResetFile, Recount
      <3>2. snapshot[j] /\ snapshot'[j] /\ state'[j] = state[j] /\ state[j] # "completed"
        BY <1>3, PresentedIsLive DEF UpdateFile, ResetFile, CanReset, Owns
      <3>3. \A g \in Files : fstate'[j][g] = "completed" => fbytes'[j][g] = Size[g]
        BY <1>3 DEF UpdateFile, ResetFile, RowsInv
      <3> QED
        BY <2>2, <3>1, <3>2, <3>3 DEF RowsInv
    <2> QED
      BY <2>1, <2>2
  <1> QED
    BY <1>1, <1>2, <1>3 DEF Progress

LEMMA QueueInvInit == Init => QueueInv
  <1> SUFFICES ASSUME Init, NEW j \in JobIds
               PROVE  RowsInv(j)
    BY TypeInit DEF QueueInv, Init, ClaimDiscipline, Held
  <1>1. fstate[j] = NoFiles("none") /\ jobFiles[j] = 0 /\ state[j] = "none"
        /\ ~ snapshot[j]
    BY DEF Init
  <1> QED
    BY <1>1, NoneComplete DEF RowsInv, NoFiles

LEMMA QueueInvNext == QueueInv /\ [Next]_vars => QueueInv'
  <1> SUFFICES ASSUME QueueInv, [Next]_vars
               PROVE  QueueInv'
    OBVIOUS
  <1>1. TypeOK' /\ ClaimDiscipline'
    BY TypeNext, DisciplineNext DEF QueueInv
  <1>2. ASSUME NEW i \in JobIds
        PROVE  RowsInv(i)'
    <2>1. CASE UNCHANGED vars
      BY <2>1, RowsFrame DEF vars, totals, rows, QueueInv
    <2>2. CASE Next
      BY <2>2, RowsSubmit, RowsPoll, RowsJobStep, RowsFileStep DEF Next
    <2> QED
      BY <2>1, <2>2
  <1> QED
    BY <1>1, <1>2 DEF QueueInv

THEOREM QueueInvariant == Spec => []QueueInv
  BY QueueInvInit, QueueInvNext, PTL DEF Spec

\* No completed job misses a file, in every instance of the store: its file rows
\* are all completed, with all their bytes.
THEOREM CompletedWhole == Spec => []CompletedIsWhole
  <1>1. QueueInv => CompletedIsWhole
    BY DEF QueueInv, RowsInv, CompletedIsWhole, Complete
  <1> QED
    BY <1>1, QueueInvariant, PTL

-----------------------------------------------------------------------------
(* What a step may not do.                                                 *)

\* Only the jobs of a claim change token, and a caller's job and file calls keep it
\* or give it up.
LEMMA OnlyClaimIssues ==
    ASSUME QueueInv, Next, NEW i \in JobIds, token'[i] \notin {0, token[i]}
    PROVE  \E k \in JobIds : Claim(k) /\ i = k
  <1> USE DEF QueueInv, TypeOK
  <1>1. ASSUME NEW j \in JobIds, Submit(j) \/ Tick(j)
        PROVE  FALSE
    BY <1>1 DEF Submit, Tick, EnqueueRequeues, EnqueueInserts, Retry, RequestCancel, Dismiss,
                LeaseExpires, RetryDue, FreeClaim, claimVars
  <1>2. ASSUME NEW j \in JobIds, NEW t, JobStep(j, t)
        PROVE  FALSE
    BY <1>2 DEF JobStep, Heartbeat, SaveSnapshot, RecordError, RecordJobError, ScheduleRetry,
                Release, MarkVerifying, Outcome, Finish, FreeClaim, claimVars
  <1>3. ASSUME NEW j \in JobIds, NEW t, FileStep(j, t)
        PROVE  FALSE
    BY <1>3 DEF FileStep, PrepareChunks, Progress, RecordProgress, ResetFile, UpdateFile,
                claimVars
  <1>4. CASE Poll
    BY <1>4 DEF Poll, ClaimNothing, Claim
  <1> QED
    BY <1>1, <1>2, <1>3, <1>4 DEF Next

\* A claim takes a job from nobody or from a lapsed lease, under a token that was
\* never issued for it: what earlier owners present stays refused for ever.
THEOREM FreshClaims == Spec => ClaimIsFresh
  <1>1. ASSUME QueueInv, Next, NEW i \in JobIds, token'[i] \notin {0, token[i]}
        PROVE  /\ token[i] = 0 \/ lease[i] = "expired"
               /\ token'[i] \notin Issued(i)
    <2>1. PICK k \in JobIds : Claim(k) /\ i = k
      BY <1>1, OnlyClaimIssues
    <2>2. token'[i] = runs[i] + 1 /\ runs[i] \in Nat
      BY <1>1, <2>1 DEF Claim, QueueInv, TypeOK
    <2>3. state[i] \in {"queued", "retry_wait"} \/ lease[i] = "expired"
      BY <2>1 DEF Claim, Oldest, Eligible, Lapsed
    <2>4. state[i] \in {"queued", "retry_wait"} => token[i] = 0
      BY <1>1 DEF QueueInv, ClaimDiscipline, Held
    <2> QED
      BY <2>2, <2>3, <2>4 DEF Issued
  <1>2. QueueInv /\ [Next]_vars =>
          [\A j \in JobIds : token'[j] \notin {0, token[j]} =>
              /\ token[j] = 0 \/ lease[j] = "expired"
              /\ token'[j] \notin Issued(j)]_vars
    BY <1>1
  <1> QED
    BY <1>2, QueueInvariant, PTL DEF Spec, ClaimIsFresh

\* A completed or cancelled job never runs again, a failed one is only requeued, and
\* a requested cancellation is not forgotten, whoever calls what and when.
THEOREM NeverRevived == Spec => NoRevival
  <1> DEFINE Kept(j) ==
        /\ state[j] \in {"completed", "cancelled"} => state'[j] \in {state[j], "dismissed"}
        /\ state[j] = "failed" => state'[j] \in {"failed", "queued", "dismissed"}
        /\ state[j] = "cancel_requested" =>
               state'[j] \in {"cancel_requested", "cancelled", "failed"}
  <1>1. ASSUME QueueInv, Next, NEW i \in JobIds
        PROVE  Kept(i)
    <2> USE <1>1 DEF QueueInv, TypeOK, Held, Running, Terminal
    <2>1. ASSUME NEW j \in JobIds, Submit(j) \/ Tick(j)
          PROVE  Kept(i)
      BY <2>1 DEF Submit, Tick, EnqueueRequeues, EnqueueInserts, Retry, Retryable,
                  RequestCancel, Dismiss, LeaseExpires, RetryDue
    <2>2. ASSUME NEW j \in JobIds, NEW t, JobStep(j, t)
          PROVE  Kept(i)
      BY <2>2 DEF JobStep, Heartbeat, SaveSnapshot, RecordError, RecordJobError,
                  ScheduleRetry, Release, MarkVerifying, CanMarkVerifying, Outcome, Finish,
                  CanFinish, Owns
    <2>3. ASSUME NEW j \in JobIds, NEW t, FileStep(j, t)
          PROVE  Kept(i)
      BY <2>3 DEF FileStep, PrepareChunks, Progress, RecordProgress, ResetFile, UpdateFile
    <2>4. CASE Poll
      BY <2>4 DEF Poll, ClaimNothing, Claim, Oldest, Eligible, Lapsed, Reapable
    <2> QED
      BY <2>1, <2>2, <2>3, <2>4 DEF Next
  <1>2. QueueInv /\ [Next]_vars => [\A j \in JobIds : Kept(j)]_vars
    BY <1>1
  <1> QED
    BY <1>2, QueueInvariant, PTL DEF Spec, NoRevival

\* Files and chunks are written only under the claim that is current before and
\* after the write; every other call keeps them, or deletes the whole job.
THEOREM OwnerWrites == Spec => OwnerWritesRows
  <1> DEFINE Guarded(j) ==
        \/ SameRows(j)
        \/ token[j] # 0 /\ token'[j] = token[j]
        \/ state'[j] = "dismissed"
  <1>1. ASSUME QueueInv, Next, NEW i \in JobIds
        PROVE  Guarded(i)
    <2> USE <1>1 DEF QueueInv, TypeOK
    <2>1. ASSUME NEW j \in JobIds, Submit(j) \/ Tick(j)
          PROVE  Guarded(i)
      BY <2>1 DEF Submit, Tick, EnqueueRequeues, EnqueueInserts, Retry, RequestCancel,
                  Dismiss, LeaseExpires, RetryDue, rows, SameRows
    <2>2. ASSUME NEW j \in JobIds, NEW t, JobStep(j, t)
          PROVE  Guarded(i)
      <3>1. CASE SaveSnapshot(j, t)
        BY <3>1 DEF SaveSnapshot, Owns, Presents, claimVars, SameRows
      <3>2. CASE ~ SaveSnapshot(j, t)
        BY <2>2, <3>2 DEF JobStep, Heartbeat, RecordError, RecordJobError, ScheduleRetry,
                          Release, MarkVerifying, Outcome, Finish, rows, SameRows
      <3> QED
        BY <3>1, <3>2
    <2>3. ASSUME NEW j \in JobIds, NEW t, FileStep(j, t)
          PROVE  Guarded(i)
      <3>1. Presents(j, t) /\ token' = token
        BY <2>3 DEF FileStep, PrepareChunks, Progress, RecordProgress, CanRecordProgress,
                    ResetFile, CanReset, UpdateFile, Owns, claimVars
      <3>2. i # j => SameRows(i)
        BY <2>3 DEF FileStep, PrepareChunks, Progress, RecordProgress, ResetFile,
                    UpdateFile, SameRows
      <3> QED
        BY <3>1, <3>2 DEF Presents
    <2>4. CASE Poll
      BY <2>4 DEF Poll, ClaimNothing, Claim, rows, SameRows
    <2> QED
      BY <2>1, <2>2, <2>3, <2>4 DEF Next
  <1>2. QueueInv /\ [Next]_vars => [\A j \in JobIds : Guarded(j)]_vars
    BY <1>1
  <1> QED
    BY <1>2, QueueInvariant, PTL DEF Spec, OwnerWritesRows

-----------------------------------------------------------------------------
(* The counters.                                                           *)

\* No file row has more bytes than its file, and a job without a snapshot has no bytes:
\* save_snapshot, which replaces the rows and leaves the counters, finds nothing to count.
BytesInv(j) ==
    /\ jobBytes[j] = SumBytes(fbytes[j])
    /\ \A f \in Files : fbytes[j][f] <= Size[f]
    /\ ~ snapshot[j] => fbytes[j] = NoFiles(0)

CountInv == jobBytes \in [JobIds -> Nat] /\ \A j \in JobIds : BytesInv(j)

LEMMA SumOfBytes ==
    /\ \A b : SumBytes(b) = SumOf(b, Files)
    /\ SumBytes(NoFiles(0)) = 0
    /\ \A b \in [Files -> Nat] : SumBytes(b) \in Nat
  <1>1. \A b : SumBytes(b) = SumOf(b, Files)
    BY DEF SumBytes, SumOf
  <1>2. SumOf(NoFiles(0), Files) = 0
    BY SumZero DEF NoFiles
  <1>3. \A b \in [Files -> Nat] : SumOf(b, Files) \in Nat
    BY SumType
  <1> QED
    BY <1>1, <1>2, <1>3

\* A step leaves the bytes of a job, recounts them, or starts from nothing.
LEMMA BytesStep ==
    ASSUME QueueInv, CountInv, NEW i \in JobIds,
           fbytes' \in [JobIds -> [Files -> Nat]],
           \A f \in Files : fbytes'[i][f] <= Size[f],
           \/ jobBytes'[i] = jobBytes[i] /\ fbytes'[i] = fbytes[i]
           \/ jobBytes'[i] = SumBytes(fbytes'[i])
           \/ fbytes'[i] = NoFiles(0) /\ jobBytes'[i] \in {0, jobBytes[i]} /\ ~ snapshot[i]
           \/ fbytes'[i] = NoFiles(0) /\ jobBytes'[i] = 0,
           ~ snapshot'[i] => (~ snapshot[i] /\ fbytes'[i] = fbytes[i]) \/ fbytes'[i] = NoFiles(0)
    PROVE  BytesInv(i)' /\ jobBytes'[i] \in Nat
  <1>1. jobBytes'[i] = SumBytes(fbytes'[i])
    BY SumOfBytes DEF CountInv, BytesInv
  <1>2. SumBytes(fbytes'[i]) \in Nat
    BY SumOfBytes
  <1>3. SumBytes(fbytes[i])' = SumBytes(fbytes'[i])
    BY DEF SumBytes, MapThenSumSet, MapThenFoldSet
  <1> QED
    BY <1>1, <1>2, <1>3 DEF CountInv, BytesInv, NoFiles

LEMMA CountSubmit ==
    ASSUME QueueInv, TypeOK', CountInv, NEW j \in JobIds, Submit(j) \/ Tick(j)
    PROVE  CountInv'
  <1>1. jobBytes' = jobBytes \/ jobBytes' = [jobBytes EXCEPT ![j] = 0]
    BY DEF Submit, Tick, EnqueueRequeues, EnqueueInserts, Retry, RequestCancel, Dismiss,
           LeaseExpires, RetryDue, totals
  <1>2. ASSUME NEW i \in JobIds
        PROVE  BytesInv(i)' /\ jobBytes'[i] \in Nat
    <2>1. CASE Dismiss(j) /\ i = j
      <3>1. fbytes'[i] = NoFiles(0) /\ jobBytes'[i] = 0
        BY <2>1 DEF Dismiss, CountInv, QueueInv, TypeOK
      <3>2. \A f \in Files : fbytes'[i][f] <= Size[f]
        BY <3>1 DEF NoFiles
      <3> QED
        BY <3>1, <3>2, BytesStep DEF TypeOK
    <2>2. CASE ~ (Dismiss(j) /\ i = j)
      <3>1. /\ jobBytes'[i] = jobBytes[i] /\ fbytes'[i] = fbytes[i]
            /\ snapshot'[i] = snapshot[i]
        BY <2>2 DEF Submit, Tick, EnqueueRequeues, EnqueueInserts, Retry, RequestCancel,
                    Dismiss, LeaseExpires, RetryDue, totals, rows, CountInv, QueueInv, TypeOK
      <3> QED
        BY <3>1, BytesStep DEF TypeOK, CountInv, BytesInv
    <2> QED
      BY <2>1, <2>2
  <1> QED
    BY <1>1, <1>2 DEF CountInv

LEMMA CountKept ==
    ASSUME QueueInv, TypeOK', CountInv, UNCHANGED <<jobBytes, fbytes, snapshot>>
    PROVE  CountInv'
  <1>1. ASSUME NEW i \in JobIds
        PROVE  BytesInv(i)'
    BY BytesStep DEF TypeOK, CountInv, BytesInv
  <1> QED
    BY <1>1 DEF CountInv

LEMMA CountJobStep ==
    ASSUME QueueInv, TypeOK', CountInv, NEW j \in JobIds, NEW t, JobStep(j, t)
    PROVE  CountInv'
  <1>1. CASE SaveSnapshot(j, t)
    <2>1. ~ snapshot[j] /\ jobBytes' = jobBytes
      BY <1>1 DEF SaveSnapshot, Owns, totals, QueueInv, RowsInv
    <2>2. /\ fbytes' = [fbytes EXCEPT ![j] = NoFiles(0)]
          /\ snapshot' = [snapshot EXCEPT ![j] = TRUE]
      BY <1>1 DEF SaveSnapshot
    <2>3. ASSUME NEW i \in JobIds
          PROVE  BytesInv(i)'
      <3>1. CASE i = j
        <4>1. fbytes'[i] = NoFiles(0) /\ \A f \in Files : fbytes'[i][f] <= Size[f]
          BY <2>2, <3>1 DEF QueueInv, TypeOK, NoFiles
        <4> QED
          BY <2>1, <3>1, <4>1, BytesStep DEF TypeOK
      <3>2. CASE i # j
        BY <2>1, <2>2, <3>2, BytesStep DEF QueueInv, TypeOK, CountInv, BytesInv
      <3> QED
        BY <3>1, <3>2
    <2> QED
      BY <2>1, <2>3 DEF CountInv
  <1>2. CASE ~ SaveSnapshot(j, t)
    BY <1>2, CountKept DEF JobStep, Heartbeat, RecordError, RecordJobError, ScheduleRetry, Release,
                           MarkVerifying, Outcome, Finish, totals, rows
  <1> QED
    BY <1>1, <1>2

LEMMA CountFileStep ==
    ASSUME QueueInv, TypeOK', CountInv, NEW j \in JobIds, NEW t, FileStep(j, t)
    PROVE  CountInv'
  <1>1. PICK f \in Files : \/ \E c \in ChunkSizes : PrepareChunks(j, f, t, c)
                           \/ Progress(j, f, t)
                           \/ \E bad \in BOOLEAN : ResetFile(j, f, t, bad)
                           \/ UpdateFile(j, f, t)
    BY DEF FileStep
  <1>2. CASE \E c \in ChunkSizes : PrepareChunks(j, f, t, c)
    BY <1>2, CountKept DEF PrepareChunks, totals
  <1>3. CASE ~ \E c \in ChunkSizes : PrepareChunks(j, f, t, c)
    <2>1. PICK b \in Nat : /\ b <= Size[f] /\ fbytes' = [fbytes EXCEPT ![j][f] = b]
                           /\ jobBytes' = [jobBytes EXCEPT ![j] = SumBytes(fbytes'[j])]
                           /\ snapshot' = snapshot /\ snapshot[j]
      BY <1>1, <1>3 DEF Progress, RecordProgress, CanRecordProgress, ResetFile, CanReset,
                        UpdateFile, Recount
    <2>2. ASSUME NEW i \in JobIds
          PROVE  BytesInv(i)' /\ jobBytes'[i] \in Nat
      <3>1. CASE i = j
        <4>1. jobBytes'[i] = SumBytes(fbytes'[i]) /\ snapshot'[i]
          BY <2>1, <3>1 DEF CountInv
        <4>2. \A g \in Files : fbytes'[i][g] <= Size[g]
          BY <2>1, <3>1 DEF QueueInv, TypeOK, CountInv, BytesInv
        <4> QED
          BY <4>1, <4>2, BytesStep DEF TypeOK
      <3>2. CASE i # j
        BY <2>1, <3>2, BytesStep DEF QueueInv, TypeOK, CountInv, BytesInv
      <3> QED
        BY <3>1, <3>2
    <2> QED
      BY <2>1, <2>2 DEF CountInv
  <1> QED
    BY <1>2, <1>3

THEOREM CountInvariant == Spec => []CountInv
  <1>1. Init => CountInv
    <2>1. ASSUME Init, NEW j \in JobIds
          PROVE  BytesInv(j)
      <3>1. jobBytes[j] = 0 /\ fbytes[j] = NoFiles(0)
        BY <2>1 DEF Init
      <3>2. \A f \in Files : fbytes[j][f] <= Size[f]
        BY <3>1 DEF NoFiles
      <3> QED
        BY <3>1, <3>2, SumOfBytes DEF BytesInv
    <2>2. Init => jobBytes \in [JobIds -> Nat]
      BY DEF Init
    <2> QED
      BY <2>1, <2>2 DEF CountInv
  <1>2. QueueInv /\ QueueInv' /\ CountInv /\ [Next]_vars => CountInv'
    <2> SUFFICES ASSUME QueueInv, TypeOK', CountInv, [Next]_vars
                 PROVE  CountInv'
      BY DEF QueueInv
    <2>1. CASE Poll \/ UNCHANGED vars
      BY <2>1, CountKept DEF Poll, ClaimNothing, Claim, vars, totals, rows
    <2>2. ASSUME NEW j \in JobIds, Submit(j) \/ Tick(j)
          PROVE  CountInv'
      BY <2>2, CountSubmit
    <2>3. ASSUME NEW j \in JobIds, NEW t \in Issued(j), JobStep(j, t) \/ FileStep(j, t)
          PROVE  CountInv'
      BY <2>3, CountJobStep, CountFileStep
    <2> QED
      BY <2>1, <2>2, <2>3 DEF Next
  <1> QED
    BY <1>1, <1>2, QueueInvariant, PTL DEF Spec

\* The counters on the job row are what the file rows add up to, although record_progress
\* recounts one of the two and save_snapshot none, while it replaces all rows.
THEOREM CountersMatch == Spec => []CountersMatchRows
  <1>1. QueueInv /\ CountInv => CountersMatchRows
    BY DEF QueueInv, RowsInv, CountInv, BytesInv, CountersMatchRows
  <1> QED
    BY <1>1, QueueInvariant, CountInvariant, PTL

\* mark_verifying and finish compare two counters with two totals: that accepts a job exactly when
\* its snapshot is saved and every file row is completed, whatever resets and progress came before.
THEOREM CountersDecide ==
    Spec => [](\A j \in JobIds :
                 AllCounted(j) <=> snapshot[j] /\ \A f \in Files : fstate[j][f] = "completed")
  <1>1. QueueInv /\ CountInv => \A j \in JobIds :
            AllCounted(j) <=> snapshot[j] /\ \A f \in Files : fstate[j][f] = "completed"
    <2> SUFFICES ASSUME QueueInv, CountInv, NEW j \in JobIds
                 PROVE  AllCounted(j) <=>
                            snapshot[j] /\ \A f \in Files : fstate[j][f] = "completed"
      OBVIOUS
    <2>1. ASSUME AllCounted(j)
          PROVE  snapshot[j] /\ \A f \in Files : fstate[j][f] = "completed"
      <3>1. Complete(fstate[j]) = Files
        BY <2>1, FullCount DEF AllCounted, QueueInv, RowsInv
      <3> QED
        BY <2>1, <3>1 DEF AllCounted, Complete
    <2>2. ASSUME snapshot[j], \A f \in Files : fstate[j][f] = "completed"
          PROVE  AllCounted(j)
      <3>1. Complete(fstate[j]) = Files
        BY <2>2 DEF Complete
      <3>2. \A f \in Files : fbytes[j][f] = Size[f]
        BY <2>2 DEF QueueInv, RowsInv
      <3>3. fbytes[j] = Size
        BY <3>2 DEF QueueInv, TypeOK
      <3>4. jobFiles[j] = Cardinality(Files) /\ jobBytes[j] = TotalBytes
        BY <3>1, <3>3 DEF QueueInv, RowsInv, CountInv, BytesInv, TotalBytes
      <3> QED
        BY <2>2, <3>4 DEF AllCounted
    <2> QED
      BY <2>1, <2>2
  <1> QED
    BY <1>1, QueueInvariant, CountInvariant, PTL
=============================================================================
