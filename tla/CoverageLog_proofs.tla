------------------------- MODULE CoverageLog_proofs -------------------------
(***************************************************************************)
(* What TransferCoverage promises, for files of every size and every       *)
(* sequence of calls: the recorded ranges are disjoint, the running total  *)
(* counts the different bytes in them, so that complete() is true of a     *)
(* file only when each byte of it was recorded.  The first part states     *)
(* facts about the operators of TransferCoverage, for every coverage that  *)
(* is sound; the proofs about ParallelTransfer rest on them too.           *)
(***************************************************************************)
EXTENDS CoverageLog, Integers, FiniteSetTheorems, WellFoundedInduction, TLAPS

-----------------------------------------------------------------------------
(* The operators. *)

\* A set of naturals below a bound has a largest member: lower_bound() and
\* std::prev find the range before a new one.
LEMMA LargestExists ==
    ASSUME NEW n \in Nat, NEW S \in SUBSET Nat, S # {}, \A x \in S : x < n
    PROVE  \E m \in S : \A x \in S : x <= m
<1> DEFINE T == {n - x : x \in S}
<1>1. T \subseteq Nat /\ T # {}
  <2>1. ASSUME NEW x \in S PROVE n - x \in Nat
    OBVIOUS
  <2>2. PICK x \in S : TRUE
    OBVIOUS
  <2>3. n - x \in T
    BY <2>2
  <2> QED BY <2>1, <2>3
<1>2. \E t \in T : \A u \in T : ~(<<u, t>> \in OpToRel(<, Nat))
  <2> HIDE DEF T
  <2> QED BY <1>1, NatLessThanWellFounded, WFMin
<1>3. PICK t \in T : \A u \in T : ~(u < t)
  <2> SUFFICES ASSUME NEW t \in T, \A u \in T : ~(<<u, t>> \in OpToRel(<, Nat))
               PROVE  \A u \in T : ~(u < t)
    BY <1>2
  <2> HIDE DEF T
  <2> QED BY <1>1 DEF OpToRel
<1>4. PICK m \in S : t = n - m
  OBVIOUS
<1>5. ASSUME NEW x \in S PROVE x <= m
  <2>1. ~(n - x < n - m)
    BY <1>3, <1>4
  <2> QED BY <2>1
<1> QED BY <1>5

\* The invariant on the coverage object itself.
Disjoint(c) == \A s, t \in Starts(c) : s < t => c.ranges[s] <= t
WellFormed(c) ==
    /\ c.size \in Nat
    /\ Starts(c) \subseteq 0..c.size
    /\ \A s \in Starts(c) : c.ranges[s] \in (s + 1)..c.size

\* A range the neighbours of which were looked at overlaps no other range.
LEMMA InsertClear ==
    ASSUME NEW c, WellFormed(c), Disjoint(c),
           NEW o \in Nat, NEW l \in Nat, Inserts(c, o, l)
    PROVE  \A s \in Starts(c) : c.ranges[s] <= o \/ o + l <= s
<1>1. l > 0 /\ ~NextOverlaps(c, o, l) /\ ~PrevOverlaps(c, o)
  BY DEF Inserts
<1>2. Starts(c) \subseteq Nat /\ \A s \in Starts(c) : c.ranges[s] \in Nat
  BY DEF WellFormed
<1> SUFFICES ASSUME NEW s \in Starts(c), ~(o + l <= s) PROVE c.ranges[s] <= o
  BY <1>2
<1>3. s < o
  BY <1>1, <1>2 DEF NextOverlaps
<1> DEFINE Below == {t \in Starts(c) : t < o}
<1>4. \E m \in Below : \A t \in Below : t <= m
  BY <1>2, <1>3, LargestExists
<1>5. PICK m \in Below : \A t \in Below : t <= m
  BY <1>4
<1>6. ~(c.ranges[m] > o)
  BY <1>1, <1>2, <1>5 DEF PrevOverlaps
<1>7. s <= m
  BY <1>3, <1>5
<1>8. CASE s = m
  BY <1>2, <1>6, <1>8
<1>9. CASE s < m
  <2>1. c.ranges[s] <= m
    BY <1>9 DEF Disjoint
  <2> QED BY <2>1, <1>2
<1> QED BY <1>2, <1>7, <1>8, <1>9

\* An accepted range keeps the map well formed and its ranges disjoint.
LEMMA InsertKeeps ==
    ASSUME NEW c, WellFormed(c), Disjoint(c),
           NEW o \in Nat, NEW l \in Nat, Inserts(c, o, l)
    PROVE  LET d == Insert(c, o, l) IN WellFormed(d) /\ Disjoint(d)
<1> DEFINE d == Insert(c, o, l)
<1>1. /\ d.size = c.size
      /\ Starts(d) = Starts(c) \cup {o}
      /\ d.ranges[o] = o + l
      /\ \A s \in Starts(c) \ {o} : d.ranges[s] = c.ranges[s]
  BY DEF Insert, Coverage, Starts
<1>2. \A s \in Starts(c) : c.ranges[s] <= o \/ o + l <= s
  BY InsertClear
<1>3. l > 0 /\ o + l <= c.size
  BY DEF Inserts, InRange, WellFormed
<1>4. /\ c.size \in Nat /\ Starts(c) \subseteq 0..c.size
      /\ \A s \in Starts(c) : c.ranges[s] \in (s + 1)..c.size
  BY DEF WellFormed
<1>5. o \notin Starts(c)
  BY <1>2, <1>3, <1>4
<1> HIDE DEF d
<1>6. WellFormed(d)
  <2>1. \A s \in Starts(d) : d.ranges[s] \in (s + 1)..d.size
    BY <1>1, <1>3, <1>4
  <2>2. Starts(d) \subseteq 0..d.size
    BY <1>1, <1>3, <1>4
  <2> QED BY <2>1, <2>2, <1>1, <1>4 DEF WellFormed
<1>7. Disjoint(d)
  <2> SUFFICES ASSUME NEW s \in Starts(d), NEW t \in Starts(d), s < t
               PROVE  d.ranges[s] <= t
    BY DEF Disjoint
  <2>1. CASE s = o
    BY <2>1, <1>1, <1>2, <1>3, <1>4
  <2>2. CASE t = o
    BY <2>2, <1>1, <1>2, <1>3, <1>4
  <2>3. CASE s # o /\ t # o
    BY <2>3, <1>1 DEF Disjoint
  <2> QED BY <2>1, <2>2, <2>3
<1> QED BY <1>6, <1>7 DEF d

-----------------------------------------------------------------------------
\* The recorded bytes are bytes of the file.
LEMMA CoveredInside ==
    ASSUME NEW c, WellFormed(c)
    PROVE  /\ CoveredBytes(c) \subseteq 0..(c.size - 1)
           /\ IsFiniteSet(CoveredBytes(c))
<1>1. CoveredBytes(c) \subseteq 0..(c.size - 1)
  <2> SUFFICES ASSUME NEW s \in Starts(c), NEW x \in s..(c.ranges[s] - 1)
               PROVE  x \in 0..(c.size - 1)
    BY DEF CoveredBytes
  <2> QED BY DEF WellFormed
<1>2. IsFiniteSet(0..(c.size - 1))
  BY FS_Interval DEF WellFormed
<1> QED BY <1>1, <1>2, FS_Subset

\* An accepted range adds exactly its own bytes, none of them recorded before.
LEMMA InsertAdds ==
    ASSUME NEW c, WellFormed(c), Disjoint(c),
           NEW o \in Nat, NEW l \in Nat, Inserts(c, o, l)
    PROVE  /\ CoveredBytes(Insert(c, o, l)) = CoveredBytes(c) \cup (o..(o + l - 1))
           /\ CoveredBytes(c) \cap (o..(o + l - 1)) = {}
<1> DEFINE d == Insert(c, o, l)
<1>1. /\ Starts(d) = Starts(c) \cup {o}
      /\ d.ranges[o] = o + l
      /\ \A s \in Starts(c) \ {o} : d.ranges[s] = c.ranges[s]
  BY DEF Insert, Coverage, Starts
<1>2. \A s \in Starts(c) : c.ranges[s] <= o \/ o + l <= s
  BY InsertClear
<1>3. /\ l > 0 /\ Starts(c) \subseteq Nat
      /\ \A s \in Starts(c) : c.ranges[s] \in (s + 1)..c.size /\ c.ranges[s] \in Nat
  BY DEF Inserts, WellFormed
<1>4. o \notin Starts(c)
  BY <1>2, <1>3
<1> HIDE DEF d
<1>5. ASSUME NEW x PROVE x \in CoveredBytes(d) <=> x \in CoveredBytes(c) \cup (o..(o + l - 1))
  <2>1. x \in CoveredBytes(d) <=> \E s \in Starts(d) : x \in s..(d.ranges[s] - 1)
    BY DEF CoveredBytes
  <2>2. x \in CoveredBytes(c) <=> \E s \in Starts(c) : x \in s..(c.ranges[s] - 1)
    BY DEF CoveredBytes
  <2>3. \A s \in Starts(c) : d.ranges[s] = c.ranges[s]
    BY <1>1, <1>4
  <2> QED BY <2>1, <2>2, <2>3, <1>1
<1>6. ASSUME NEW s \in Starts(c), NEW x \in s..(c.ranges[s] - 1) PROVE x \notin o..(o + l - 1)
  BY <1>2, <1>3
<1>7. CoveredBytes(c) \cap (o..(o + l - 1)) = {}
  BY <1>6 DEF CoveredBytes
<1>8. CoveredBytes(d) = CoveredBytes(c) \cup (o..(o + l - 1))
  BY <1>5
<1> QED BY <1>7, <1>8 DEF d

\* The invariant of one object: the map is well formed, its ranges are disjoint
\* and the running total is the number of recorded bytes.
Sound(c) ==
    /\ WellFormed(c) /\ Disjoint(c)
    /\ c.bytes \in Nat /\ c.bytes = Cardinality(CoveredBytes(c))

\* Counting: the total stays exact when a range is inserted.
LEMMA InsertSound ==
    ASSUME NEW c, Sound(c), NEW o \in Nat, NEW l \in Nat, Inserts(c, o, l)
    PROVE  Sound(Insert(c, o, l))
<1> DEFINE d == Insert(c, o, l)
           New == o..(o + l - 1)
<1>1. WellFormed(c) /\ Disjoint(c) /\ c.bytes \in Nat /\ c.bytes = Cardinality(CoveredBytes(c))
  BY DEF Sound
<1>2. WellFormed(d) /\ Disjoint(d)
  BY Zenon, <1>1, InsertKeeps
<1>3. d.size = c.size /\ d.bytes = c.bytes + l
  BY DEF Insert, Coverage, Starts
<1>4. CoveredBytes(d) = CoveredBytes(c) \cup New /\ CoveredBytes(c) \cap New = {}
  BY <1>1, InsertAdds
<1>5. IsFiniteSet(CoveredBytes(c))
  BY <1>1, CoveredInside
<1>6. IsFiniteSet(New) /\ Cardinality(New) = l
  <2>1. l > 0
    BY DEF Inserts
  <2> QED BY <2>1, FS_Interval
<1> HIDE DEF d, New
<1>7. Cardinality(CoveredBytes(d)) = Cardinality(CoveredBytes(c)) + l
  <2>1. Cardinality(CoveredBytes(c) \cup New)
          = Cardinality(CoveredBytes(c)) + Cardinality(New) - Cardinality(CoveredBytes(c) \cap New)
    BY <1>5, <1>6, FS_Union
  <2>2. Cardinality(CoveredBytes(c) \cap New) = 0
    BY <1>4, FS_EmptySet
  <2> QED BY <2>1, <2>2, <1>1, <1>4, <1>6
<1>8. d.bytes \in Nat /\ d.bytes = Cardinality(CoveredBytes(d))
  BY <1>1, <1>3, <1>7
<1> QED BY <1>2, <1>8 DEF Sound, d

\* Equal maps give equal ranges and bytes: empty, failed and skipped do not matter.
LEMMA SameRanges ==
    ASSUME NEW c, NEW e, NEW f, NEW k, Sound(c)
    PROVE  Sound(Coverage(c.size, c.ranges, c.bytes, e, f, k))
<1> DEFINE d == Coverage(c.size, c.ranges, c.bytes, e, f, k)
<1>1. d.size = c.size /\ d.ranges = c.ranges /\ d.bytes = c.bytes
  BY DEF Coverage
<1> HIDE DEF d
<1>2. Starts(d) = Starts(c)
  BY <1>1 DEF Starts
<1>3. CoveredBytes(d) = CoveredBytes(c)
  BY <1>1, <1>2 DEF CoveredBytes
<1>4. WellFormed(c) => WellFormed(d)
  BY <1>1, <1>2 DEF WellFormed
<1>5. Disjoint(c) => Disjoint(d)
  BY <1>1, <1>2 DEF Disjoint
<1> QED BY <1>1, <1>3, <1>4, <1>5 DEF Sound, d

\* complete() compares two numbers; it is true only of a file each byte of which
\* was recorded.
LEMMA CompleteCovered ==
    ASSUME NEW c, Sound(c), IsComplete(c), c.size > 0
    PROVE  CoveredBytes(c) = 0..(c.size - 1)
<1>1. WellFormed(c) /\ c.bytes = Cardinality(CoveredBytes(c)) /\ c.size \in Nat
  BY DEF Sound, WellFormed
<1>2. c.bytes = c.size
  BY DEF IsComplete
<1>3. /\ IsFiniteSet(0..(c.size - 1))
      /\ Cardinality(0..(c.size - 1)) = c.size
  <2> DEFINE last == c.size - 1
  <2>1. last \in Int /\ ~(0 > last) /\ last - 0 + 1 = c.size
    BY <1>1
  <2> HIDE DEF last
  <2>2. /\ IsFiniteSet(0..last)
        /\ Cardinality(0..last) = IF 0 > last THEN 0 ELSE last - 0 + 1
    BY <2>1, 0 \in Int, FS_Interval
  <2>3. IsFiniteSet(0..last) /\ Cardinality(0..last) = c.size
    BY <2>1, <2>2
  <2> QED BY <2>3 DEF last
<1>4. CoveredBytes(c) \subseteq 0..(c.size - 1)
  BY <1>1, CoveredInside
<1> QED BY <1>1, <1>2, <1>3, <1>4, FS_Subset

\* A new object records nothing.
LEMMA NewSound ==
    ASSUME NEW n \in Nat
    PROVE  /\ Sound(NewCoverage(n)) /\ CoveredBytes(NewCoverage(n)) = {}
           /\ NewCoverage(n).size = n
           /\ ~NewCoverage(n).empty /\ ~NewCoverage(n).failed /\ ~NewCoverage(n).skipped
<1> DEFINE c == NewCoverage(n)
<1>1. /\ c.size = n /\ c.ranges = <<>> /\ c.bytes = 0
      /\ ~c.empty /\ ~c.failed /\ ~c.skipped
  BY DEF NewCoverage, Coverage
<1> HIDE DEF c
<1>2. Starts(c) = {}
  BY <1>1 DEF Starts
<1>3. CoveredBytes(c) = {}
  BY <1>2 DEF CoveredBytes
<1>4. c.bytes \in Nat /\ c.bytes = Cardinality(CoveredBytes(c))
  BY <1>1, <1>3, FS_EmptySet
<1>5. Sound(c)
  BY <1>1, <1>2, <1>4 DEF Sound, WellFormed, Disjoint
<1> QED BY <1>1, <1>3, <1>5 DEF c
-----------------------------------------------------------------------------
(* Every sequence of calls. *)

\* Inductive invariant of CoverageLog: the object is Sound and well typed.
LogIInv == LogTypeOK /\ Sound(cov)

\* LogTypeOK says no more of the map than Sound does.
LEMMA LogTypeFromSound ==
    ASSUME Sound(cov), cov.size \in 0..MaxSize,
           NEW e \in BOOLEAN, NEW f \in BOOLEAN, NEW k \in BOOLEAN,
           cov = Coverage(cov.size, cov.ranges, cov.bytes, e, f, k), accepted \in BOOLEAN
    PROVE  LogTypeOK
<1>1. cov.empty = e /\ cov.failed = f /\ cov.skipped = k
  BY DEF Coverage
<1>2. /\ cov.size \in 0..MaxSize /\ cov.bytes \in Nat
      /\ Starts(cov) \subseteq 0..cov.size
      /\ \A s \in Starts(cov) : cov.ranges[s] \in (s + 1)..cov.size
  BY DEF Sound, WellFormed
<1>3. cov = Coverage(cov.size, cov.ranges, cov.bytes, cov.empty, cov.failed, cov.skipped)
  BY <1>1
<1> QED BY <1>1, <1>2, <1>3 DEF LogTypeOK

\* A new object is sound: nothing recorded, nothing counted.
LEMMA LogStarts == LogInit => LogIInv
<1> SUFFICES ASSUME LogInit PROVE LogIInv
  OBVIOUS
<1>1. PICK size \in 0..MaxSize : cov = NewCoverage(size)
  BY DEF LogInit
<1>2. size \in Nat
  BY MaxSizeAssumption
<1>3. Sound(cov) /\ cov.size = size
  BY <1>1, <1>2, NewSound
<1>4. cov = Coverage(cov.size, cov.ranges, cov.bytes, FALSE, FALSE, FALSE)
  BY <1>1 DEF NewCoverage, Coverage
<1>5. accepted \in BOOLEAN
  BY DEF LogInit
<1> QED BY <1>3, <1>4, <1>5, LogTypeFromSound DEF LogIInv

\* Every call on the object keeps it sound.
LEMMA LogSteps == LogIInv /\ [LogNext]_logVars => LogIInv'
<1> SUFFICES ASSUME LogIInv, [LogNext]_logVars PROVE LogIInv'
  OBVIOUS
<1>1. /\ Sound(cov) /\ cov.size \in 0..MaxSize /\ accepted \in BOOLEAN
      /\ cov.empty \in BOOLEAN /\ cov.failed \in BOOLEAN /\ cov.skipped \in BOOLEAN
      /\ cov = Coverage(cov.size, cov.ranges, cov.bytes, cov.empty, cov.failed, cov.skipped)
  BY DEF LogIInv, LogTypeOK
<1>2. ASSUME NEW e \in BOOLEAN, NEW f \in BOOLEAN, NEW k \in BOOLEAN,
             cov' = Coverage(cov.size, cov.ranges, cov.bytes, e, f, k),
             accepted' \in BOOLEAN
      PROVE  LogIInv'
  <2>1. Sound(cov')
    BY <1>1, <1>2, SameRanges
  <2>2. /\ cov'.size = cov.size /\ cov'.ranges = cov.ranges /\ cov'.bytes = cov.bytes
        /\ cov'.empty = e /\ cov'.failed = f /\ cov'.skipped = k
    BY <1>2 DEF Coverage
  <2>3. cov' = Coverage(cov'.size, cov'.ranges, cov'.bytes, cov'.empty, cov'.failed, cov'.skipped)
    BY <1>2, <2>2
  <2> QED BY <2>1, <2>2, <2>3, <1>2 DEF LogIInv, LogTypeOK, Sound, WellFormed
<1>3. CASE UNCHANGED logVars
  BY <1>3, <1>1, <1>2 DEF logVars
<1>4. CASE Fail
  BY <1>4, <1>1, <1>2 DEF Fail, FailCoverage
<1>5. CASE Skip
  BY <1>5, <1>1, <1>2 DEF Skip, SkipCoverage
<1>6. ASSUME NEW o \in 0..(MaxSize + 1), NEW l \in 0..(MaxSize + 1), Record(o, l)
      PROVE  LogIInv'
  <2>1. accepted' \in BOOLEAN
    BY <1>6 DEF Record, Accepts, Repeated, Inserts, InRange, NextOverlaps, PrevOverlaps
  <2>2. o \in Nat /\ l \in Nat
    BY MaxSizeAssumption
  <2>3. CASE l = 0 /\ Accepts(cov, o, 0)
    <3>1. cov' = Coverage(cov.size, cov.ranges, cov.bytes, TRUE, cov.failed, cov.skipped)
      BY <1>6, <2>3 DEF Record, RecordRange, NoteEmpty
    <3> QED BY <3>1, <2>1, <1>1, <1>2
  <2>4. CASE ~(l = 0 /\ Accepts(cov, o, 0)) /\ Inserts(cov, o, l)
    <3>1. cov' = Insert(cov, o, l)
      BY <1>6, <2>4 DEF Record, RecordRange
    <3>2. Sound(cov')
      BY <3>1, <1>1, <2>2, <2>4, InsertSound
    <3>3. /\ cov'.size = cov.size
          /\ cov'.empty = cov.empty /\ cov'.failed = cov.failed /\ cov'.skipped = cov.skipped
          /\ cov' = Coverage(cov'.size, cov'.ranges, cov'.bytes,
                             cov'.empty, cov'.failed, cov'.skipped)
      BY <3>1 DEF Insert, Coverage
    <3> QED BY <3>2, <3>3, <2>1, <1>1 DEF LogIInv, LogTypeOK, Sound, WellFormed
  <2>5. CASE ~(l = 0 /\ Accepts(cov, o, 0)) /\ ~Inserts(cov, o, l)
    <3>1. cov' = cov
      BY <1>6, <2>5 DEF Record, RecordRange
    <3> QED BY <3>1, <2>1, <1>1, <1>2
  <2> QED BY <2>3, <2>4, <2>5
<1> QED BY <1>3, <1>4, <1>5, <1>6 DEF LogNext

\* The invariant holds in every reachable state, for files of every size.
THEOREM LogInvariance == LogSpec => []LogIInv
<1>1. LogInit => LogIInv
  BY LogStarts
<1>2. LogIInv /\ [LogNext]_logVars => LogIInv'
  BY LogSteps
<1> QED BY <1>1, <1>2, PTL DEF LogSpec

\* TransferCoverage keeps the types of its fields and its ranges inside the file.
THEOREM LogTypeCorrect == LogSpec => []LogTypeOK
<1>1. LogIInv => LogTypeOK
  BY DEF LogIInv
<1> QED BY <1>1, LogInvariance, PTL

\* record() compares a new range with its two neighbours, and this suffices: no
\* byte is ever in two recorded ranges.
THEOREM NeverOverlapping == LogSpec => []RangesDisjoint
<1>1. LogIInv => RangesDisjoint
  BY DEF LogIInv, Sound, Disjoint, RangesDisjoint
<1> QED BY <1>1, LogInvariance, PTL

\* m_successfulBytes is the number of different bytes recorded.
THEOREM TotalIsExact == LogSpec => []BytesExact
<1>1. LogIInv => BytesExact
  BY DEF LogIInv, Sound, BytesExact
<1> QED BY <1>1, LogInvariance, PTL

\* complete() compares two numbers; it is true only of a file each byte of which
\* was recorded.
THEOREM CompleteIsCovered == LogSpec => []CompleteMeansCovered
<1>1. LogIInv => CompleteMeansCovered
  BY CompleteCovered DEF LogIInv, CompleteMeansCovered
<1> QED BY <1>1, LogInvariance, PTL

\* Once fail() or skip() was called nothing makes the file complete again, and no
\* later report is accepted.
THEOREM GivenUpStays == LogSpec => GivenUpForGood
<1> DEFINE Stays == cov.failed \/ cov.skipped => ~IsComplete(cov') /\ (accepted' => accepted)
<1>1. ASSUME LogIInv, [LogNext]_logVars PROVE [Stays]_logVars
  <2> SUFFICES ASSUME cov.failed \/ cov.skipped, LogNext
               PROVE  ~IsComplete(cov') /\ (accepted' => accepted)
    BY <1>1
  <2>1. ~IsComplete(cov)
    BY DEF IsComplete
  <2>2. CASE Fail
    <3>1. cov'.failed /\ accepted' = accepted
      BY <2>2 DEF Fail, FailCoverage, Coverage
    <3> QED BY <3>1 DEF IsComplete
  <2>3. CASE Skip
    <3>1. cov'.skipped /\ accepted' = accepted
      BY <2>3 DEF Skip, SkipCoverage, Coverage
    <3> QED BY <3>1 DEF IsComplete
  <2>4. ASSUME NEW o, NEW l, Record(o, l) PROVE ~IsComplete(cov') /\ (accepted' => accepted)
    <3>1. ~Accepts(cov, o, l) /\ ~Accepts(cov, o, 0) /\ ~Inserts(cov, o, l)
      BY DEF Accepts, Inserts
    <3>2. cov' = cov
      BY <3>1, <2>4 DEF Record, RecordRange
    <3>3. ~accepted'
      BY <3>1, <2>4 DEF Record
    <3> QED BY <3>2, <3>3, <2>1
  <2> QED BY <2>2, <2>3, <2>4 DEF LogNext
<1>2. []LogIInv /\ [][LogNext]_logVars => [][Stays]_logVars
  BY <1>1, PTL
<1> QED BY <1>2, LogInvariance, PTL DEF LogSpec, GivenUpForGood
=============================================================================
