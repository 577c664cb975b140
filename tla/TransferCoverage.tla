-------------------------- MODULE TransferCoverage --------------------------
(***************************************************************************)
(* transfer_coverage.h: which byte ranges of a file have been transferred. *)
(* A coverage value is a record; the operators are the class's methods.    *)
(* m_ranges maps the first byte of each recorded range to the byte after   *)
(* its last.  The sums of the code cannot wrap: record() compares length   *)
(* with m_size - offset only after offset <= m_size.                       *)
(***************************************************************************)
EXTENDS Naturals, FiniteSets

Coverage(size, ranges, bytes, empty, failed, skipped) ==
    [size |-> size, ranges |-> ranges, bytes |-> bytes,
     empty |-> empty, failed |-> failed, skipped |-> skipped]

NewCoverage(size) == Coverage(size, <<>>, 0, FALSE, FALSE, FALSE)

\* The starts of the recorded ranges: an empty map is the empty function.
Starts(c) == DOMAIN c.ranges

InRange(c, offset, length) == offset <= c.size /\ length <= c.size - offset

\* lower_bound(offset) has this very range, or overlaps it.
Repeated(c, offset, length) ==
    offset \in Starts(c) /\ c.ranges[offset] = offset + length
NextOverlaps(c, offset, length) ==
    \E s \in Starts(c) : offset <= s /\ s < offset + length

\* Mutant of PrevOverlaps: the range before the new one is not looked at.
PrevIgnored(c, offset) == FALSE

\* Only the range just before lower_bound(offset) is looked at.
PrevOverlaps(c, offset) ==
    \E s \in Starts(c) : /\ s < offset
                         /\ \A t \in Starts(c) : t < offset => t <= s
                         /\ c.ranges[s] > offset

\* The new range is accepted into the map.
Inserts(c, offset, length) ==
    /\ ~c.failed /\ ~c.skipped /\ InRange(c, offset, length)
    /\ length > 0
    /\ ~Repeated(c, offset, length)
    /\ ~NextOverlaps(c, offset, length)
    /\ ~PrevOverlaps(c, offset)

\* The value record(offset, length) returns.
Accepts(c, offset, length) ==
    /\ ~c.failed /\ ~c.skipped /\ InRange(c, offset, length)
    /\ IF length = 0 THEN c.size = 0 /\ offset = 0
       ELSE Repeated(c, offset, length) \/ Inserts(c, offset, length)

\* m_emptyComplete is set; the range is put into the map and counted.
NoteEmpty(c) == Coverage(c.size, c.ranges, c.bytes, TRUE, c.failed, c.skipped)
Insert(c, offset, length) ==
    Coverage(c.size,
             [s \in Starts(c) \cup {offset} |->
                IF s = offset THEN offset + length ELSE c.ranges[s]],
             c.bytes + length, c.empty, c.failed, c.skipped)

\* Mutant of RecordRange: a repeated range is counted again.
RecordRangeTwice(c, offset, length) ==
    IF Accepts(c, offset, length)
    THEN IF length = 0 THEN NoteEmpty(c) ELSE Insert(c, offset, length)
    ELSE c

\* The coverage after record(offset, length).
RecordRange(c, offset, length) ==
    IF length = 0 /\ Accepts(c, offset, 0) THEN NoteEmpty(c)
    ELSE IF Inserts(c, offset, length) THEN Insert(c, offset, length)
    ELSE c

FailCoverage(c) == Coverage(c.size, c.ranges, c.bytes, c.empty, TRUE, c.skipped)
SkipCoverage(c) == Coverage(c.size, c.ranges, c.bytes, c.empty, c.failed, TRUE)

IsComplete(c) ==
    ~c.failed /\ ~c.skipped /\ (IF c.size = 0 THEN c.empty ELSE c.bytes = c.size)

CopiedBytes(c) == IF IsComplete(c) THEN c.size ELSE 0

\* The bytes in a recorded range; the code never materialises this set.
CoveredBytes(c) == UNION {s..(c.ranges[s] - 1) : s \in Starts(c)}
=============================================================================
