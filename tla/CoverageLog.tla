----------------------------- MODULE CoverageLog -----------------------------
(***************************************************************************)
(* One TransferCoverage object and every sequence of calls the transfer    *)
(* workers can make on it: they report ranges in any order, report the     *)
(* same range twice after a retry, and fail or skip the file at any time.  *)
(***************************************************************************)
EXTENDS TransferCoverage

CONSTANT MaxSize    \* bound on the file size

ASSUME MaxSizeAssumption == MaxSize \in Nat

VARIABLES
    cov,        \* the TransferCoverage object
    accepted    \* what the last record() returned

logVars == <<cov, accepted>>

LogInit ==
    /\ \E size \in 0..MaxSize : cov = NewCoverage(size)
    /\ accepted = FALSE

Record(offset, length) ==
    /\ accepted' = Accepts(cov, offset, length)
    /\ cov' = RecordRange(cov, offset, length)

Fail == cov' = FailCoverage(cov) /\ UNCHANGED accepted

Skip == cov' = SkipCoverage(cov) /\ UNCHANGED accepted

LogNext ==
    \/ \E offset, length \in 0..(MaxSize + 1) : Record(offset, length)
    \/ Fail
    \/ Skip

LogSpec == LogInit /\ [][LogNext]_logVars

-----------------------------------------------------------------------------
LogTypeOK ==
    /\ cov = Coverage(cov.size, cov.ranges, cov.bytes, cov.empty, cov.failed, cov.skipped)
    /\ cov.size \in 0..MaxSize
    /\ Starts(cov) \subseteq 0..cov.size
    /\ \A s \in Starts(cov) : cov.ranges[s] \in (s + 1)..cov.size
    /\ cov.bytes \in Nat
    /\ cov.empty \in BOOLEAN /\ cov.failed \in BOOLEAN /\ cov.skipped \in BOOLEAN
    /\ accepted \in BOOLEAN

\* No byte is in two recorded ranges, although record() compares a new range
\* with its two neighbours only.
RangesDisjoint ==
    \A s, t \in Starts(cov) : s < t => cov.ranges[s] <= t

\* The running total is the number of different bytes recorded.
BytesExact == cov.bytes = Cardinality(CoveredBytes(cov))

\* complete() is said of a file only when every byte of it was recorded.
CompleteMeansCovered ==
    IsComplete(cov) /\ cov.size > 0 => CoveredBytes(cov) = 0..(cov.size - 1)

\* A failed or skipped file stays incomplete, whatever is reported for it later.
GivenUpForGood ==
    [][cov.failed \/ cov.skipped => ~IsComplete(cov') /\ (accepted' => accepted)]_logVars
=============================================================================
