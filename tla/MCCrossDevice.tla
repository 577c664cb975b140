--------------------------- MODULE MCCrossDevice ---------------------------
(* Finite instances of CrossDevice. *)
EXTENDS CrossDevice

CONSTANTS p1, p2

\* A folder, an empty file, a file of two ranges, one of them with two chunks.
RelayPlan == <<[dir |-> TRUE, size |-> 0], [dir |-> FALSE, size |-> 0],
               [dir |-> FALSE, size |-> 3], [dir |-> FALSE, size |-> 1]>>
=============================================================================
