------------------------- MODULE MCSingleTransfer -------------------------
(* Finite instances of SingleTransfer. *)
EXTENDS SingleTransfer

Item(n) == [dir |-> FALSE, size |-> n]
Folder == [dir |-> TRUE, size |-> 0]

\* A folder with an empty file, a file of two chunks, one of a single chunk and an
\* empty folder: the batch may replace the second and the fourth item, one decision
\* serving for both.
MixedPlan == <<Folder, Item(0), Item(2), Item(1), Folder>>
MixedParent == <<0, 1, 0, 0, 0>>
ShortPlan == <<Item(2), Item(1)>>
ShortParent == <<0, 0>>
=============================================================================
