------------------------- MODULE MCParallelTransfer -------------------------
(* Finite instances of ParallelTransfer. *)
EXTENDS ParallelTransfer

CONSTANTS w1, w2

Item(k, n) == [kind |-> k, size |-> n]

\* A small file and one large enough to be split.
PullPlan == <<Item("whole", 1), Item("split", 2)>>
PushPlan == <<Item("dir", 0), Item("whole", 1), Item("whole", 0)>>
OnePlan == <<Item("split", 2)>>

=============================================================================
