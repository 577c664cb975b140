---------------------------- MODULE MCDokanDrive ----------------------------
(* Finite instance of DokanDrive: two programs, two names, buffers of two    *)
(* blocks and one cached chunk.                                              *)
EXTENDS DokanDrive, TLC

Symmetry == Permutations(Program) \cup Permutations(Path)

\* The safety properties except harmed paths: a behaviour is not followed
\* further once a path is harmed.
Unharmed == harmed = {}

\* Three blocks are written with two calls, or two blocks with three; a command
\* that fails takes the place of one of these.
Bounded == writes + calls + faults <= 5
=============================================================================
