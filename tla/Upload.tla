------------------------------- MODULE Upload -------------------------------
(***************************************************************************)
(* What an upload command of the device daemon promises its client: bytes  *)
(* of the stream are stored at their own positions, in any order and at    *)
(* any time after they were received, and the final RSP_OK is sent only    *)
(* when every received byte is in the file.  RSP_ERROR may be sent at any  *)
(* time and leaves a partial file.                                         *)
(*                                                                         *)
(* A byte of the source stream is named by its position, so a correct file *)
(* holds p at position p.                                                  *)
(***************************************************************************)
EXTENDS Naturals

CONSTANTS
    StreamLen,  \* bound on the length of the uploaded stream
    Unwritten   \* content of a file position nothing was written to

VARIABLES
    received,   \* bytes accepted from the client
    file,       \* [0..StreamLen-1 -> source position \cup {Unwritten}]
    reply       \* "none", "ok" or "error"

vars == <<received, file, reply>>

Positions == 0..(StreamLen - 1)

Init ==
    /\ received = 0
    /\ file = [p \in Positions |-> Unwritten]
    /\ reply = "none"

Accept ==
    /\ reply = "none"
    /\ received' \in received..StreamLen
    /\ UNCHANGED <<file, reply>>

\* Some received bytes reach the file, each at its own position.
Store ==
    /\ reply = "none"
    /\ \E S \in SUBSET (0..(received - 1)) :
          file' = [p \in Positions |-> IF p \in S THEN p ELSE file[p]]
    /\ UNCHANGED <<received, reply>>

Succeed ==
    /\ reply = "none"
    /\ \A p \in 0..(received - 1) : file[p] = p
    /\ reply' = "ok"
    /\ UNCHANGED <<received, file>>

Fail ==
    /\ reply = "none"
    /\ reply' = "error"
    /\ UNCHANGED <<received, file>>

Next == Accept \/ Store \/ Succeed \/ Fail

Spec == Init /\ [][Next]_vars
=============================================================================
