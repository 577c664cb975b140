--------------------------- MODULE MCAsyncWriter ---------------------------
(* Finite instance of AsyncWriter: three buffers, streams of up to 6 bytes in *)
(* chunks of at most 2, so the pool runs dry, writes are partial and the    *)
(* writer falls several chunks behind.                                      *)
EXTENDS AsyncWriter

\* After the final response the command is over.
Terminated == rpc = "replied" /\ UNCHANGED vars

MCSpec == Init /\ [][Next \/ Terminated]_vars /\ Fairness
=============================================================================
