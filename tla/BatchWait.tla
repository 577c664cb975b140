----------------------------- MODULE BatchWait -----------------------------
(***************************************************************************)
(* The batch thread at m_batchCV.  At a prompt it calls wait(lock,         *)
(* condition): the condition is tested with m_batchMutex held, and the     *)
(* thread sleeps until it is notified, without a timeout.  The buttons of  *)
(* the user interface and the end of the application set their flag and    *)
(* notify WITHOUT the mutex, so a notification may come between the test   *)
(* and the sleep, and is lost.                                             *)
(*                                                                         *)
(* A flag is set just before its notification.  The two count as one step: *)
(* a test in between only finds the flag earlier.                          *)
(***************************************************************************)
VARIABLE
    nap             \* "awake"; "dozing": tested in vain; "asleep"

Naps == {"awake", "dozing", "asleep"}

Awake == nap = "awake"
Dozes == nap = "awake" /\ nap' = "dozing"
FallsAsleep == nap = "dozing" /\ nap' = "asleep"

\* Only a thread that is already asleep is reached.
Notify == nap' = IF nap = "asleep" THEN "awake" ELSE nap

\* Spuriously, or by a notification meant for something else (a batch is queued,
\* a pause ends): it tests again.
Wakes == nap = "asleep" /\ nap' = "awake"
=============================================================================
