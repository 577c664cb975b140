--------------------------- MODULE SingleTransfer ---------------------------
(***************************************************************************)
(* A batch copied item by item: the single-channel branch of               *)
(* App::processBatchQueue with the transfers of DeviceClient it calls      *)
(* (pullFile, pushFile, resumePullFile, resumePushFile), their handlers on *)
(* the device, and copyLocalFile.  A failed attempt waits for the device,  *)
(* restarts the server and resumes from what the destination holds.        *)
(*                                                                         *)
(* A file is the sequence of its chunks: "new" for one that equals the     *)
(* source's, "old" for one of the file that was there before.  A chunk is  *)
(* what a progress callback is called for.                                 *)
(***************************************************************************)
EXTENDS Integers, Sequences, FiniteSets, BatchWait

CONSTANTS
    Plan,           \* the items: sequence of [dir : BOOLEAN, size : Nat]
    Parent,         \* the item an item lies in, or 0
    Present,        \* the items whose destination exists when the batch starts
    Kinds,          \* the kinds of batch considered
    MaxRetries,     \* automatic retries of an item (10 in the code)
    CrcTries,       \* attempts at a verification (3 in the code)
    Verify,         \* the preference enableCrcVerification
    MayShutDown     \* the application may be closed while the batch runs

Files == 1..Len(Plan)
Size(f) == Plan[f].size
IsDir(f) == Plan[f].dir

\* "move" is between drives (copy, then delete); "rename" is a move on one drive.
ASSUME PlanAssumption ==
    /\ Plan \in Seq([dir : BOOLEAN, size : Nat]) /\ Plan # <<>>
    /\ \A f \in Files : IsDir(f) => Size(f) = 0
    /\ Parent \in [Files -> Files \cup {0}]
    /\ Present \subseteq {f \in Files : ~IsDir(f)}
    /\ Kinds \subseteq {"pull", "push", "copy", "move", "rename"}
ASSUME BoundsAssumption == MaxRetries \in Nat /\ CrcTries \in Nat \ {0}
ASSUME FlagsAssumption == {Verify, MayShutDown} \subseteq BOOLEAN

VARIABLES
    pc,             \* where the batch thread is
    kind,           \* isPull, isLocalCopy, isMove and the drives: fixed
    next,           \* fi
    current,        \* currentFileIndex
    state,          \* TransferBatch.state
    stopRequested, pauseRequested,
    shutdown,       \* m_shutdownTransfer
    response,       \* conflictResponse
    allDecision,    \* conflictAllDecision
    retryRequested, \* userRetryRequested
    attempt, isResume,
    error,          \* what lastError says of the attempt that failed
    up,             \* m_connected
    from,           \* the chunk the attempt started behind
    sent,           \* chunks of the current file the sender has sent
    dest,           \* the destination files
    source,         \* the source files that are still there
    partial,        \* localPartialPath: an item, or 0
    completed,      \* the items counted in bytesCompletedBefore
    skipped,        \* the items counted in skippedFiles
    answers,        \* history: what the user has answered, per item
    crcFailed,      \* the items with a failed crcResults entry
    unconfirmed     \* history: pushes that ended without the device's answer

loopVars == <<next, current, completed, skipped, crcFailed>>
flagVars == <<stopRequested, pauseRequested, shutdown, response, retryRequested, answers>>
uiVars   == <<flagVars, nap>>
tryVars  == <<attempt, isResume, error, from, sent>>
fileVars == <<dest, source, partial, unconfirmed>>
vars == <<pc, kind, loopVars, state, uiVars, allDecision, tryVars, up, fileVars>>

Remote == kind \in {"pull", "push"}

Absent == [there |-> FALSE, data |-> <<>>]
File(data) == [there |-> TRUE, data |-> data]
Whole(f) == [i \in 1..Size(f) |-> "new"]
Stored(f) == Len(dest[f].data)
Delivered(f) == dest[f] = File(Whole(f))

Init ==
    /\ pc = "next" /\ kind \in Kinds
    /\ next = 1 /\ current = 1
    /\ state = "Running"
    /\ stopRequested = FALSE /\ pauseRequested = FALSE /\ shutdown = FALSE
    /\ response = "none" /\ allDecision = "none" /\ retryRequested = FALSE
    /\ answers = [f \in Files |-> "none"] /\ nap = "awake"
    /\ attempt = 0 /\ isResume = FALSE /\ error = "none" /\ up = TRUE
    /\ from = 0 /\ sent = 0
    /\ dest = [f \in Files |-> IF f \in Present THEN File(<<"old">>) ELSE Absent]
    /\ source = Files /\ partial = 0
    /\ completed = {} /\ skipped = {} /\ crcFailed = {} /\ unconfirmed = {}

-----------------------------------------------------------------------------
(* The loop over the items. *)

LoopEnds ==
    /\ pc = "next" /\ (next > Len(Plan) \/ shutdown)
    /\ pc' = "clean"
    /\ UNCHANGED <<kind, loopVars, state, uiVars, allDecision, tryVars, up, fileVars>>

NextItem ==
    /\ pc = "next" /\ next <= Len(Plan) /\ ~shutdown
    /\ pc' = "begin"
    /\ UNCHANGED <<kind, loopVars, state, uiVars, allDecision, tryVars, up, fileVars>>

StopBetween ==
    /\ pc = "begin" /\ stopRequested
    /\ state' = "Stopped"
    /\ pc' = "clean"
    /\ UNCHANGED <<kind, loopVars, uiVars, allDecision, tryVars, up, fileVars>>

PauseBetween ==
    /\ pc = "begin" /\ pauseRequested /\ ~shutdown /\ ~stopRequested
    /\ state # "Paused" /\ state' = "Paused"
    /\ UNCHANGED <<pc, kind, loopVars, uiVars, allDecision, tryVars, up, fileVars>>

\* Mutant of BeginItem: Stop is not looked at after a pause.
BeginItemAnyway ==
    /\ pc = "begin" /\ (~pauseRequested \/ shutdown)
    /\ current' = next
    /\ state' = "Running"
    /\ pc' = IF IsDir(next) THEN "try" ELSE "resolve"
    /\ attempt' = 0 /\ isResume' = FALSE /\ error' = "none" /\ from' = 0 /\ sent' = 0
    /\ UNCHANGED <<kind, next, completed, skipped, crcFailed, uiVars, allDecision, up, fileVars>>

BeginItem ==
    /\ pc = "begin" /\ ~stopRequested /\ (~pauseRequested \/ shutdown)
    /\ current' = next
    /\ state' = "Running"
    /\ pc' = IF IsDir(next) THEN "try" ELSE "resolve"
    /\ attempt' = 0 /\ isResume' = FALSE /\ error' = "none" /\ from' = 0 /\ sent' = 0
    /\ UNCHANGED <<kind, next, completed, skipped, crcFailed, uiVars, allDecision, up, fileVars>>

\* The write test in the destination folder, or a read-only destination.
WriteRefused ==
    /\ pc = "resolve" /\ kind # "push"
    /\ state' = "Failed"
    /\ pc' = "clean"
    /\ UNCHANGED <<kind, loopVars, uiVars, allDecision, tryVars, up, fileVars>>

\* exists() on the PC.  On the device getFileSize() > 0, which is also false
\* when the request fails.
DestExists(seen) ==
    /\ seen \in BOOLEAN
    /\ IF kind = "push" THEN seen => up /\ Stored(current) > 0
                        ELSE seen = dest[current].there

NoConflict ==
    /\ pc = "resolve" /\ DestExists(FALSE)
    /\ pc' = "try"
    /\ UNCHANGED <<kind, loopVars, state, uiVars, allDecision, tryVars, up, fileVars>>

\* What follows the choice, sticky or just made.  A prompt ended by Stop or by
\* the end of the application made none.
Decide(action) ==
    \/ /\ stopRequested \/ shutdown
       /\ state' = "Stopped"
       /\ pc' = "clean"
       /\ UNCHANGED <<next, skipped>>
    \/ /\ ~stopRequested /\ ~shutdown /\ action \in {"skip", "skipAll"}
       /\ skipped' = skipped \cup {current}
       /\ next' = next + 1
       /\ pc' = "next"
       /\ state' = "Running"
    \/ /\ ~stopRequested /\ ~shutdown /\ action \in {"overwrite", "overwriteAll"}
       /\ pc' = "try"
       /\ state' = "Running"
       /\ UNCHANGED <<next, skipped>>

Decided ==
    /\ pc = "resolve" /\ DestExists(TRUE) /\ allDecision # "none"
    /\ Decide(allDecision)
    /\ UNCHANGED <<kind, current, completed, crcFailed, uiVars, allDecision, tryVars, up, fileVars>>

Ask ==
    /\ pc = "resolve" /\ DestExists(TRUE) /\ allDecision = "none"
    /\ response' = "none"
    /\ state' = "WaitingConflict"
    /\ pc' = "asked"
    /\ UNCHANGED <<kind, loopVars, stopRequested, pauseRequested, shutdown, retryRequested,
                   answers, nap, allDecision, tryVars, up, fileVars>>

\* What the thread waits for at a prompt.
PromptOver ==
    \/ stopRequested \/ shutdown
    \/ pc = "asked" /\ response # "none"
    \/ pc = "askRetry" /\ retryRequested

Wait ==
    /\ pc \in {"asked", "askRetry"}
    /\ (~PromptOver /\ Dozes) \/ FallsAsleep
    /\ UNCHANGED <<pc, kind, loopVars, state, flagVars, allDecision, tryVars, up, fileVars>>

Woken ==
    /\ Wakes
    /\ UNCHANGED <<pc, kind, loopVars, state, flagVars, allDecision, tryVars, up, fileVars>>

\* Mutant of Answered: any answer but Skip all is taken as Overwrite.
AnsweredCarelessly ==
    /\ pc = "asked" /\ Awake /\ PromptOver
    /\ response' = "none"
    /\ allDecision' = IF response \in {"overwriteAll", "skipAll"} THEN response ELSE allDecision
    /\ Decide(IF response = "skipAll" THEN response ELSE "overwrite")
    /\ UNCHANGED <<kind, current, completed, crcFailed, stopRequested, pauseRequested, shutdown,
                   retryRequested, answers, nap, tryVars, up, fileVars>>

Answered ==
    /\ pc = "asked" /\ Awake /\ PromptOver
    /\ response' = "none"
    /\ allDecision' = IF response \in {"overwriteAll", "skipAll"} THEN response ELSE allDecision
    /\ Decide(response)
    /\ UNCHANGED <<kind, current, completed, crcFailed, stopRequested, pauseRequested, shutdown,
                   retryRequested, answers, nap, tryVars, up, fileVars>>

-----------------------------------------------------------------------------
(* One attempt at an item. *)

TryStopped ==
    /\ pc = "try" /\ Remote /\ stopRequested
    /\ pc' = "gaveUp"
    /\ UNCHANGED <<kind, loopVars, state, uiVars, allDecision, tryVars, up, fileVars>>

\* That creating a folder fails is an exception in a local batch (CopyRefused) and
\* not looked at in a pull or a push.
MakeDirectory ==
    /\ pc = "try" /\ IsDir(current) /\ (Remote => ~stopRequested)
    /\ \E made \in BOOLEAN :
          /\ ~Remote => made
          /\ kind = "push" /\ ~up => ~made
          /\ dest' = IF made THEN [dest EXCEPT ![current] = File(<<>>)] ELSE dest
    /\ pc' = "succeeded"
    /\ UNCHANGED <<kind, loopVars, state, uiVars, allDecision, tryVars, up, source, partial, unconfirmed>>

\* Where a transfer starts.  A pull is resumed behind what the PC holds; a push
\* behind what the device holds, unless that is as long as the whole.
Offset ==
    IF ~isResume \/ (kind # "pull" /\ Stored(current) >= Size(current))
    THEN 0 ELSE Stored(current)

Opening == pc = "try" /\ Remote /\ ~IsDir(current) /\ ~stopRequested

\* Mutant of Open: a resumed transfer leaves out one chunk.
OpenOneAhead ==
    /\ Opening /\ up
    /\ dest' = IF Offset = 0 THEN [dest EXCEPT ![current] = File(<<>>)] ELSE dest
    /\ from' = Offset /\ sent' = IF Offset = 0 THEN 0 ELSE Offset + 1
    /\ pc' = "moving"
    /\ UNCHANGED <<kind, loopVars, state, uiVars, allDecision, attempt, isResume, error,
                   up, source, partial, unconfirmed>>

\* The request is answered and the destination opened: truncated at offset 0.
Open ==
    /\ Opening /\ up
    /\ dest' = IF Offset = 0 THEN [dest EXCEPT ![current] = File(<<>>)] ELSE dest
    /\ from' = Offset /\ sent' = Offset
    /\ pc' = "moving"
    /\ UNCHANGED <<kind, loopVars, state, uiVars, allDecision, attempt, isResume, error,
                   up, source, partial, unconfirmed>>

\* No connection, no answer, or an error for an answer: nothing is opened.
OpenFails ==
    /\ Opening
    /\ error' = "lost"
    /\ pc' = "failed"
    /\ UNCHANGED <<kind, loopVars, state, uiVars, allDecision, attempt, isResume, from, sent,
                   up, fileVars>>

\* "Failed to create local file": not retried.
LocalError ==
    /\ Opening /\ up /\ kind = "pull" /\ Offset = 0
    /\ error' = "local"
    /\ pc' = "failed"
    /\ UNCHANGED <<kind, loopVars, state, uiVars, allDecision, attempt, isResume, from, sent,
                   up, fileVars>>

OpenCopy ==
    /\ pc = "try" /\ kind \in {"copy", "move"} /\ ~IsDir(current)
    /\ dest' = [dest EXCEPT ![current] = File(<<>>)]
    /\ from' = 0 /\ sent' = 0
    /\ pc' = "moving"
    /\ UNCHANGED <<kind, loopVars, state, uiVars, allDecision, attempt, isResume, error,
                   up, source, partial, unconfirmed>>

Rename ==
    /\ pc = "try" /\ kind = "rename" /\ ~IsDir(current)
    /\ dest' = [dest EXCEPT ![current] = File(Whole(current))]
    /\ source' = source \ {current}
    /\ pc' = "succeeded"
    /\ UNCHANGED <<kind, loopVars, state, uiVars, allDecision, tryVars, up, partial, unconfirmed>>

\* An exception before anything was written.
CopyRefused ==
    /\ pc = "try" /\ ~Remote
    /\ pc' = "gaveUp"
    /\ UNCHANGED <<kind, loopVars, state, uiVars, allDecision, tryVars, up, fileVars>>

-----------------------------------------------------------------------------
(* The data. *)

Appended(f) == [dest EXCEPT ![f] = File(Append(@.data, "new"))]
Going == pc = "moving" /\ up /\ sent < Size(current)

\* A pull and a copy store a chunk as soon as it has come.
Move ==
    /\ Going /\ kind # "push"
    /\ sent' = sent + 1
    /\ dest' = Appended(current)
    /\ pc' = "asking"
    /\ UNCHANGED <<kind, loopVars, state, uiVars, allDecision, attempt, isResume, error, from,
                   up, source, partial, unconfirmed>>

\* A push hands a chunk to the connection; the device stores it later, even
\* when the connection is broken in between.
Send ==
    /\ Going /\ kind = "push"
    /\ sent' = sent + 1
    /\ pc' = "asking"
    /\ UNCHANGED <<kind, loopVars, state, uiVars, allDecision, attempt, isResume, error, from,
                   up, fileVars>>

Store ==
    /\ kind = "push" /\ Stored(current) < sent /\ dest[current].there
    /\ dest' = Appended(current)
    /\ UNCHANGED <<pc, kind, loopVars, state, uiVars, allDecision, tryVars, up, source, partial, unconfirmed>>

\* The progress callback, asked behind a chunk and before the next is stored.
\* In a pause it looks at Stop, and leaves it when the application ends.
PauseMoving ==
    /\ pc = "asking" /\ pauseRequested /\ ~stopRequested /\ ~shutdown
    /\ state # "Paused" /\ state' = "Paused"
    /\ UNCHANGED <<pc, kind, loopVars, uiVars, allDecision, tryVars, up, fileVars>>

Continue ==
    /\ pc = "asking" /\ ~stopRequested
    /\ IF state = "Paused" THEN ~pauseRequested \/ shutdown
                           ELSE ~pauseRequested /\ ~shutdown
    /\ state' = "Running"
    /\ pc' = "moving"
    /\ UNCHANGED <<kind, loopVars, uiVars, allDecision, tryVars, up, fileVars>>

\* It says no.  What it says behind the last chunk of a pull from the start is
\* not looked at.
Ignored == kind = "pull" /\ from = 0 /\ sent = Size(current)
Cancelled ==
    /\ pc = "asking" /\ (stopRequested \/ (shutdown /\ state # "Paused"))
    /\ error' = IF Ignored THEN error ELSE "cancelled"
    /\ pc' = IF Ignored THEN "moving" ELSE IF Remote THEN "failed" ELSE "gaveUp"
    /\ partial' = IF Remote THEN partial ELSE current
    /\ UNCHANGED <<kind, loopVars, state, uiVars, allDecision, attempt, isResume, from, sent,
                   up, dest, source, unconfirmed>>

\* The connection breaks under a transfer, or a disk refuses data.  A push that
\* has sent everything only misses the confirmation.
Breaks ==
    /\ pc = "moving"
    /\ kind = "push" /\ ~up => sent < Size(current)
    /\ error' = "lost"
    /\ IF Remote THEN /\ pc' = "failed"
                      /\ UNCHANGED partial
                 ELSE /\ pc' = "gaveUp"
                      /\ partial' = current
    /\ UNCHANGED <<kind, loopVars, state, uiVars, allDecision, attempt, isResume, from, sent,
                   up, dest, source, unconfirmed>>

\* pushFile gives up on an empty file when it finds nothing to read.
EmptyPush == kind = "push" /\ ~isResume /\ Size(current) = 0
EmptyPushFails ==
    /\ pc = "moving" /\ EmptyPush
    /\ error' = "lost"
    /\ pc' = "failed"
    /\ UNCHANGED <<kind, loopVars, state, uiVars, allDecision, attempt, isResume, from, sent,
                   up, fileVars>>

\* Mutant of Finish: the last chunk is not waited for.
FinishEarly ==
    /\ pc = "moving" /\ ~EmptyPush
    /\ sent + 1 >= Size(current)
    /\ kind = "push" /\ up => Stored(current) >= sent
    /\ kind = "pull" => up
    /\ unconfirmed' = IF kind = "push" /\ ~up THEN unconfirmed \cup {current} ELSE unconfirmed
    /\ source' \in IF kind = "move" THEN {source, source \ {current}} ELSE {source}
    /\ up' = (up /\ ~(kind = "pull" /\ from > 0))
    /\ pc' = "succeeded"
    /\ UNCHANGED <<kind, loopVars, state, uiVars, allDecision, tryVars, dest, partial>>

\* RSP_DONE has come, the device has confirmed or will never do, or the copy is
\* closed.  A resumed pull then drains a stream that is at its end until recv
\* times out and the connection is given up.  The source of a move is deleted, if
\* it can be.
Finish ==
    /\ pc = "moving" /\ ~EmptyPush
    /\ sent >= Size(current)
    /\ kind = "push" /\ up => Stored(current) >= sent
    /\ kind = "pull" => up
    /\ unconfirmed' = IF kind = "push" /\ ~up THEN unconfirmed \cup {current} ELSE unconfirmed
    /\ source' \in IF kind = "move" THEN {source, source \ {current}} ELSE {source}
    /\ up' = (up /\ ~(kind = "pull" /\ from > 0))
    /\ pc' = "succeeded"
    /\ UNCHANGED <<kind, loopVars, state, uiVars, allDecision, tryVars, dest, partial>>

LoseLink ==
    /\ Remote /\ up /\ pc \in {"resolve", "try", "moving", "asking", "succeeded", "verify"}
    /\ up' = FALSE
    /\ UNCHANGED <<pc, kind, loopVars, state, uiVars, allDecision, tryVars, fileVars>>

-----------------------------------------------------------------------------
(* After a failed attempt. *)

Final == stopRequested \/ error \in {"cancelled", "local"}

\* Mutant of AttemptFailed: the retries are not counted.
AttemptNotCounted ==
    /\ pc = "failed"
    /\ IF Final
       THEN pc' = "gaveUp" /\ UNCHANGED isResume
       ELSE pc' = "reconnect" /\ isResume' = TRUE
    /\ UNCHANGED <<kind, loopVars, state, uiVars, allDecision, attempt, error, from, sent, up, fileVars>>

AttemptFailed ==
    /\ pc = "failed"
    /\ IF Final
       THEN /\ pc' = "gaveUp"
            /\ UNCHANGED <<attempt, isResume, retryRequested>>
       ELSE IF attempt = MaxRetries
       THEN /\ pc' = "askRetry"
            /\ retryRequested' = FALSE
            /\ UNCHANGED <<attempt, isResume>>
       ELSE /\ attempt' = attempt + 1
            /\ isResume' = TRUE
            /\ pc' = "reconnect"
            /\ UNCHANGED retryRequested
    /\ UNCHANGED <<kind, loopVars, state, stopRequested, pauseRequested, shutdown, response, answers,
                   nap, allDecision, error, from, sent, up, fileVars>>

\* startServer kills the old server when the connection was lost: what it has
\* not stored by then is gone.
Reconnected ==
    /\ pc = "reconnect" /\ ~stopRequested /\ ~shutdown
    /\ up' = TRUE
    /\ from' = 0 /\ sent' = 0
    /\ pc' = "try"
    /\ UNCHANGED <<kind, loopVars, state, uiVars, allDecision, attempt, isResume, error, fileVars>>

\* 120 looks found no device that starts the server, or the wait was ended.
NotBack ==
    /\ pc = "reconnect"
    /\ IF stopRequested \/ attempt = MaxRetries
       THEN pc' = "gaveUp" /\ UNCHANGED attempt
       ELSE attempt' = attempt + 1 /\ UNCHANGED pc
    /\ UNCHANGED <<kind, loopVars, state, uiVars, allDecision, isResume, error, from, sent, up, fileVars>>

UserRetries ==
    /\ pc = "askRetry" /\ Awake /\ retryRequested
    /\ retryRequested' = FALSE
    /\ attempt' = 0 /\ isResume' = TRUE
    /\ pc' = "try"
    /\ UNCHANGED <<kind, loopVars, state, stopRequested, pauseRequested, shutdown, response, answers,
                   nap, allDecision, error, from, sent, up, fileVars>>

RetryRefused ==
    /\ pc = "askRetry" /\ Awake /\ ~retryRequested /\ (stopRequested \/ shutdown)
    /\ pc' = "gaveUp"
    /\ UNCHANGED <<kind, loopVars, state, uiVars, allDecision, tryVars, up, fileVars>>

GaveUp ==
    /\ pc = "gaveUp"
    /\ state' = IF stopRequested THEN "Stopped" ELSE "Failed"
    /\ pc' = "clean"
    /\ UNCHANGED <<kind, loopVars, uiVars, allDecision, tryVars, up, fileVars>>

-----------------------------------------------------------------------------
(* After a successful one. *)

ItemDone ==
    /\ completed' = completed \cup {current}
    /\ next' = next + 1
    /\ pc' = "next"

ToVerify == Remote /\ ~IsDir(current) /\ Verify /\ up

Succeeded ==
    /\ pc = "succeeded"
    /\ IF stopRequested
       THEN /\ state' = "Stopped"
            /\ pc' = "clean"
            /\ UNCHANGED <<next, completed, attempt>>
       ELSE IF ToVerify
       THEN /\ state' = "Verifying"
            /\ attempt' = 1
            /\ pc' = "verify"
            /\ UNCHANGED <<next, completed>>
       ELSE ItemDone /\ UNCHANGED <<state, attempt>>
    /\ UNCHANGED <<kind, current, skipped, crcFailed, uiVars, allDecision,
                   isResume, error, from, sent, up, fileVars>>

Verified ==
    /\ pc = "verify" /\ up
    /\ crcFailed' = IF Delivered(current) THEN crcFailed ELSE crcFailed \cup {current}
    /\ state' = "Running"
    /\ ItemDone
    /\ UNCHANGED <<kind, current, skipped, uiVars, allDecision, tryVars, up, fileVars>>

VerifyAgain ==
    /\ pc = "verify" /\ ~up /\ attempt < CrcTries
    /\ up' = TRUE
    /\ attempt' = attempt + 1
    /\ UNCHANGED <<pc, kind, loopVars, state, uiVars, allDecision, isResume, error, from, sent, fileVars>>

VerifyFails ==
    /\ pc = "verify" /\ ~up
    /\ crcFailed' = crcFailed \cup {current}
    /\ state' = "Running"
    /\ ItemDone
    /\ UNCHANGED <<kind, current, skipped, uiVars, allDecision, tryVars, up, fileVars>>

-----------------------------------------------------------------------------
(* The end of the batch. *)

\* Mutant of Deletes: a local copy leaves its partial file.
DeletesRemoteOnly == IF Remote /\ ~IsDir(current) THEN {current} ELSE {}

\* Deleted after Stop or a failure: the current file of a pull or a push; of a
\* local copy only the one it was writing.
Deletes ==
    IF IsDir(current) THEN {}
    ELSE IF Remote \/ partial = current THEN {current} ELSE {}

\* Folders std::filesystem::remove may have taken, the innermost first: only empty
\* ones, and not what it fails for.
Removable ==
    {gone \in SUBSET {d \in source : IsDir(d)} :
        \A f \in source \ gone : Parent[f] \notin gone}

\* On the device the deletion may fail.  A move whose loop ended without Stop or
\* failure, also because the application ends, removes all its source folders.
CleanUp ==
    /\ pc = "clean"
    /\ IF state \in {"Stopped", "Failed"}
       THEN \E gone \in IF kind = "push" THEN SUBSET Deletes ELSE {Deletes} :
               dest' = [f \in Files |-> IF f \in gone THEN Absent ELSE dest[f]]
       ELSE UNCHANGED dest
    /\ IF state = "Running" /\ kind \in {"move", "rename"}
       THEN \E gone \in Removable : source' = source \ gone
       ELSE UNCHANGED source
    /\ state' = IF state \in {"Running", "Verifying"} THEN "Completed" ELSE state
    /\ from' = 0 /\ sent' = 0
    /\ pc' = "ended"
    /\ UNCHANGED <<kind, loopVars, uiVars, allDecision, attempt, isResume, error,
                   up, partial, unconfirmed>>

-----------------------------------------------------------------------------
(* The user, in the transfer dialog.  A prompt is shown as long as the thread   *)
(* is at it, so an answer can be given again.                                *)

Active == pc # "ended" /\ ~shutdown

AnswerConflict ==
    /\ Active /\ pc = "asked"
    /\ response' \in {"overwrite", "overwriteAll", "skip", "skipAll"}
    /\ answers' = [answers EXCEPT ![current] = response']
    /\ Notify
    /\ UNCHANGED <<pc, kind, loopVars, state, stopRequested, pauseRequested, shutdown,
                   retryRequested, allDecision, tryVars, up, fileVars>>

AnswerRetry ==
    /\ Active /\ pc = "askRetry"
    /\ retryRequested' = TRUE
    /\ Notify
    /\ UNCHANGED <<pc, kind, loopVars, state, stopRequested, pauseRequested, shutdown,
                   response, answers, allDecision, tryVars, up, fileVars>>

Stop ==
    /\ Active
    /\ stopRequested' = TRUE
    /\ pauseRequested' = FALSE /\ retryRequested' = FALSE
    /\ Notify
    /\ UNCHANGED <<pc, kind, loopVars, state, shutdown, response, answers, allDecision, tryVars, up, fileVars>>

Pause ==
    /\ Active /\ state = "Running" /\ ~pauseRequested
    /\ pauseRequested' = TRUE
    /\ UNCHANGED <<pc, kind, loopVars, state, stopRequested, shutdown, response, retryRequested,
                   answers, nap, allDecision, tryVars, up, fileVars>>

Resume ==
    /\ Active /\ state = "Paused" /\ pauseRequested
    /\ pauseRequested' = FALSE
    /\ Notify
    /\ UNCHANGED <<pc, kind, loopVars, state, stopRequested, shutdown, response, retryRequested,
                   answers, allDecision, tryVars, up, fileVars>>

\* ~App while the batch runs: the user interface is gone, and this is the last
\* notification the thread gets.
ShutDown ==
    /\ MayShutDown /\ Active
    /\ shutdown' = TRUE
    /\ Notify
    /\ UNCHANGED <<pc, kind, loopVars, state, stopRequested, pauseRequested, response,
                   retryRequested, answers, allDecision, tryVars, up, fileVars>>

-----------------------------------------------------------------------------
NotConnected == ~up /\ OpenFails
LinkBroken == ~up /\ Breaks

BatchThread ==
    \/ LoopEnds \/ NextItem \/ StopBetween \/ PauseBetween \/ BeginItem
    \/ NoConflict \/ Decided \/ Ask \/ Wait \/ Answered
    \/ TryStopped \/ MakeDirectory \/ Open \/ NotConnected \/ OpenCopy \/ Rename
    \/ Move \/ Send \/ LinkBroken \/ Cancelled \/ PauseMoving \/ Continue \/ EmptyPushFails \/ Finish
    \/ AttemptFailed \/ Reconnected \/ NotBack \/ UserRetries \/ RetryRefused \/ GaveUp
    \/ Succeeded \/ Verified \/ VerifyAgain \/ VerifyFails \/ CleanUp

Device == Store

Trouble ==
    WriteRefused \/ OpenFails \/ LocalError \/ CopyRefused \/ Breaks \/ LoseLink \/ Woken

User == AnswerConflict \/ AnswerRetry \/ Stop \/ Pause \/ Resume \/ ShutDown

Ended == pc = "ended" /\ UNCHANGED vars

Next == BatchThread \/ Device \/ Trouble \/ User \/ Ended

\* Threads and the device keep running.  Nothing is assumed of the user, of
\* errors, or of the device's return: waiting for it is bounded in time.
Fairness == WF_vars(BatchThread) /\ WF_vars(Device)

Spec == Init /\ [][Next]_vars /\ Fairness

-----------------------------------------------------------------------------
\* While one of these is the position, an item is being worked on; all but the
\* last are attempts at it.
Trying ==
    {"resolve", "asked", "try", "moving", "asking", "failed", "reconnect", "askRetry", "gaveUp",
     "succeeded"}
Busy == Trying \cup {"verify"}

FlagType ==
    /\ stopRequested \in BOOLEAN /\ pauseRequested \in BOOLEAN /\ shutdown \in BOOLEAN
    /\ retryRequested \in BOOLEAN /\ isResume \in BOOLEAN /\ up \in BOOLEAN
    /\ nap \in Naps
BatchType ==
    /\ pc \in Busy \cup {"next", "begin", "clean", "ended"}
    /\ kind \in Kinds
    /\ state \in {"Running", "Paused", "WaitingConflict", "Verifying", "Stopped", "Failed",
                  "Completed"}
    /\ response \in {"none", "overwrite", "overwriteAll", "skip", "skipAll"}
    /\ answers \in [Files -> {"none", "overwrite", "overwriteAll", "skip", "skipAll"}]
    /\ allDecision \in {"none", "overwriteAll", "skipAll"}
    /\ error \in {"none", "lost", "cancelled", "local"}
LoopType ==
    /\ current \in Files /\ next \in {current, current + 1}
    /\ pc \in Busy => next = current
    /\ pc = "begin" => next \in Files
    /\ completed \subseteq 1..(next - 1) /\ skipped \subseteq 1..(next - 1)
    /\ completed \cap skipped = {}
    /\ crcFailed \subseteq completed
    /\ attempt \in Nat
    /\ pc \in Trying => attempt <= MaxRetries
    /\ pc = "verify" => attempt \in 1..CrcTries
FileType ==
    /\ dest \in [Files -> [there : BOOLEAN, data : Seq({"old", "new"})]]
    /\ \A f \in Files : ~dest[f].there => dest[f].data = <<>>
    /\ source \subseteq Files /\ unconfirmed \subseteq Files
    /\ partial \in Files \cup {0}
    /\ from \in Nat /\ sent \in Nat /\ from <= sent

TypeOK == FlagType /\ BatchType /\ LoopType /\ FileType

Untouched(f) == f \in Present /\ dest[f] = File(<<"old">>)

\* However often the connection was lost and the transfer resumed, "Completed"
\* says that every file the batch counts is there in full.  On a device or from
\* one this holds for files that were not there before (an attempt that fails
\* before the old file is truncated is resumed behind the OLD data), and for
\* pushes the device has confirmed.
CompletedMeansDelivered ==
    state = "Completed" =>
       \A f \in completed \ unconfirmed :
          IsDir(f) \/ (Remote /\ f \in Present) \/ Delivered(f)

\* Moving never loses a file: the source is there until the copy is complete,
\* and clean-up never takes a copy whose source is gone.  An empty folder the batch
\* has not come to when the application ends goes without a copy, see the README.
SourceOrCopy ==
    \A f \in Files \ source : Delivered(f) \/ (IsDir(f) /\ shutdown /\ f >= next)

\* After Stop or a failure nothing half-written is left on the PC: a file that
\* was not there is complete or absent.
NoPartialLeft ==
    pc = "ended" /\ state \in {"Stopped", "Failed"} /\ kind # "push" =>
       \A f \in Files \ Present : IsDir(f) \/ ~dest[f].there \/ Delivered(f)

Approved(f) ==
    \/ answers[f] \in {"overwrite", "overwriteAll"}
    \/ \E g \in 1..(f - 1) : answers[g] = "overwriteAll"

\* A file that was there is rewritten only after the user chose Overwrite or
\* Overwrite all.  (A push whose getFileSize fails takes the file for absent.)
OverwriteIsApproved ==
    [][\A f \in Files : kind # "push" /\ Untouched(f) /\ dest'[f] # dest[f] /\ dest'[f].there =>
          Approved(f)]_vars

\* After Stop, wherever it finds the batch, no further item is begun and no other
\* destination than the current one changes.
StopBeginsNothing ==
    [][stopRequested => /\ current' = current
                        /\ \A f \in Files \ {current} : dest'[f] = dest[f]]_vars

\* The notification was lost: asleep although what it waits for has happened.
Overslept == nap = "asleep" /\ PromptOver

\* The user answers conflicts, ends a pause and sooner or later stops retrying, or
\* closes the application.
Attended ==
    <>[](\/ shutdown
         \/ /\ ~pauseRequested
            /\ pc = "asked" => response # "none" \/ stopRequested
            /\ pc = "askRetry" => stopRequested)

\* A prompt that stays after the answer is answered again.
AnswerAgain == Overslept /\ (AnswerConflict \/ AnswerRetry \/ Stop)

\* The batch then ends, whatever the device does, if one whose prompt stays answers
\* again.  Nobody does after ~App: its one notification is taken not to be lost.
BatchEnds ==
    Attended /\ WF_vars(AnswerAgain) /\ []<>~(Overslept /\ shutdown) => <>(pc = "ended")

\* One answer is enough.  The code does not keep it, see the README.
OneAnswerEnds == Attended => <>(pc = "ended")

\* Of what is at the destination only a partially transferred file is deleted: no
\* file the batch has not begun to write, and none it has counted as complete.  The
\* code does not keep it after Stop (clean-up of the current item), see the README.
OnlyPartialDeleted ==
    [][\A f \in Files : dest[f].there /\ ~dest'[f].there =>
          ~Untouched(f) /\ f \notin completed]_vars

\* With verification on, a file counted in a completed batch has arrived or its
\* verification is reported as failed.  The code does not keep it when a pull is
\* resumed behind the old file (resumePullFile), see the README.
VerifiedOrReported ==
    Verify /\ state = "Completed" =>
       \A f \in completed : IsDir(f) \/ Delivered(f) \/ f \in crcFailed
=============================================================================
