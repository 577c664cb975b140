---------------------------- MODULE CrossDevice ----------------------------
(***************************************************************************)
(* A batch copied from one Android device to another through the memory of *)
(* the PC: the streaming relay of App::processBatchQueue and               *)
(* DeviceClient::relayRange.  The batch thread resolves name conflicts and *)
(* creates every destination file, one worker per pair of channels relays  *)
(* ranges from a common queue, and the first range that fails ends all.    *)
(*                                                                         *)
(* Sizes are in chunks: a chunk is one RSP_DATA message, for which the     *)
(* progress callback is called once.                                       *)
(***************************************************************************)
EXTENDS Integers, Sequences, FiniteSets, SequencesExt, BatchWait

CONSTANTS
    Plan,           \* the items: sequence of [dir : BOOLEAN, size : Nat]
    Present,        \* the items whose destination exists when the batch starts
    Pair,           \* the pairs of channels, one worker each
    RangeLen,       \* chunks per range when there are several pairs
    Verify,         \* the preference enableCrcVerification
    MayShutDown     \* the application may be closed while the batch runs

Files == 1..Len(Plan)
Size(f) == Plan[f].size
IsDir(f) == Plan[f].dir
Bytes(f) == 0..(Size(f) - 1)

ASSUME PlanAssumption ==
    /\ Plan \in Seq([dir : BOOLEAN, size : Nat])
    /\ \A f \in Files : IsDir(f) => Size(f) = 0
    /\ Present \subseteq {f \in Files : ~IsDir(f)}
ASSUME PairAssumption == Pair # {} /\ IsFiniteSet(Pair) /\ RangeLen \in Nat \ {0}
ASSUME FlagsAssumption == {Verify, MayShutDown} \subseteq BOOLEAN

VARIABLES
    pc,             \* where the batch thread is
    next,           \* the item it resolves or verifies
    state,          \* TransferBatch.state
    stopRequested, pauseRequested,
    shutdown,       \* m_shutdownTransfer
    response,       \* conflictResponse
    allDecision,    \* conflictAllDecision
    skipped,        \* skipped, as a set
    queue,          \* workQueue
    failed,         \* a worker has given up
    done,           \* per item: the ranges counted in completedBlocksPerFile
    crcs,           \* per item: the ranges with both CRCs in rangeCrcs
    crcFailed,      \* anyCrcFail
    dest,           \* the files on the destination device
    undeleted,      \* history: the files whose deletion failed
    wpc, blk,       \* per worker: where it is, its range
    got, sent,      \* chunks received from the source, handed to the destination
    ok,             \* what relayRange returns
    left            \* the source's stream holds data of a range given up

flagVars == <<stopRequested, pauseRequested, shutdown, response>>
uiVars == <<flagVars, nap>>
choiceVars == <<allDecision, skipped>>
workVars == <<queue, failed, done, crcs>>
destVars == <<dest, undeleted>>
workerVars == <<wpc, blk, got, sent, ok, left>>
vars == <<pc, next, state, uiVars, choiceVars, workVars, crcFailed, destVars, workerVars>>

Absent == [is |-> "absent", data |-> {}]
Old    == [is |-> "old",    data |-> {}]
New    == [is |-> "new",    data |-> {}]
Delivered(f) == dest[f].is = "new" /\ dest[f].data = Bytes(f)

Work(f, off, len) == [file |-> f, off |-> off, len |-> len]
NoWork == Work(0, 0, 0)

Init ==
    /\ pc = "resolve" /\ next = 1 /\ state = "Running"
    /\ stopRequested = FALSE /\ pauseRequested = FALSE /\ shutdown = FALSE
    /\ response = "none" /\ allDecision = "none" /\ skipped = {} /\ nap = "awake"
    /\ queue = <<>> /\ failed = FALSE /\ crcFailed = FALSE
    /\ done = [f \in Files |-> 0] /\ crcs = [f \in Files |-> {}]
    /\ dest = [f \in Files |-> IF f \in Present THEN Old ELSE Absent]
    /\ undeleted = {}
    /\ wpc = [w \in Pair |-> "idle"] /\ blk = [w \in Pair |-> NoWork]
    /\ got = [w \in Pair |-> 0] /\ sent = [w \in Pair |-> 0]
    /\ ok = [w \in Pair |-> FALSE] /\ left = [w \in Pair |-> FALSE]

-----------------------------------------------------------------------------
(* The batch thread: folders, name conflicts, destination files. *)

Interrupted == stopRequested \/ shutdown
Resolving == pc = "resolve" /\ next <= Len(Plan) /\ ~Interrupted

\* What ends the batch here leaves the files created so far as they are.
Ends(outcome) == state' = outcome /\ pc' = "ended"

MakeDirectory ==
    /\ Resolving /\ IsDir(next)
    /\ \/ next' = next + 1 /\ UNCHANGED <<pc, state>>
       \/ Ends("Failed") /\ UNCHANGED next
    /\ UNCHANGED <<uiVars, choiceVars, workVars, crcFailed, destVars, workerVars>>

\* getFileSize() > 0, which is also false when the request fails.
DestExists(seen) == ~IsDir(next) /\ (seen => dest[next].is = "old")

NoConflict ==
    /\ Resolving /\ ~IsDir(next) /\ DestExists(FALSE)
    /\ pc' = "create"
    /\ UNCHANGED <<next, state, uiVars, choiceVars, workVars, crcFailed, destVars, workerVars>>

\* What follows a choice, sticky or just made.
Decide(action) ==
    \/ /\ Interrupted
       /\ pc' = "resolve"
       /\ UNCHANGED <<next, skipped>>
    \/ /\ ~Interrupted /\ action \in {"skip", "skipAll"}
       /\ skipped' = skipped \cup {next}
       /\ next' = next + 1
       /\ pc' = "resolve"
    \/ /\ ~Interrupted /\ action \in {"overwrite", "overwriteAll"}
       /\ pc' = "create"
       /\ UNCHANGED <<next, skipped>>

Decided ==
    /\ Resolving /\ DestExists(TRUE) /\ allDecision # "none"
    /\ Decide(allDecision)
    /\ UNCHANGED <<state, uiVars, allDecision, workVars, crcFailed, destVars, workerVars>>

Ask ==
    /\ Resolving /\ DestExists(TRUE) /\ allDecision = "none"
    /\ response' = "none"
    /\ state' = "WaitingConflict"
    /\ pc' = "asked"
    /\ UNCHANGED <<next, stopRequested, pauseRequested, shutdown, nap, choiceVars, workVars,
                   crcFailed, destVars, workerVars>>

\* What the thread waits for at a prompt.
PromptOver == response # "none" \/ Interrupted

Wait ==
    /\ pc = "asked"
    /\ (~PromptOver /\ Dozes) \/ FallsAsleep
    /\ UNCHANGED <<pc, next, state, flagVars, choiceVars, workVars, crcFailed, destVars, workerVars>>

Woken ==
    /\ Wakes
    /\ UNCHANGED <<pc, next, state, flagVars, choiceVars, workVars, crcFailed, destVars, workerVars>>

\* Mutant of Answered: the wait at the prompt does not look at Stop.
AnsweredOnly ==
    /\ pc = "asked" /\ Awake /\ response # "none"
    /\ response' = "none"
    /\ state' = "Running"
    /\ allDecision' = IF response \in {"overwriteAll", "skipAll"} THEN response ELSE allDecision
    /\ Decide(response)
    /\ UNCHANGED <<stopRequested, pauseRequested, shutdown, nap, workVars, crcFailed, destVars,
                   workerVars>>

Answered ==
    /\ pc = "asked" /\ Awake /\ PromptOver
    /\ response' = "none"
    /\ state' = "Running"
    /\ allDecision' = IF response \in {"overwriteAll", "skipAll"} THEN response ELSE allDecision
    /\ Decide(response)
    /\ UNCHANGED <<stopRequested, pauseRequested, shutdown, nap, workVars, crcFailed, destVars,
                   workerVars>>

\* The destination is truncated and given its size.
Create ==
    /\ pc = "create"
    /\ dest' = [dest EXCEPT ![next] = New]
    /\ next' = next + 1
    /\ pc' = "resolve"
    /\ UNCHANGED <<state, uiVars, choiceVars, workVars, crcFailed, undeleted, workerVars>>

\* The answer may be lost behind a creation.
CreateFails ==
    /\ pc = "create"
    /\ dest' \in {dest, [dest EXCEPT ![next] = New]}
    /\ Ends("Failed")
    /\ UNCHANGED <<next, uiVars, choiceVars, workVars, crcFailed, undeleted, workerVars>>

StoppedBeforeStart ==
    /\ pc = "resolve" /\ Interrupted
    /\ Ends("Stopped")
    /\ UNCHANGED <<next, uiVars, choiceVars, workVars, crcFailed, destVars, workerVars>>

-----------------------------------------------------------------------------
(* The batch thread: the queue and the workers. *)

\* With one pair a file is one range.
Stride(f) == IF Cardinality(Pair) = 1 THEN Size(f) ELSE RangeLen
Starts(f) == {o \in Bytes(f) : o % Stride(f) = 0}
RangeAt(f, o) == Work(f, o, IF Size(f) - o > Stride(f) THEN Stride(f) ELSE Size(f) - o)
Wanted == {f \in Files : ~IsDir(f) /\ f \notin skipped}
Ranges == UNION {{RangeAt(f, o) : o \in Starts(f)} : f \in Wanted}

\* The files are interleaved range by range.
Before(a, b) == a.off < b.off \/ (a.off = b.off /\ a.file < b.file)
InOrder(q) == \A i, j \in DOMAIN q : i < j => Before(q[i], q[j])

StartWorkers ==
    /\ pc = "resolve" /\ next > Len(Plan) /\ ~Interrupted
    /\ queue' \in {q \in SetToSeqs(Ranges) : InOrder(q)}
    /\ wpc' = [w \in Pair |-> "top"]
    /\ pc' = "run"
    /\ UNCHANGED <<next, state, uiVars, choiceVars, failed, done, crcs, crcFailed, destVars,
                   blk, got, sent, ok, left>>

-----------------------------------------------------------------------------
(* A worker thread. *)

batchVars == <<pc, next, uiVars, choiceVars, crcFailed, destVars>>

\* A worker that is held by a pause does not look at failed.
WorkerExits(w) ==
    /\ \/ wpc[w] = "top" /\ (Interrupted \/ failed \/ queue = <<>>)
       \/ wpc[w] = "taken" /\ (Interrupted \/ (failed /\ ~pauseRequested))
    /\ wpc' = [wpc EXCEPT ![w] = "exit"]
    /\ UNCHANGED <<batchVars, state, workVars, blk, got, sent, ok, left>>

Take(w) ==
    /\ wpc[w] = "top" /\ queue # <<>> /\ ~Interrupted /\ ~failed
    /\ blk' = [blk EXCEPT ![w] = Head(queue)]
    /\ queue' = Tail(queue)
    /\ got' = [got EXCEPT ![w] = 0] /\ sent' = [sent EXCEPT ![w] = 0]
    /\ wpc' = [wpc EXCEPT ![w] = "taken"]
    /\ UNCHANGED <<batchVars, state, failed, done, crcs, ok, left>>

Begin(w) ==
    /\ wpc[w] = "taken" /\ ~Interrupted /\ ~failed /\ ~pauseRequested
    /\ state' = "Running"
    /\ wpc' = [wpc EXCEPT ![w] = "open"]
    /\ UNCHANGED <<batchVars, workVars, blk, got, sent, ok, left>>

\* Both loops that wait for the end of a pause set the state again and again.
Pausing(w) ==
    /\ wpc[w] \in {"taken", "asking", "held"} /\ pauseRequested /\ ~Interrupted
    /\ wpc[w] = "asking" => ~failed
    /\ state' = "Paused"
    /\ wpc' = [wpc EXCEPT ![w] = IF @ = "asking" THEN "held" ELSE @]
    /\ UNCHANGED <<batchVars, workVars, blk, got, sent, ok, left>>

Returns(w, result) ==
    /\ ok' = [ok EXCEPT ![w] = result]
    /\ wpc' = [wpc EXCEPT ![w] = "returned"]

\* Both devices have answered.
Opened(w) ==
    /\ wpc[w] = "open"
    /\ wpc' = [wpc EXCEPT ![w] = "relay"]
    /\ UNCHANGED <<batchVars, state, workVars, blk, got, sent, ok, left>>

\* A connection is down, the source refuses, or the request to the destination
\* cannot be sent, and then the source is drained.  When the destination refuses
\* or does not answer, the source's data stay in the stream.
OpenFails(w) ==
    /\ wpc[w] = "open"
    /\ Returns(w, FALSE)
    /\ left' \in {left, [left EXCEPT ![w] = TRUE]}
    /\ UNCHANGED <<batchVars, state, workVars, blk, got, sent>>

\* A chunk is received while the one before it may still be on its way.
Receive(w) ==
    /\ wpc[w] = "relay" /\ got[w] < blk[w].len /\ got[w] - sent[w] <= 1
    /\ got' = [got EXCEPT ![w] = @ + 1]
    /\ UNCHANGED <<batchVars, state, workVars, wpc, blk, sent, ok, left>>

\* finishSend: waits for the chunk on its way, when the next one or RSP_DONE has
\* come, and asks the progress callback.
FinishSend(w) ==
    /\ wpc[w] = "relay" /\ sent[w] < got[w]
    /\ got[w] - sent[w] = 2 \/ got[w] = blk[w].len
    /\ sent' = [sent EXCEPT ![w] = @ + 1]
    /\ dest' = [dest EXCEPT ![blk[w].file].data = @ \cup {blk[w].off + sent[w]}]
    /\ wpc' = [wpc EXCEPT ![w] = "asking"]
    /\ UNCHANGED <<pc, next, state, uiVars, choiceVars, crcFailed, undeleted, workVars, blk,
                   got, ok, left>>

\* A pause is left without a look at failed.
Continue(w) ==
    /\ wpc[w] = "held" \/ (wpc[w] = "asking" /\ ~failed)
    /\ ~Interrupted /\ ~pauseRequested
    /\ state' = "Running"
    /\ wpc' = [wpc EXCEPT ![w] = "relay"]
    /\ UNCHANGED <<batchVars, workVars, blk, got, sent, ok, left>>

\* The destination is told that this is all and the source is drained.
Cancelled(w) ==
    /\ wpc[w] \in {"asking", "held"}
    /\ Interrupted \/ (wpc[w] = "asking" /\ failed)
    /\ Returns(w, FALSE)
    /\ UNCHANGED <<batchVars, state, workVars, blk, got, sent, left>>

\* Mutant of Confirmed: the last chunk is not waited for.
ConfirmedEarly(w) ==
    /\ wpc[w] = "relay" /\ got[w] = blk[w].len
    /\ Returns(w, TRUE)
    /\ UNCHANGED <<batchVars, state, workVars, blk, got, sent, left>>

\* The destination has confirmed the whole range.
Confirmed(w) ==
    /\ wpc[w] = "relay" /\ sent[w] = blk[w].len
    /\ Returns(w, TRUE)
    /\ UNCHANGED <<batchVars, state, workVars, blk, got, sent, left>>

\* Either connection breaks, the destination reports an error or confirms nothing.
RelayBreaks(w) ==
    /\ wpc[w] = "relay"
    /\ Returns(w, FALSE)
    /\ UNCHANGED <<batchVars, state, workVars, blk, got, sent, left>>

\* Mutant of GiveUp: the range is put back and tried again on the same pair.
GiveUpLater(w) ==
    /\ wpc[w] = "returned" /\ ~ok[w] /\ ~stopRequested
    /\ queue' = Append(queue, blk[w])
    /\ wpc' = [wpc EXCEPT ![w] = "top"]
    /\ UNCHANGED <<batchVars, state, failed, done, crcs, blk, got, sent, ok, left>>

GiveUp(w) ==
    /\ wpc[w] = "returned" /\ ~ok[w] /\ ~stopRequested
    /\ failed' = TRUE
    /\ wpc' = [wpc EXCEPT ![w] = "exit"]
    /\ UNCHANGED <<batchVars, state, queue, done, crcs, blk, got, sent, ok, left>>

\* A range that a stop has cancelled is counted like one that has been relayed.
Count(w) ==
    /\ wpc[w] = "returned" /\ (ok[w] \/ stopRequested)
    /\ LET f == blk[w].file IN
       /\ done' = [done EXCEPT ![f] = @ + 1]
       /\ crcs' = [crcs EXCEPT ![f] = IF ok[w] THEN @ \cup {blk[w].off} ELSE @]
    /\ wpc' = [wpc EXCEPT ![w] = "top"]
    /\ UNCHANGED <<batchVars, state, queue, failed, blk, got, sent, ok, left>>

-----------------------------------------------------------------------------
(* The batch thread: clean-up, verification, outcome. *)

Joined == pc = "run" /\ \A w \in Pair : wpc[w] = "exit"
Counted(f) == done[f] >= Cardinality(Starts(f))
AllCounted == \A f \in Wanted : Counted(f)

\* completedFileIndices: an empty file has no range that could put it there.
CompletedFiles == {f \in Wanted : Size(f) > 0 /\ Counted(f)}

\* Mutant of Unfinished: every file of the batch is deleted.
UnfinishedOrDone == Wanted

\* What is deleted, whether it was there before or not.
Unfinished == Wanted \ CompletedFiles

\* The result of a deletion is not looked at.
JoinCleans ==
    /\ Joined /\ (failed \/ stopRequested \/ ~AllCounted)
    /\ state' = IF failed \/ ~stopRequested THEN "Failed" ELSE "Stopped"
    /\ \E gone \in SUBSET Unfinished :
          /\ dest' = [f \in Files |-> IF f \in gone THEN Absent ELSE dest[f]]
          /\ undeleted' = Unfinished \ gone
    /\ pc' = "ended"
    /\ UNCHANGED <<next, uiVars, choiceVars, workVars, crcFailed, workerVars>>

JoinSucceeds ==
    /\ Joined /\ ~failed /\ ~stopRequested /\ AllCounted
    /\ state' = IF Verify THEN "Verifying" ELSE state
    /\ pc' = IF Verify THEN "verify" ELSE "outcome"
    /\ next' = 1
    /\ UNCHANGED <<uiVars, choiceVars, workVars, crcFailed, destVars, workerVars>>

\* The CRCs of the ranges tell that all of them arrived.  Without them the
\* devices are asked for the CRCs of the files, which they may not answer.
VerifyFile ==
    /\ pc = "verify" /\ next <= Len(Plan) /\ ~stopRequested
    /\ crcFailed' \in
          IF next \notin Wanted \/ (Size(next) > 0 /\ crcs[next] = Starts(next))
          THEN {crcFailed}
          ELSE IF Delivered(next) THEN {crcFailed, TRUE} ELSE {TRUE}
    /\ next' = next + 1
    /\ UNCHANGED <<pc, state, uiVars, choiceVars, workVars, destVars, workerVars>>

VerifyEnds ==
    /\ pc = "verify" /\ (next > Len(Plan) \/ stopRequested)
    /\ pc' = "outcome"
    /\ UNCHANGED <<next, state, uiVars, choiceVars, workVars, crcFailed, destVars, workerVars>>

Outcome ==
    /\ pc = "outcome"
    /\ Ends(IF crcFailed THEN "Failed" ELSE "Completed")
    /\ UNCHANGED <<next, uiVars, choiceVars, workVars, crcFailed, destVars, workerVars>>

-----------------------------------------------------------------------------
(* The user, in the transfer dialog.  A prompt is shown as long as the thread   *)
(* is at it, so an answer can be given again.                                *)

Active == pc # "ended" /\ ~shutdown

AnswerConflict ==
    /\ Active /\ pc = "asked"
    /\ response' \in {"overwrite", "overwriteAll", "skip", "skipAll"}
    /\ Notify
    /\ UNCHANGED <<pc, next, state, stopRequested, pauseRequested, shutdown, choiceVars,
                   workVars, crcFailed, destVars, workerVars>>

Stop ==
    /\ Active
    /\ stopRequested' = TRUE
    /\ pauseRequested' = FALSE
    /\ Notify
    /\ UNCHANGED <<pc, next, state, shutdown, response, choiceVars, workVars, crcFailed,
                   destVars, workerVars>>

Pause ==
    /\ Active /\ state = "Running" /\ ~pauseRequested
    /\ pauseRequested' = TRUE
    /\ UNCHANGED <<pc, next, state, stopRequested, shutdown, response, nap, choiceVars, workVars,
                   crcFailed, destVars, workerVars>>

Resume ==
    /\ Active /\ state = "Paused" /\ pauseRequested
    /\ pauseRequested' = FALSE
    /\ Notify
    /\ UNCHANGED <<pc, next, state, stopRequested, shutdown, response, choiceVars, workVars,
                   crcFailed, destVars, workerVars>>

\* ~App while the batch runs: the user interface is gone, and this is the last
\* notification the thread gets.
ShutDown ==
    /\ MayShutDown /\ Active
    /\ shutdown' = TRUE
    /\ Notify
    /\ UNCHANGED <<pc, next, state, stopRequested, pauseRequested, response, choiceVars,
                   workVars, crcFailed, destVars, workerVars>>

-----------------------------------------------------------------------------
BatchThread ==
    \/ MakeDirectory \/ NoConflict \/ Decided \/ Ask \/ Wait \/ Answered
    \/ Create \/ CreateFails \/ StoppedBeforeStart \/ StartWorkers
    \/ JoinCleans \/ JoinSucceeds \/ VerifyFile \/ VerifyEnds \/ Outcome

WorkerStep(w) ==
    \/ WorkerExits(w) \/ Take(w) \/ Begin(w) \/ Opened(w) \/ Receive(w) \/ FinishSend(w)
    \/ Continue(w) \/ Cancelled(w) \/ Confirmed(w) \/ GiveUp(w) \/ Count(w)

Trouble(w) == OpenFails(w) \/ RelayBreaks(w) \/ Pausing(w)

User == AnswerConflict \/ Stop \/ Pause \/ Resume \/ ShutDown

\* The batch thread has set the outcome and takes the next batch.
Ended == pc = "ended" /\ UNCHANGED vars

Next ==
    \/ BatchThread
    \/ \E w \in Pair : WorkerStep(w) \/ Trouble(w)
    \/ User
    \/ Woken
    \/ Ended

\* Threads keep running, and a relay that does not fail makes progress: every
\* recv has a timeout.  Nothing is assumed of the user.
Fairness == WF_vars(BatchThread) /\ \A w \in Pair : WF_vars(WorkerStep(w))

Spec == Init /\ [][Next]_vars /\ Fairness

-----------------------------------------------------------------------------
WorkType == [file : Files, off : Nat, len : Nat]
Busy == {"taken", "open", "relay", "asking", "held", "returned"}

FlagType == {stopRequested, pauseRequested, shutdown, failed, crcFailed} \subseteq BOOLEAN

BatchType ==
    /\ pc \in {"resolve", "asked", "create", "run", "verify", "outcome", "ended"}
    /\ next \in 1..(Len(Plan) + 1)
    /\ state \in {"Running", "WaitingConflict", "Paused", "Verifying",
                  "Completed", "Failed", "Stopped"}
    /\ response \in {"none", "overwrite", "overwriteAll", "skip", "skipAll"}
    /\ allDecision \in {"none", "overwriteAll", "skipAll"}
    /\ skipped \subseteq Files /\ undeleted \subseteq Files
    /\ nap \in Naps

RangeType ==
    /\ queue \in Seq(WorkType)
    /\ done \in [Files -> Nat]
    /\ crcs \in [Files -> SUBSET Nat] /\ \A f \in Files : crcs[f] \subseteq Starts(f)

DestType ==
    /\ dest \in [Files -> [is : {"absent", "old", "new"}, data : SUBSET Nat]]
    /\ \A f \in Files : dest[f].data \subseteq Bytes(f)

WorkerType ==
    /\ wpc \in [Pair -> Busy \cup {"idle", "top", "exit"}]
    /\ blk \in [Pair -> WorkType \cup {NoWork}]
    /\ got \in [Pair -> Nat] /\ sent \in [Pair -> Nat]
    /\ \A w \in Pair : /\ wpc[w] \in Busy => blk[w] \in WorkType
                        /\ sent[w] <= got[w] /\ got[w] <= blk[w].len /\ got[w] - sent[w] <= 2
    /\ ok \in [Pair -> BOOLEAN] /\ left \in [Pair -> BOOLEAN]

TypeOK == FlagType /\ BatchType /\ RangeType /\ DestType /\ WorkerType

\* "Completed" is reported only when every file that was not skipped is on the
\* other device with all its chunks, also without the verification.
CompletedMeansDelivered ==
    state = "Completed" => \A f \in Wanted : Delivered(f)

\* Clean-up: a file whose ranges have all been relayed stays, however the batch
\* ends.  Unless a stop came, every other file is deleted, if it can be.
CleansUp ==
    pc = "ended" /\ (\A w \in Pair : wpc[w] = "exit") =>
       \A f \in Wanted :
          /\ Size(f) > 0 /\ crcs[f] = Starts(f) => Delivered(f)
          /\ state = "Failed" /\ ~stopRequested =>
                Delivered(f) \/ dest[f] = Absent \/ f \in undeleted

\* No range is requested over a stream that still holds data of another one.
InStep == \A w \in Pair : wpc[w] \in {"open", "relay"} => ~left[w]

\* The notification was lost: asleep although what it waits for has happened.
Overslept == nap = "asleep" /\ PromptOver

\* The user answers prompts and does not leave the batch paused, or closes the
\* application.  A prompt that stays after the answer is answered again.
Attended ==
    <>[](\/ shutdown
         \/ ~pauseRequested /\ (pc = "asked" => response # "none" \/ stopRequested))
AnswerAgain == Overslept /\ (AnswerConflict \/ Stop)

\* The batch then ends.  Nobody answers again after ~App: its one notification is
\* taken not to be lost.
BatchEnds ==
    Attended /\ WF_vars(AnswerAgain) /\ []<>~(Overslept /\ shutdown) => <>(pc = "ended")
=============================================================================
