-------------------------- MODULE ParallelTransfer --------------------------
(***************************************************************************)
(* A batch copied over several channels at once: the multi-NIC and the     *)
(* USB + WiFi branch of App::processBatchQueue.  The batch thread resolves *)
(* name conflicts, builds a queue of blocks, starts one worker per channel *)
(* and, when they have all returned, counts, verifies, sets the outcome    *)
(* and deletes what it left unfinished.                                    *)
(*                                                                         *)
(* Sizes are in chunks: one chunk is what a progress callback is called    *)
(* for.  A block length of the code (200 MB to 2 GB, by file size) is the  *)
(* constant BlockLen, and a slice a worker takes of it (by measured speed) *)
(* is any part of it.  The sections under workMutex are single steps.      *)
(***************************************************************************)
EXTENDS TransferCoverage, Sequences, SequencesExt, BatchWait

CONSTANTS
    Plan,           \* the items: sequence of [kind: "dir", "whole" or "split", size]
    Present,        \* the items whose destination exists when the batch starts
    Worker,         \* the channels
    Mortal,         \* the channels that never come back once their link is down
    BlockLen,       \* chunks per block of a split file
    MaxTries,       \* a block is given up at this many failures (3 in the code)
    IsPull,         \* device to PC; otherwise PC to device
    Verify,         \* the preference enableCrcVerification
    MayShutDown,    \* the application may be closed while the batch runs
    CreateMayFail   \* the file of a split item may not be created at the start

Files == 1..Len(Plan)
Size(f) == Plan[f].size
Kind(f) == Plan[f].kind
Bytes(f) == 0..(Size(f) - 1)

ASSUME PlanAssumption ==
    /\ Plan \in Seq([kind : {"dir", "whole", "split"}, size : Nat])
    /\ \A f \in Files : /\ Kind(f) = "dir" => Size(f) = 0
                        /\ Kind(f) = "split" => Size(f) > 0
    /\ Present \subseteq {f \in Files : Kind(f) # "dir"}
ASSUME WorkerAssumption == Worker # {} /\ Mortal \subseteq Worker
ASSUME BoundsAssumption == BlockLen \in Nat \ {0} /\ MaxTries \in Nat \ {0}
ASSUME FlagsAssumption == {IsPull, Verify, MayShutDown, CreateMayFail} \subseteq BOOLEAN

VARIABLES
    pc,             \* where the batch thread is
    next,           \* the item whose conflict it looks at
    verified,       \* items the CRC loop has passed
    crcFailed,      \* some crcResults entry has passed = false
    state,          \* TransferBatch.state
    stopRequested, pauseRequested,
    shutdown,       \* m_shutdownTransfer
    response,       \* conflictResponse
    allDecision,    \* conflictAllDecision
    existing,       \* existingDestination, as a set
    coverage,       \* one TransferCoverage per item; skipped is skippedFileIndices
    completed,      \* completedFileIndices
    queue,          \* workQueue
    dest,           \* the destination files
    localFailed,    \* history: a worker set state Failed for a local error
    wpc, blk, pos,  \* per worker: where it is, its block, chunks moved
    down            \* the workers whose connection is broken

mainVars   == <<pc, next, verified, crcFailed>>
flagVars   == <<stopRequested, pauseRequested, shutdown, response>>
uiVars     == <<flagVars, nap>>
choiceVars == <<allDecision, existing, localFailed>>
workVars   == <<coverage, completed, queue, dest>>
workerVars == <<wpc, blk, pos, down>>
vars == <<mainVars, state, uiVars, choiceVars, workVars, workerVars>>

Block(f, off, len) == [file |-> f, off |-> off, len |-> len, tries |-> 0]
NoBlock == Block(0, 0, 0)

\* A destination is absent, an old file nobody has touched, or new: created or
\* truncated by the batch, with the chunks of the source it holds.
Absent == [is |-> "absent", data |-> {}]
Old    == [is |-> "old",    data |-> {}]
New    == [is |-> "new",    data |-> {}]
Delivered(f) == dest[f].is = "new" /\ dest[f].data = Bytes(f)

Init ==
    /\ pc = "resolve" /\ next = 1 /\ verified = 0 /\ crcFailed = FALSE
    /\ state = "Running"
    /\ stopRequested = FALSE /\ pauseRequested = FALSE /\ shutdown = FALSE
    /\ response = "none" /\ allDecision = "none" /\ existing = {} /\ nap = "awake"
    /\ coverage = [f \in Files |-> NewCoverage(Size(f))]
    /\ completed = {} /\ queue = <<>> /\ localFailed = FALSE
    /\ dest = [f \in Files |-> IF f \in Present THEN Old ELSE Absent]
    /\ wpc = [w \in Worker |-> "idle"]
    /\ blk = [w \in Worker |-> NoBlock]
    /\ pos = [w \in Worker |-> 0]
    /\ down = {}

-----------------------------------------------------------------------------
(* The batch thread: name conflicts. *)

Skipping(f) == coverage' = [coverage EXCEPT ![f] = SkipCoverage(@)]

\* exists() for a pull.  For a push getFileSize() > 0, which is also false when
\* the request fails.
DestExists(f, seen) ==
    /\ seen \in BOOLEAN
    /\ Kind(f) = "dir" \/ dest[f].is = "absent" => ~seen
    /\ IsPull /\ Kind(f) # "dir" /\ dest[f].is = "old" => seen

ResolveFree ==
    /\ pc = "resolve" /\ next <= Len(Plan) /\ ~stopRequested /\ ~shutdown
    /\ DestExists(next, FALSE)
    /\ next' = next + 1
    /\ UNCHANGED <<pc, verified, crcFailed, state, uiVars, choiceVars, workVars, workerVars>>

ResolveDecided ==
    /\ pc = "resolve" /\ next <= Len(Plan) /\ ~stopRequested /\ ~shutdown
    /\ DestExists(next, TRUE) /\ allDecision # "none"
    /\ existing' = existing \cup {next}
    /\ IF allDecision = "skipAll" THEN Skipping(next) ELSE UNCHANGED coverage
    /\ next' = next + 1
    /\ UNCHANGED <<pc, verified, crcFailed, state, uiVars, allDecision, localFailed,
                   completed, queue, dest, workerVars>>

Ask ==
    /\ pc = "resolve" /\ next <= Len(Plan) /\ ~stopRequested /\ ~shutdown
    /\ DestExists(next, TRUE) /\ allDecision = "none"
    /\ existing' = existing \cup {next}
    /\ response' = "none"
    /\ state' = "WaitingConflict"
    /\ pc' = "asked"
    /\ UNCHANGED <<next, verified, crcFailed, stopRequested, pauseRequested, shutdown, nap,
                   allDecision, localFailed, workVars, workerVars>>

\* What the thread waits for at a prompt.
PromptOver == response # "none" \/ stopRequested \/ shutdown

Wait ==
    /\ pc = "asked"
    /\ (~PromptOver /\ Dozes) \/ FallsAsleep
    /\ UNCHANGED <<mainVars, state, flagVars, choiceVars, workVars, workerVars>>

Woken ==
    /\ Wakes
    /\ UNCHANGED <<mainVars, state, flagVars, choiceVars, workVars, workerVars>>

Answered ==
    /\ pc = "asked" /\ Awake /\ response # "none"
    /\ response' = "none"
    /\ state' = "Running"
    /\ allDecision' = IF response \in {"overwriteAll", "skipAll"} THEN response ELSE allDecision
    /\ pc' = "resolve"
    /\ IF stopRequested \/ shutdown
       THEN UNCHANGED <<next, coverage>>
       ELSE /\ next' = next + 1
            /\ IF response \in {"skip", "skipAll"} THEN Skipping(next) ELSE UNCHANGED coverage
    /\ UNCHANGED <<verified, crcFailed, stopRequested, pauseRequested, shutdown, nap, existing,
                   localFailed, completed, queue, dest, workerVars>>

\* Mutant of AskInterrupted: the wait at the prompt does not look at Stop.
AskIgnoresStop ==
    /\ pc = "asked" /\ Awake /\ response = "none" /\ shutdown
    /\ state' = "Running"
    /\ pc' = "resolve"
    /\ UNCHANGED <<next, verified, crcFailed, uiVars, choiceVars, workVars, workerVars>>

AskInterrupted ==
    /\ pc = "asked" /\ Awake /\ response = "none" /\ (stopRequested \/ shutdown)
    /\ state' = "Running"
    /\ pc' = "resolve"
    /\ UNCHANGED <<next, verified, crcFailed, uiVars, choiceVars, workVars, workerVars>>

StoppedBeforeStart ==
    /\ pc = "resolve" /\ stopRequested
    /\ state' = "Stopped"
    /\ pc' = "ended"
    /\ UNCHANGED <<next, verified, crcFailed, uiVars, choiceVars, workVars, workerVars>>

-----------------------------------------------------------------------------
(* The batch thread: the work queue and the workers. *)

\* Offsets at which the blocks of an item start.
BlockStarts(f) ==
    IF Kind(f) = "split" THEN {o \in Bytes(f) : o % BlockLen = 0} ELSE {0}
BlockAt(f, o) ==
    Block(f, o, IF Kind(f) = "split" /\ Size(f) - o > BlockLen THEN BlockLen ELSE Size(f) - o)

\* Mutant of Blocks: skipped files are queued as well.
AllBlocks == UNION {{BlockAt(f, o) : o \in BlockStarts(f)} : f \in Files}

Blocks ==
    UNION {{BlockAt(f, o) : o \in BlockStarts(f)} : f \in {g \in Files : ~coverage[g].skipped}}

\* Files are interleaved block by block unless the batch has directories.
Before(a, b) ==
    IF \E f \in Files : Kind(f) = "dir"
    THEN a.file < b.file \/ (a.file = b.file /\ a.off < b.off)
    ELSE a.off < b.off \/ (a.off = b.off /\ a.file < b.file)
InOrder(q) == \A i, j \in DOMAIN q : i < j => Before(q[i], q[j])

ToSplit == {f \in Files : Kind(f) = "split" /\ ~coverage[f].skipped}

\* A split file is created in full, and its blocks are written into it later.
\* That this fails is not looked at: a refused CreateFileW on the PC leaves it
\* without a handle, a refused createFile leaves the device as it was.
StartWorkers ==
    /\ pc = "resolve" /\ ~stopRequested /\ (next > Len(Plan) \/ shutdown)
    /\ queue' \in {q \in SetToSeqs(Blocks) : InOrder(q)}
    /\ \E refused \in IF CreateMayFail THEN SUBSET ToSplit ELSE {{}} :
          dest' = [f \in Files |-> IF f \in ToSplit \ refused THEN New ELSE dest[f]]
    /\ wpc' = [w \in Worker |-> "top"]
    /\ pc' = "run"
    /\ UNCHANGED <<next, verified, crcFailed, state, uiVars, choiceVars,
                   coverage, completed, blk, pos, down>>

Join ==
    /\ pc = "run" /\ \A w \in Worker : wpc[w] = "exit"
    /\ IF state # "Failed" /\ ~stopRequested /\ Verify
       THEN state' = "Verifying" /\ pc' = "verify"
       ELSE pc' = "outcome" /\ UNCHANGED state
    /\ UNCHANGED <<next, verified, crcFailed, uiVars, choiceVars, workVars, workerVars>>

-----------------------------------------------------------------------------
(* A worker thread. *)

EndBlock(w, where) ==
    /\ wpc' = [wpc EXCEPT ![w] = where]
    /\ blk' = [blk EXCEPT ![w] = NoBlock]
    /\ pos' = [pos EXCEPT ![w] = 0]

\* The queue without the blocks of f, in the same order.
Without(q, f) ==
    {[i \in DOMAIN s |-> q[s[i]]] :
        s \in {t \in SetToSeqs({i \in DOMAIN q : q[i].file # f}) :
                 \A i, j \in DOMAIN t : i < j => t[i] < t[j]}}

\* The lambda failFile.
FailFile(f) ==
    /\ coverage' = [coverage EXCEPT ![f] = FailCoverage(@)]
    /\ completed' = completed \ {f}
    /\ queue' \in Without(queue, f)

\* The loop condition is false, or the queue is empty.
WorkerExits(w) ==
    /\ wpc[w] = "top"
    /\ shutdown \/ stopRequested \/ state = "Failed" \/ queue = <<>>
    /\ EndBlock(w, "exit")
    /\ UNCHANGED <<mainVars, state, uiVars, choiceVars, workVars, down>>

\* Switching back to the preferred transport closes the socket first, and may
\* fail to open the new one.
Upgrade(w) ==
    /\ wpc[w] = "top" /\ ~shutdown /\ ~stopRequested /\ state # "Failed"
    /\ down' \in {down \cup {w}} \cup (IF w \in Mortal THEN {} ELSE {down \ {w}})
    /\ UNCHANGED <<mainVars, state, uiVars, choiceVars, workVars, wpc, blk, pos>>

CanGrab(w) ==
    wpc[w] = "top" /\ queue # <<>> /\ ~shutdown /\ ~stopRequested /\ state # "Failed"

\* A block of a file that has failed meanwhile is thrown away.
DropFailed(w) ==
    /\ CanGrab(w) /\ coverage[Head(queue).file].failed
    /\ queue' = Tail(queue)
    /\ UNCHANGED <<mainVars, state, uiVars, choiceVars, coverage, completed, dest, workerVars>>

\* Mutant of Grab: the block keeps its length although its rest is queued again.
GrabKeepsLength(w) ==
    /\ CanGrab(w) /\ ~coverage[Head(queue).file].failed
    /\ LET b == Head(queue) IN
       \E n \in IF Kind(b.file) = "split" THEN 1..b.len ELSE {b.len} :
          /\ blk' = [blk EXCEPT ![w] = b]
          /\ queue' = IF n < b.len
                      THEN <<[b EXCEPT !.off = @ + n, !.len = @ - n]>> \o Tail(queue)
                      ELSE Tail(queue)
    /\ wpc' = [wpc EXCEPT ![w] = "open"]
    /\ UNCHANGED <<mainVars, state, uiVars, choiceVars, coverage, completed, dest, pos, down>>

\* Takes a slice of the first block and puts the rest back at the front.
Grab(w) ==
    /\ CanGrab(w) /\ ~coverage[Head(queue).file].failed
    /\ LET b == Head(queue) IN
       \E n \in IF Kind(b.file) = "split" THEN 1..b.len ELSE {b.len} :
          /\ blk' = [blk EXCEPT ![w] = [b EXCEPT !.len = n]]
          /\ queue' = IF n < b.len
                      THEN <<[b EXCEPT !.off = @ + n, !.len = @ - n]>> \o Tail(queue)
                      ELSE Tail(queue)
    /\ wpc' = [wpc EXCEPT ![w] = "open"]
    /\ UNCHANGED <<mainVars, state, uiVars, choiceVars, coverage, completed, dest, pos, down>>

MakeDirectory(w) ==
    /\ wpc[w] = "open" /\ Kind(blk[w].file) = "dir"
    /\ \/ /\ IsPull \/ w \notin down
          /\ coverage' = [coverage EXCEPT ![blk[w].file] = RecordRange(@, 0, 0)]
          /\ completed' = completed \cup {blk[w].file}
          /\ UNCHANGED queue
       \/ FailFile(blk[w].file)
    /\ EndBlock(w, "top")
    /\ UNCHANGED <<mainVars, state, uiVars, choiceVars, dest, down>>

\* pullFile and pushFile create or truncate the destination before the data; a
\* range written to the device creates the file if there is none.
Open(w) ==
    /\ wpc[w] = "open" /\ Kind(blk[w].file) # "dir" /\ w \notin down
    /\ LET f == blk[w].file IN
       dest' = IF Kind(f) = "whole" \/ (~IsPull /\ dest[f] = Absent)
               THEN [dest EXCEPT ![f] = New] ELSE dest
    /\ wpc' = [wpc EXCEPT ![w] = "xfer"]
    /\ UNCHANGED <<mainVars, state, uiVars, choiceVars, coverage, completed, queue, blk, pos, down>>

\* A chunk arrives and its callback returns true.  Without a handle it is dropped;
\* written over an old file on the device it does not make that file the source's.
Move(w) ==
    /\ wpc[w] = "xfer" /\ w \notin down /\ pos[w] < blk[w].len
    /\ ~shutdown /\ ~stopRequested /\ ~pauseRequested
    /\ state' = "Running"
    /\ LET f == blk[w].file IN
       dest' = IF dest[f].is = "new"
               THEN [dest EXCEPT ![f].data = @ \cup {blk[w].off + pos[w]}] ELSE dest
    /\ pos' = [pos EXCEPT ![w] = @ + 1]
    /\ UNCHANGED <<mainVars, uiVars, choiceVars, coverage, completed, queue, wpc, blk, down>>

\* The callback waits while the user has paused the batch.
Pausing(w) ==
    /\ wpc[w] = "xfer" /\ pauseRequested /\ ~shutdown /\ ~stopRequested
    /\ state' = "Paused"
    /\ UNCHANGED <<mainVars, uiVars, choiceVars, workVars, workerVars>>

\* pushFile fails on a file without bytes: its first read returns none.
HasData(w) == IsPull \/ blk[w].len > 0

\* Mutant of MovedAll: a range that is one chunk short counts as received.
MovedAllButOne(w, lost) ==
    /\ wpc[w] = "xfer" /\ pos[w] + 1 >= blk[w].len /\ HasData(w)
    /\ ~shutdown /\ ~stopRequested
    /\ lost \subseteq IF IsPull THEN {} ELSE {blk[w].off + blk[w].len - 1}
    /\ dest' = [dest EXCEPT ![blk[w].file].data = @ \ lost]
    /\ down' = IF lost = {} THEN down ELSE down \cup {w}

\* Every chunk has been moved.  pushFile and writeRangeStreaming also report
\* success when the connection breaks before the device's confirmation, so a
\* pushed chunk may be missing.
MovedAll(w, lost) ==
    /\ wpc[w] = "xfer" /\ pos[w] = blk[w].len /\ HasData(w)
    /\ ~shutdown /\ ~stopRequested
    /\ lost \subseteq IF IsPull THEN {} ELSE {blk[w].off + blk[w].len - 1}
    /\ dest' = [dest EXCEPT ![blk[w].file].data = @ \ lost]
    /\ down' = IF lost = {} THEN down ELSE down \cup {w}

Finish(w) ==
    /\ \E lost \in SUBSET {blk[w].off + blk[w].len - 1} : MovedAll(w, lost)
    /\ LET b == blk[w]
           after == RecordRange(coverage[b.file], b.off, b.len)
       IN IF coverage[b.file].failed
          THEN UNCHANGED <<coverage, completed, queue>>
          ELSE IF Accepts(coverage[b.file], b.off, b.len)
          THEN /\ coverage' = [coverage EXCEPT ![b.file] = after]
               /\ completed' = IF IsComplete(after) THEN completed \cup {b.file} ELSE completed
               /\ UNCHANGED queue
          ELSE FailFile(b.file)
    /\ EndBlock(w, "top")
    /\ UNCHANGED <<mainVars, state, uiVars, choiceVars>>

\* After a stop the worker leaves, whatever became of its block; when the
\* application closes it leaves without recording a block it has just moved.
Interrupted(w) ==
    /\ \/ wpc[w] \in {"open", "xfer"} /\ Kind(blk[w].file) # "dir" /\ stopRequested
       \/ wpc[w] = "xfer" /\ shutdown /\ pos[w] = blk[w].len /\ HasData(w)
    /\ EndBlock(w, "exit")
    /\ UNCHANGED <<mainVars, state, uiVars, choiceVars, workVars, down>>

\* The block failed for a reason that is not the file's: after MaxTries its
\* file is given up, before that any worker may take it.
GiveBack(w) ==
    LET b == [blk[w] EXCEPT !.tries = @ + 1] IN
    IF b.tries >= MaxTries
    THEN FailFile(b.file) /\ EndBlock(w, "top")
    ELSE /\ queue' = Append(queue, b)
         /\ EndBlock(w, "reconnect")
         /\ UNCHANGED <<coverage, completed>>

\* The connection breaks, the device stops answering or reports another error.
LoseLink(w) ==
    /\ wpc[w] \in {"open", "xfer"} /\ Kind(blk[w].file) # "dir" /\ ~stopRequested
    /\ GiveBack(w)
    /\ down' \in {down, down \cup {w}}
    /\ UNCHANGED <<mainVars, state, uiVars, choiceVars, dest>>

\* The transfer functions fail at once without a connection, an empty push
\* always, and the callback cancels them when the application closes.
CannotMove(w) ==
    /\ wpc[w] \in {"open", "xfer"} /\ Kind(blk[w].file) # "dir" /\ ~stopRequested
    /\ w \in down \/ (wpc[w] = "xfer" /\ (~HasData(w) \/ (shutdown /\ pos[w] < blk[w].len)))
    /\ GiveBack(w)
    /\ UNCHANGED <<mainVars, state, uiVars, choiceVars, dest, down>>

\* "No such file", "Permission denied", ...: the connection is fine.
FileError(w) ==
    /\ wpc[w] = "open" /\ Kind(blk[w].file) # "dir" /\ w \notin down /\ ~stopRequested
    /\ FailFile(blk[w].file)
    /\ EndBlock(w, "top")
    /\ UNCHANGED <<mainVars, state, uiVars, choiceVars, dest, down>>

\* pullFile cannot create its local file.
LocalError(w) ==
    /\ IsPull /\ wpc[w] = "open" /\ Kind(blk[w].file) = "whole" /\ w \notin down /\ ~stopRequested
    /\ state' = "Failed"
    /\ localFailed' = TRUE
    /\ queue' = <<>>
    /\ EndBlock(w, "exit")
    /\ UNCHANGED <<mainVars, uiVars, allDecision, existing, coverage, completed, dest, down>>

Reconnect(w) ==
    /\ wpc[w] = "reconnect" /\ queue # <<>> /\ ~shutdown /\ ~stopRequested
    /\ w \notin Mortal \cap down
    /\ down' = down \ {w}
    /\ wpc' = [wpc EXCEPT ![w] = "top"]
    /\ UNCHANGED <<mainVars, state, uiVars, choiceVars, workVars, blk, pos>>

\* "no work left, no point reconnecting"
StopReconnecting(w) ==
    /\ wpc[w] = "reconnect" /\ (queue = <<>> \/ shutdown \/ stopRequested)
    /\ wpc' = [wpc EXCEPT ![w] = "exit"]
    /\ UNCHANGED <<mainVars, state, uiVars, choiceVars, workVars, blk, pos, down>>

-----------------------------------------------------------------------------
(* The batch thread: verification, outcome, clean-up. *)

ToVerify(f) == Kind(f) # "dir" /\ IsComplete(coverage[f])

\* The device's CRC is compared with one computed while the chunks were sent or
\* received; only a split file with a single recorded block is read again.
CrcMatches(f) ==
    IF IsPull
    THEN Kind(f) = "split" /\ Cardinality(Starts(coverage[f])) = 1 => Delivered(f)
    ELSE Delivered(f)

VerifyFile ==
    /\ pc = "verify" /\ verified < Len(Plan) /\ ~stopRequested
    /\ verified' = verified + 1
    /\ crcFailed' \in IF ~ToVerify(verified + 1) THEN {crcFailed}
                      ELSE IF CrcMatches(verified + 1) THEN {crcFailed, TRUE} ELSE {TRUE}
    /\ UNCHANGED <<pc, next, state, uiVars, choiceVars, workVars, workerVars>>

VerifyEnds ==
    /\ pc = "verify" /\ (verified = Len(Plan) \/ stopRequested)
    /\ pc' = "outcome"
    /\ UNCHANGED <<next, verified, crcFailed, state, uiVars, choiceVars, workVars, workerVars>>

Incomplete == {f \in Files : ~coverage[f].skipped /\ ~IsComplete(coverage[f])}

\* Mutant of Outcome: the results of the verification are not looked at.
OutcomeIgnoresCrc ==
    /\ pc = "outcome"
    /\ state' = CASE stopRequested -> "Stopped"
                  [] state = "Failed" -> "Failed"
                  [] OTHER -> IF Incomplete # {} THEN "Failed" ELSE "Completed"
    /\ pc' = "clean"
    /\ UNCHANGED <<next, verified, crcFailed, uiVars, choiceVars, workVars, workerVars>>

Outcome ==
    /\ pc = "outcome"
    /\ state' = CASE stopRequested -> "Stopped"
                  [] state = "Failed" -> "Failed"
                  [] OTHER -> IF Incomplete # {} \/ crcFailed THEN "Failed" ELSE "Completed"
    /\ pc' = "clean"
    /\ UNCHANGED <<next, verified, crcFailed, uiVars, choiceVars, workVars, workerVars>>

\* Mutant of Unfinished: files that were there before are deleted, too.
UnfinishedOrOld ==
    {f \in Files : /\ Kind(f) # "dir" /\ ~coverage[f].skipped /\ f \notin completed}

Unfinished ==
    {f \in Files : /\ Kind(f) # "dir" /\ ~coverage[f].skipped
                   /\ f \notin existing /\ f \notin completed}

\* Mutant of CleanUp: nothing is deleted after a failure.
CleanUpAfterStop ==
    /\ pc = "clean"
    /\ IF state = "Stopped"
       THEN \E gone \in IF IsPull THEN {Unfinished} ELSE SUBSET Unfinished :
               dest' = [f \in Files |-> IF f \in gone THEN Absent ELSE dest[f]]
       ELSE UNCHANGED dest
    /\ pc' = "ended"
    /\ UNCHANGED <<next, verified, crcFailed, state, uiVars, choiceVars,
                   coverage, completed, queue, workerVars>>

\* On the device a deletion may fail; its result is not looked at.  The PC is
\* taken to delete what the batch itself has created and closed.
CleanUp ==
    /\ pc = "clean"
    /\ IF state \in {"Stopped", "Failed"}
       THEN \E gone \in IF IsPull THEN {Unfinished} ELSE SUBSET Unfinished :
               dest' = [f \in Files |-> IF f \in gone THEN Absent ELSE dest[f]]
       ELSE UNCHANGED dest
    /\ pc' = "ended"
    /\ UNCHANGED <<next, verified, crcFailed, state, uiVars, choiceVars,
                   coverage, completed, queue, workerVars>>

-----------------------------------------------------------------------------
(* The user, in the transfer dialog.  A prompt is shown as long as the thread   *)
(* is at it, so an answer can be given again.                                *)

Active == pc # "ended" /\ ~shutdown

AnswerConflict ==
    /\ Active /\ pc = "asked"
    /\ response' \in {"overwrite", "overwriteAll", "skip", "skipAll"}
    /\ Notify
    /\ UNCHANGED <<mainVars, state, stopRequested, pauseRequested, shutdown,
                   choiceVars, workVars, workerVars>>

Stop ==
    /\ Active
    /\ stopRequested' = TRUE
    /\ pauseRequested' = FALSE
    /\ Notify
    /\ UNCHANGED <<mainVars, state, shutdown, response, choiceVars, workVars, workerVars>>

Pause ==
    /\ Active /\ state = "Running" /\ ~pauseRequested
    /\ pauseRequested' = TRUE
    /\ UNCHANGED <<mainVars, state, stopRequested, shutdown, response, nap,
                   choiceVars, workVars, workerVars>>

Resume ==
    /\ Active /\ state = "Paused" /\ pauseRequested
    /\ pauseRequested' = FALSE
    /\ Notify
    /\ UNCHANGED <<mainVars, state, stopRequested, shutdown, response,
                   choiceVars, workVars, workerVars>>

\* ~App while the batch runs: the user interface is gone, and this is the last
\* notification the thread gets.
ShutDown ==
    /\ MayShutDown /\ Active
    /\ shutdown' = TRUE
    /\ Notify
    /\ UNCHANGED <<mainVars, state, stopRequested, pauseRequested, response,
                   choiceVars, workVars, workerVars>>

-----------------------------------------------------------------------------
BatchThread ==
    \/ ResolveFree \/ ResolveDecided \/ Ask \/ Wait \/ Answered \/ AskInterrupted
    \/ StoppedBeforeStart \/ StartWorkers \/ Join
    \/ VerifyFile \/ VerifyEnds \/ Outcome \/ CleanUp

WorkerStep(w) ==
    \/ WorkerExits(w) \/ DropFailed(w) \/ Grab(w) \/ MakeDirectory(w)
    \/ Open(w) \/ Move(w) \/ Finish(w) \/ Interrupted(w) \/ CannotMove(w)
    \/ Reconnect(w) \/ StopReconnecting(w)

Trouble(w) == Upgrade(w) \/ LoseLink(w) \/ FileError(w) \/ LocalError(w) \/ Pausing(w)

User == AnswerConflict \/ Stop \/ Pause \/ Resume \/ ShutDown

\* The batch thread has set the outcome and taken the next batch.
Ended == pc = "ended" /\ UNCHANGED vars

Next ==
    \/ BatchThread
    \/ \E w \in Worker : WorkerStep(w) \/ Trouble(w)
    \/ User
    \/ Woken
    \/ Ended

\* Threads keep running and a link that is not Mortal comes back while its
\* worker keeps trying.  Nothing is assumed of the user or of errors.
Fairness == WF_vars(BatchThread) /\ \A w \in Worker : WF_vars(WorkerStep(w))

Spec == Init /\ [][Next]_vars /\ Fairness

-----------------------------------------------------------------------------
BlockType == [file : Files, off : Nat, len : Nat, tries : 0..(MaxTries - 1)]
Busy == {"open", "xfer"}

FlagType == {crcFailed, stopRequested, pauseRequested, shutdown, localFailed} \subseteq BOOLEAN

BatchType ==
    /\ pc \in {"resolve", "asked", "run", "verify", "outcome", "clean", "ended"}
    /\ next \in 1..(Len(Plan) + 1) /\ verified \in 0..Len(Plan)
    /\ state \in {"Running", "WaitingConflict", "Paused", "Verifying",
                  "Completed", "Failed", "Stopped"}
    /\ response \in {"none", "overwrite", "overwriteAll", "skip", "skipAll"}
    /\ allDecision \in {"none", "overwriteAll", "skipAll"}
    /\ existing \subseteq Files /\ completed \subseteq Files /\ down \subseteq Worker
    /\ nap \in Naps

WorkType ==
    /\ DOMAIN coverage = Files
    /\ \A f \in Files : coverage[f].size = Size(f) /\ coverage[f].bytes \in 0..Size(f)
    /\ queue \in Seq(BlockType)

DestType ==
    /\ dest \in [Files -> [is : {"absent", "old", "new"}, data : SUBSET Nat]]
    /\ \A f \in Files : dest[f].data \subseteq Bytes(f)

WorkerType ==
    /\ wpc \in [Worker -> Busy \cup {"idle", "top", "reconnect", "exit"}]
    /\ blk \in [Worker -> BlockType \cup {NoBlock}]
    /\ pos \in [Worker -> Nat]
    /\ \A w \in Worker : /\ IF wpc[w] \in Busy THEN blk[w] \in BlockType ELSE blk[w] = NoBlock
                         /\ pos[w] <= blk[w].len

TypeOK == FlagType /\ BatchType /\ WorkType /\ DestType /\ WorkerType

\* The chunks of file f a block stands for.
Span(b, f) == IF b.file = f THEN b.off..(b.off + b.len - 1) ELSE {}
Queued(i, f) == Span(queue[i], f)
Held(w, f) == Span(blk[w], f)

OneOwner ==
    \A f \in Files :
       /\ \A i, j \in 1..Len(queue) : i # j => Queued(i, f) \cap Queued(j, f) = {}
       /\ \A v, w \in Worker : v # w => Held(v, f) \cap Held(w, f) = {}
       /\ \A i \in 1..Len(queue), w \in Worker : Queued(i, f) \cap Held(w, f) = {}
       /\ ~coverage[f].failed =>
             /\ \A i \in 1..Len(queue) : Queued(i, f) \cap CoveredBytes(coverage[f]) = {}
             /\ \A w \in Worker : Held(w, f) \cap CoveredBytes(coverage[f]) = {}

NothingForgotten ==
    pc = "run" /\ ~stopRequested /\ ~shutdown /\ ~localFailed =>
       \A f \in Files : ~coverage[f].skipped /\ ~coverage[f].failed =>
          Bytes(f) \subseteq
             UNION ({Queued(i, f) : i \in 1..Len(queue)} \cup {Held(w, f) : w \in Worker}
                    \cup {CoveredBytes(coverage[f])})

\* The bytes of a file are divided among the queued blocks, the workers and the
\* record of what is done, through every slicing, return and retry: no range has
\* two owners, so no two workers write it, and, while the batch has not been
\* stopped or closed and no destination was refused, none has no owner, unless its
\* file is skipped or given up.
WorkPartitioned == OneOwner /\ NothingForgotten

\* "Completed" is reported only when every item that was not skipped is at its
\* destination with all its bytes, and never when a destination was refused,
\* although a worker that is still moving chunks sets the state back to Running.
CompletedMeansDelivered ==
    state = "Completed" =>
       /\ ~localFailed
       /\ \A f \in Files : Kind(f) = "dir" \/ coverage[f].skipped \/ Delivered(f)

NoPartialLeft ==
    pc = "ended" /\ state \in {"Stopped", "Failed"} =>
       \A f \in Files \ existing :
          Kind(f) = "dir" \/ coverage[f].skipped \/ dest[f].is # "new" \/ Delivered(f)

FinishedKept == \A f \in completed : Kind(f) = "dir" \/ Delivered(f)

\* Clean-up tells the finished from the partial: a stopped or failed batch leaves no
\* partial file where there was none before, and however a batch ends a file that
\* arrived in full stays.
CleansUp == NoPartialLeft /\ FinishedKept

\* A file that was at the destination and that the batch has not begun to write
\* is never deleted, and is written only after the user chose to overwrite it.
OnlyPartialDeleted ==
    [][\A f \in Files : dest[f].is = "old" => dest'[f].is # "absent"]_vars
OverwriteIsApproved ==
    [][\A f \in Files : dest[f].is = "old" /\ dest'[f].is = "new" =>
          f \in existing /\ ~coverage[f].skipped /\ f < next]_vars

\* The notification was lost: asleep although what it waits for has happened.
Overslept == nap = "asleep" /\ PromptOver

\* The user answers prompts and does not leave the batch paused, or closes the
\* application.  A prompt that stays after the answer is answered again.
Attended ==
    <>[](\/ shutdown
         \/ ~pauseRequested /\ (pc = "asked" => response # "none" \/ stopRequested))
AnswerAgain == Overslept /\ (AnswerConflict \/ Stop)

\* The batch then ends.  Nobody answers again after ~App: its one notification is
\* taken not to be lost.
BatchEnds ==
    Attended /\ WF_vars(AnswerAgain) /\ []<>~(Overslept /\ shutdown) => <>(pc = "ended")
=============================================================================
