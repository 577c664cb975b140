------------------------- MODULE CrossDevice_proofs -------------------------
(***************************************************************************)
(* What the relay between two devices keeps, for every plan, every number  *)
(* of pairs and every range length: a completed batch has delivered every  *)
(* file, clean-up keeps what has arrived and deletes the rest, and no      *)
(* range is requested over a stream that still holds data of another.      *)
(***************************************************************************)
EXTENDS CrossDevice, FiniteSetTheorems, TLAPS

\* What the batch thread's position says of the workers and of the files: those
\* it has passed are created, and behind the join none is missing.
AllAt(where) == \A w \in Pair : wpc[w] = where
Complete == \A f \in Wanted : Delivered(f)
Phases ==
    /\ pc \in {"resolve", "asked", "create"} =>
          /\ AllAt("idle") /\ queue = <<>> /\ ~failed /\ ~crcFailed
          /\ \A f \in Files : done[f] = 0 /\ crcs[f] = {}
          /\ \A f \in Wanted : f < next => dest[f].is = "new"
    /\ pc \in {"asked", "create"} => next <= Len(Plan) /\ ~IsDir(next)
    /\ pc = "run" => \A w \in Pair : wpc[w] # "idle"
    /\ pc \in {"verify", "outcome"} => AllAt("exit") /\ Complete
    /\ pc = "ended" => AllAt("idle") \/ AllAt("exit")

\* A range is queued at most once, held by at most one worker, and neither once it is
\* done, so that none is counted twice.
Pending(b) == b \in Ranges /\ b.off \notin crcs[b.file]
Owned ==
    pc = "run" =>
    /\ \A i \in DOMAIN queue : Pending(queue[i])
    /\ \A i, j \in DOMAIN queue : i # j => queue[i] # queue[j]
    /\ \A w \in Pair : wpc[w] \in Busy =>
          /\ Pending(blk[w])
          /\ \A i \in DOMAIN queue : queue[i] # blk[w]
          /\ \A v \in Pair \ {w} : wpc[v] \in Busy => blk[v] # blk[w]

\* Unless a stop came, the ranges counted are those relayed.
Counts ==
    pc = "run" => \A f \in Files :
       /\ Cardinality(crcs[f]) <= done[f]
       /\ ~stopRequested => done[f] = Cardinality(crcs[f])

\* What has been confirmed is in the file, from the start of the range on.
Span(b) == b.off..(b.off + b.len - 1)
Sent(w) == blk[w].off..(blk[w].off + sent[w] - 1)
Arrived ==
    /\ pc = "run" => \A w \in Pair : wpc[w] \in Busy =>
          /\ Sent(w) \subseteq dest[blk[w].file].data
          /\ wpc[w] = "returned" /\ ok[w] => sent[w] = blk[w].len
    /\ pc = "run" => \A f \in Wanted : dest[f].is = "new"
    /\ pc \in {"run", "verify", "outcome"} =>
          \A f \in Files : \A o \in crcs[f] : Span(RangeAt(f, o)) \subseteq dest[f].data

\* A worker that left data in its source's stream asks for no further range: it
\* gives up, or it leaves because of the stop that made it go on.
LeftForGood ==
    \A w \in Pair : left[w] =>
       \/ wpc[w] = "exit"
       \/ wpc[w] = "returned" /\ ~ok[w]
       \/ wpc[w] = "top" /\ stopRequested

Outcomes ==
    /\ state = "Completed" => pc = "ended" /\ Complete
    /\ CleansUp

IInv == TypeOK /\ Phases /\ Owned /\ Counts /\ Arrived /\ LeftForGood /\ Outcomes
-----------------------------------------------------------------------------
(* Ranges. *)

\* The sizes of the plan are numbers of chunks.
LEMMA SizesAreNat == \A f \in Files : Size(f) \in Nat
<1> DEFINE Item == [dir : BOOLEAN, size : Nat]
<1>1. Plan \in Seq(Item)
  BY PlanAssumption
<1>2. \A e \in Item : e.size \in Nat
  OBVIOUS
<1> HIDE DEF Item
<1> QED BY <1>1, <1>2 DEF Files, Size

\* The plan is a finite sequence of items.
LEMMA PlanLength == Len(Plan) \in Nat
  BY PlanAssumption

\* A file has finitely many chunks, and so finitely many ranges.
LEMMA StartsFinite ==
    ASSUME NEW f \in Files
    PROVE  IsFiniteSet(Bytes(f)) /\ IsFiniteSet(Starts(f)) /\ Starts(f) \subseteq Bytes(f)
<1>1. IsFiniteSet(Bytes(f))
  BY SizesAreNat, FS_Interval DEF Bytes
<1>2. Starts(f) \subseteq Bytes(f)
  BY DEF Starts
<1> QED BY <1>1, <1>2, FS_Subset

\* A file with bytes has a range length, and its ranges cover it.
LEMMA StrideType ==
    ASSUME NEW f \in Files, Size(f) > 0
    PROVE  Stride(f) \in Nat \ {0}
  BY SizesAreNat, PairAssumption DEF Stride

\* The range built for an offset lies inside its file.
LEMMA RangeAtType ==
    ASSUME NEW f \in Files, NEW o \in Starts(f)
    PROVE  LET b == RangeAt(f, o)
           IN  /\ b.file = f /\ b.off = o /\ b \in WorkType
               /\ Span(b) \subseteq Bytes(f)
<1>1. Size(f) \in Nat /\ o \in 0..(Size(f) - 1)
  BY SizesAreNat DEF Starts, Bytes
<1>2. Stride(f) \in Nat
  BY <1>1, StrideType
<1> QED BY <1>1, <1>2 DEF RangeAt, Work, WorkType, Span, Bytes

\* The ranges of a file leave none of its chunks out (the loop over blockSize).
LEMMA RangesCover ==
    ASSUME NEW f \in Files, NEW x \in Bytes(f)
    PROVE  \E o \in Starts(f) : x \in Span(RangeAt(f, o))
<1> DEFINE n == Stride(f)
           r == x % n
           o == x - r
<1>1. x \in Nat /\ Size(f) \in Nat /\ x < Size(f)
  BY SizesAreNat DEF Bytes
<1>2. n \in Nat \ {0}
  BY <1>1, StrideType
<1> HIDE DEF n
<1>3. r \in 0..(n - 1)
  BY <1>1, <1>2
<1>4. r <= x /\ o % n = 0
  BY <1>1, <1>2
<1> HIDE DEF r
<1>5. o \in Nat /\ o <= x /\ x < o + n
  BY <1>1, <1>2, <1>3, <1>4
<1>6. o \in Starts(f)
  BY <1>1, <1>4, <1>5 DEF Starts, Bytes, n
<1>7. RangeAt(f, o) = Work(f, o, IF Size(f) - o > n THEN n ELSE Size(f) - o)
  BY DEF RangeAt, n
<1> HIDE DEF o
<1>8. x \in Span(RangeAt(f, o))
  BY <1>1, <1>2, <1>5, <1>7 DEF Span, Work
<1> QED BY <1>6, <1>8

\* A range is known by its file and its offset.
LEMMA InRanges ==
    ASSUME NEW b \in Ranges
    PROVE  /\ b.file \in Wanted /\ b.file \in Files
           /\ b.off \in Starts(b.file) /\ b = RangeAt(b.file, b.off)
           /\ b \in WorkType /\ Span(b) \subseteq Bytes(b.file)
<1>1. PICK f \in Wanted : \E o \in Starts(f) : b = RangeAt(f, o)
  BY DEF Ranges
<1>2. PICK o \in Starts(f) : b = RangeAt(f, o)
  BY <1>1
<1>3. f \in Files
  BY DEF Wanted
<1> QED BY <1>2, <1>3, RangeAtType

\* All files together have finitely many ranges.
LEMMA RangesFinite == IsFiniteSet(Ranges)
<1> DEFINE of == [f \in Wanted |-> {RangeAt(f, o) : o \in Starts(f)}]
           All == {of[g] : g \in Wanted}
<1>1. IsFiniteSet(Wanted)
  BY FS_Interval, FS_Subset, PlanAssumption DEF Wanted, Files
<1>2. ASSUME NEW h \in Wanted PROVE IsFiniteSet(of[h])
  <2> DEFINE at == [o \in Starts(h) |-> RangeAt(h, o)]
  <2>1. at \in Surjection(Starts(h), of[h])
    BY DEF Surjection
  <2>2. IsFiniteSet(Starts(h))
    BY StartsFinite DEF Wanted
  <2> QED BY <2>1, <2>2, FS_Surjection
<1>3. of \in Surjection(Wanted, All)
  BY DEF Surjection
<1>4. UNION All = Ranges
  BY DEF Ranges
<1>5. \A S \in All : IsFiniteSet(S)
  BY <1>2
<1> HIDE DEF All, of
<1>6. IsFiniteSet(All)
  BY <1>1, <1>3, FS_Surjection
<1> QED BY <1>4, <1>5, <1>6, FS_UNION

\* Work queued at the start: each range at most once.
LEMMA QueueType ==
    ASSUME NEW q \in SetToSeqs(Ranges)
    PROVE  /\ q \in Seq(WorkType) /\ \A i \in DOMAIN q : q[i] \in Ranges
           /\ \A i, j \in DOMAIN q : i # j => q[i] # q[j]
<1> DEFINE n == Cardinality(Ranges)
<1>1. n \in Nat
  BY RangesFinite, FS_CardinalityType
<1>2. q \in [1..n -> Ranges] /\ \A i, j \in 1..n : i # j => q[i] # q[j]
  BY DEF SetToSeqs
<1> HIDE DEF n
<1>3. Ranges \subseteq WorkType
  BY InRanges
<1>4. q \in Seq(Ranges)
  BY <1>1, <1>2
<1> QED BY <1>1, <1>2, <1>3, <1>4

-----------------------------------------------------------------------------
(* Who changes what: the steps a conjunct of the invariant can be disturbed by. *)

\* The destination is written only by the creation of a file, by a chunk that is
\* confirmed and by the clean-up.
LEMMA DestChanges ==
    ASSUME [Next]_vars
    PROVE  \/ UNCHANGED <<dest>>
           \/ Create
           \/ CreateFails
           \/ JoinCleans
           \/ \E w \in Pair : FinishSend(w)
  BY DEF Next, BatchThread, WorkerStep, Trouble, User, Ended, vars,
         batchVars, uiVars, choiceVars, workVars, destVars, workerVars,
         Returns, MakeDirectory, NoConflict, Decided, Ask, Answered,
         StoppedBeforeStart, StartWorkers, JoinSucceeds, VerifyFile,
         VerifyEnds, Outcome, AnswerConflict, Stop, Pause, Resume, ShutDown,
         WorkerExits, Take, Begin, Opened, Receive, Continue, Cancelled,
         Confirmed, GiveUp, Count, OpenFails, RelayBreaks, Pausing,
         Wait, Dozes, FallsAsleep, Woken, Wakes, flagVars

\* The queue and the counts change when it is built, when a worker takes a range and
\* when it counts one.
LEMMA RangeChanges ==
    ASSUME [Next]_vars
    PROVE  \/ UNCHANGED <<queue, done, crcs>>
           \/ StartWorkers
           \/ \E w \in Pair : Take(w)
           \/ \E w \in Pair : Count(w)
<1>1. CASE BatchThread
  BY <1>1 DEF BatchThread, batchVars, uiVars, choiceVars, workVars, destVars, workerVars,
         MakeDirectory, NoConflict, Decided, Ask, Answered, Create, CreateFails,
         StoppedBeforeStart, JoinCleans, JoinSucceeds, VerifyFile, VerifyEnds, Outcome,
         Wait, Dozes, FallsAsleep, flagVars
<1>2. CASE \E w \in Pair : WorkerStep(w) \/ Trouble(w)
  BY <1>2 DEF WorkerStep, Trouble, workVars, Returns, WorkerExits, Begin, Opened, Receive,
         FinishSend, Continue, Cancelled, Confirmed, GiveUp, OpenFails, RelayBreaks, Pausing
<1>3. CASE User \/ Woken \/ UNCHANGED vars
  BY <1>3 DEF User, vars, workVars, AnswerConflict, Stop, Pause, Resume, ShutDown, Woken, Wakes
<1> QED BY <1>1, <1>2, <1>3 DEF Next, Ended

\* A worker's position, range and result are changed by its own steps, and once by
\* the start of all workers.
LEMMA WorkerChanges ==
    ASSUME [Next]_vars
    PROVE  \/ UNCHANGED <<wpc, blk, got, sent, ok, left>>
           \/ StartWorkers
           \/ \E w \in Pair : WorkerExits(w)
           \/ \E w \in Pair : Take(w)
           \/ \E w \in Pair : Begin(w)
           \/ \E w \in Pair : Opened(w)
           \/ \E w \in Pair : Receive(w)
           \/ \E w \in Pair : FinishSend(w)
           \/ \E w \in Pair : Continue(w)
           \/ \E w \in Pair : Cancelled(w)
           \/ \E w \in Pair : Confirmed(w)
           \/ \E w \in Pair : GiveUp(w)
           \/ \E w \in Pair : Count(w)
           \/ \E w \in Pair : OpenFails(w)
           \/ \E w \in Pair : RelayBreaks(w)
           \/ \E w \in Pair : Pausing(w)
  BY DEF Next, BatchThread, WorkerStep, Trouble, User, Ended, vars,
         batchVars, uiVars, choiceVars, workVars, destVars, workerVars,
         Returns, MakeDirectory, NoConflict, Decided, Ask, Answered, Create,
         CreateFails, StoppedBeforeStart, JoinCleans, JoinSucceeds,
         VerifyFile, VerifyEnds, Outcome, AnswerConflict, Stop, Pause,
         Resume, ShutDown, Wait, Dozes, FallsAsleep, Woken, Wakes, flagVars

\* While the workers run the batch thread waits for them, and the choices of the
\* user are made.
LEMMA WhileRunning ==
    ASSUME [Next]_vars, pc' = "run"
    PROVE  \/ StartWorkers
           \/ /\ pc = "run"
              /\ UNCHANGED <<skipped, queue, done, crcs, dest, workerVars>>
           \/ /\ pc = "run"
              /\ \E w \in Pair : WorkerStep(w) \/ Trouble(w)
<1>1. CASE BatchThread
  BY <1>1 DEF BatchThread, Ends, Decide, Resolving, Joined, MakeDirectory,
         NoConflict, Decided, Ask, Answered, Create, CreateFails,
         StoppedBeforeStart, JoinCleans, JoinSucceeds, VerifyFile,
         VerifyEnds, Outcome, Wait, Dozes, FallsAsleep
<1>2. CASE User \/ Woken
  BY <1>2 DEF User, choiceVars, workVars, destVars, workerVars,
         AnswerConflict, Stop, Pause, Resume, ShutDown, Woken, Wakes
<1>3. CASE UNCHANGED vars
  BY <1>3 DEF vars, choiceVars, workVars, destVars, workerVars
<1>4. ASSUME NEW w \in Pair, WorkerStep(w) \/ Trouble(w) PROVE pc = "run"
  BY <1>4 DEF WorkerStep, Trouble, batchVars, WorkerExits, Take, Begin,
         Opened, Receive, FinishSend, Continue, Cancelled, Confirmed,
         GiveUp, Count, OpenFails, RelayBreaks, Pausing
<1> QED BY <1>1, <1>2, <1>3, <1>4 DEF Next, Ended

\* A step of one worker leaves the batch thread, the choices and the positions of
\* the others alone.
LEMMA WorkerFrame ==
    ASSUME NEW w \in Pair, WorkerType, WorkerStep(w) \/ Trouble(w)
    PROVE  /\ UNCHANGED <<pc, next, uiVars, choiceVars, crcFailed, undeleted>>
           /\ wpc[w] \notin {"idle", "exit"} /\ wpc' = [wpc EXCEPT ![w] = wpc'[w]]
           /\ wpc'[w] # "idle" /\ state' \in {state, "Running", "Paused"}
  BY DEF WorkerStep, Trouble, batchVars, choiceVars, destVars, workerVars,
         WorkerType, Returns, WorkerExits, Take, Begin, Opened, Receive,
         FinishSend, Continue, Cancelled, Confirmed, GiveUp, Count,
         OpenFails, RelayBreaks, Pausing

-----------------------------------------------------------------------------
(* Types. *)

\* Every variable starts in its range.
LEMMA InitType == Init => TypeOK
<1> SUFFICES ASSUME Init PROVE TypeOK
  OBVIOUS
<1>0. FlagType
  BY DEF Init, FlagType
<1>1. BatchType
  BY PlanLength DEF Init, BatchType, Naps
<1>2. RangeType
  BY DEF Init, RangeType
<1>3. DestType
  BY DEF Init, DestType, Old, Absent
<1>4. WorkerType
  BY DEF Init, WorkerType, NoWork, Work, Busy
<1> QED BY <1>0, <1>1, <1>2, <1>3, <1>4 DEF TypeOK

\* Stop, pause, shutdown and the two failure flags stay Boolean.
LEMMA FlagTypeKept ==
    ASSUME FlagType, [Next]_vars
    PROVE  FlagType'
<1> USE DEF FlagType
<1>1. CASE BatchThread
  BY <1>1 DEF BatchThread, uiVars, workVars, MakeDirectory, NoConflict, Decided, Ask,
       Answered, Create, CreateFails, StoppedBeforeStart, StartWorkers, JoinCleans,
       JoinSucceeds, VerifyFile, VerifyEnds, Outcome, Wait, Dozes, FallsAsleep, flagVars
<1>2. ASSUME NEW w \in Pair, WorkerStep(w) \/ Trouble(w) PROVE FlagType'
  BY <1>2 DEF WorkerStep, Trouble, batchVars, uiVars, workVars, WorkerExits, Take,
       Begin, Opened, Receive, FinishSend, Continue, Cancelled, Confirmed, GiveUp,
       Count, OpenFails, RelayBreaks, Pausing, flagVars
<1>3. CASE User
  BY <1>3 DEF User, workVars, AnswerConflict, Stop, Pause, Resume, ShutDown
<1>4. CASE Woken
  BY <1>4 DEF Woken, workVars, flagVars
<1>5. CASE UNCHANGED vars
  BY <1>5 DEF vars, uiVars, workVars, flagVars
<1> QED BY <1>1, <1>2, <1>3, <1>4, <1>5 DEF Next, Ended

\* The batch thread stays at a known position and at an item of the plan.
LEMMA BatchTypeKept ==
    ASSUME BatchType, Phases, [Next]_vars
    PROVE  BatchType'
<1> USE PlanLength DEF BatchType
<1>1. CASE BatchThread
  <2>0. pc \in {"asked", "create"} => next <= Len(Plan)
    BY DEF Phases
  <2>1. /\ next' \in {next, next + 1, 1}
        /\ pc' \in {"resolve", "asked", "create", "run", "verify", "outcome", "ended"}
    BY <1>1 DEF BatchThread, Ends, Decide,
         MakeDirectory, NoConflict, Decided, Ask, Answered, Create, CreateFails,
         StoppedBeforeStart, StartWorkers, JoinCleans, JoinSucceeds, VerifyFile,
         VerifyEnds, Outcome, Wait, Dozes, FallsAsleep
  <2>2. next' = next \/ next' = 1 \/ next <= Len(Plan)
    BY <1>1, <2>0 DEF BatchThread, Ends, Decide, Resolving,
         MakeDirectory, NoConflict, Decided, Ask, Answered, Create, CreateFails,
         StoppedBeforeStart, StartWorkers, JoinCleans, JoinSucceeds, VerifyFile,
         VerifyEnds, Outcome, Wait, Dozes, FallsAsleep
  <2>3. /\ state' \in {"Running", "WaitingConflict", "Paused", "Verifying",
                       "Completed", "Failed", "Stopped"}
        /\ response' \in {response, "none"}
        /\ allDecision' \in {allDecision, "overwriteAll", "skipAll"}
    BY <1>1 DEF BatchThread, Ends, Decide, uiVars, choiceVars,
         MakeDirectory, NoConflict, Decided, Ask, Answered, Create, CreateFails,
         StoppedBeforeStart, StartWorkers, JoinCleans, JoinSucceeds, VerifyFile,
         VerifyEnds, Outcome, Wait, Dozes, FallsAsleep, flagVars
  <2>4. /\ skipped' \in {skipped, skipped \cup {next}} /\ (skipped' # skipped => next <= Len(Plan))
        /\ undeleted' \subseteq undeleted \cup Files
    BY <1>1, <2>0 DEF BatchThread, Ends, Decide, choiceVars, destVars, Resolving,
         MakeDirectory, NoConflict, Decided, Ask, Answered, Create, CreateFails,
         StoppedBeforeStart, StartWorkers, JoinCleans, JoinSucceeds, VerifyFile,
         VerifyEnds, Outcome, Unfinished, Wanted, Wait, Dozes, FallsAsleep
  <2>5. skipped' \subseteq Files
    BY <2>4 DEF Files
  <2>6. nap' \in Naps
    BY <1>1 DEF BatchThread, Naps, uiVars,
         MakeDirectory, NoConflict, Decided, Ask, Answered, Create, CreateFails,
         StoppedBeforeStart, StartWorkers, JoinCleans, JoinSucceeds, VerifyFile,
         VerifyEnds, Outcome, Wait, Dozes, FallsAsleep
  <2> QED BY <2>1, <2>2, <2>3, <2>4, <2>5, <2>6
<1>2. ASSUME NEW w \in Pair, WorkerStep(w) \/ Trouble(w) PROVE BatchType'
  <2>1. UNCHANGED <<pc, next, response, allDecision, skipped, undeleted, nap>>
    BY <1>2 DEF WorkerStep, Trouble, batchVars, uiVars, choiceVars, destVars, Returns,
         WorkerExits, Take, Begin, Opened, Receive, FinishSend, Continue, Cancelled,
         Confirmed, GiveUp, Count, OpenFails, RelayBreaks, Pausing, flagVars
  <2>2. state' \in {state, "Running", "Paused"}
    BY <1>2 DEF WorkerStep, Trouble, WorkerExits, Take, Begin, Opened, Receive,
         FinishSend, Continue, Cancelled, Confirmed, GiveUp, Count, OpenFails,
         RelayBreaks, Pausing
  <2> QED BY <2>1, <2>2
<1>3. CASE User \/ Woken
  <2>1. UNCHANGED <<pc, next, state, allDecision, skipped, undeleted>>
    BY <1>3 DEF User, choiceVars, destVars, AnswerConflict, Stop, Pause, Resume, ShutDown,
         Woken, Wakes
  <2>2. response' \in {response, "overwrite", "overwriteAll", "skip", "skipAll"}
    BY <1>3 DEF User, AnswerConflict, Stop, Pause, Resume, ShutDown, Woken, flagVars
  <2>3. nap' \in Naps
    BY <1>3 DEF User, AnswerConflict, Stop, Pause, Resume, ShutDown, Woken, Wakes, Notify, Naps
  <2> QED BY <2>1, <2>2, <2>3
<1>4. CASE UNCHANGED vars
  BY <1>4 DEF vars, uiVars, choiceVars, destVars, flagVars
<1> QED BY <1>1, <1>2, <1>3, <1>4 DEF Next, Ended

\* Only ranges of the plan are queued, and only their offsets are counted.
LEMMA RangeTypeKept ==
    ASSUME TypeOK, Phases, Owned, [Next]_vars
    PROVE  RangeType'
<1> USE DEF TypeOK, RangeType
<1>1. CASE UNCHANGED <<queue, done, crcs>>
  BY <1>1
<1>2. CASE StartWorkers
  BY <1>2, QueueType DEF StartWorkers
<1>3. ASSUME NEW w \in Pair, Take(w) PROVE RangeType'
  BY <1>3 DEF Take
<1>4. ASSUME NEW w \in Pair, Count(w) PROVE RangeType'
  <2>1. pc = "run"
    BY <1>4 DEF Count, Phases, BatchType, AllAt
  <2>2. blk[w] \in Ranges
    BY <1>4, <2>1 DEF Owned, Pending, Count, Busy
  <2>3. blk[w].file \in Files /\ blk[w].off \in Starts(blk[w].file)
    BY <2>2, InRanges
  <2>4. blk[w].off \in Nat
    BY <2>3, SizesAreNat DEF Starts, Bytes
  <2> QED BY <1>4, <2>3, <2>4 DEF Count
<1> QED BY <1>1, <1>2, <1>3, <1>4, RangeChanges

\* No chunk is written outside its file.
LEMMA DestTypeKept ==
    ASSUME TypeOK, Phases, Owned, [Next]_vars
    PROVE  DestType'
<1> USE DEF TypeOK, DestType
<1>0. New \in [is : {"absent", "old", "new"}, data : SUBSET Nat] /\ New.data = {}
      /\ Absent \in [is : {"absent", "old", "new"}, data : SUBSET Nat] /\ Absent.data = {}
  BY DEF New, Absent
<1>1. CASE UNCHANGED dest
  BY <1>1
<1>2. CASE Create
  BY <1>0, <1>2 DEF Create
<1>3. CASE CreateFails
  BY <1>0, <1>3 DEF CreateFails
<1>4. CASE JoinCleans
  BY <1>0, <1>4 DEF JoinCleans
<1>5. ASSUME NEW w \in Pair, FinishSend(w) PROVE DestType'
  <2>1. pc = "run" /\ wpc[w] \in Busy
    BY <1>5 DEF FinishSend, Phases, BatchType, AllAt, Busy
  <2>2. blk[w] \in Ranges
    BY <2>1 DEF Owned, Pending
  <2> DEFINE f == blk[w].file
             x == blk[w].off + sent[w]
  <2>3. f \in Files /\ Span(blk[w]) \subseteq Bytes(f) /\ blk[w] \in WorkType
    BY <2>2, InRanges
  <2>4. x \in Span(blk[w])
    BY <1>5, <2>3 DEF FinishSend, WorkerType, WorkType, Span
  <2>5. x \in Bytes(f) /\ x \in Nat
    BY <2>3, <2>4, SizesAreNat DEF Bytes
  <2>6. dest' = [dest EXCEPT ![f].data = @ \cup {x}]
    BY <1>5 DEF FinishSend
  <2> HIDE DEF f, x
  <2> QED BY <2>3, <2>5, <2>6
<1> QED BY <1>1, <1>2, <1>3, <1>4, <1>5, DestChanges

\* A worker receives no more than its range has, and no more than two chunks are on
\* their way (received, not yet confirmed).
LEMMA WorkerTypeKept ==
    ASSUME TypeOK, [Next]_vars
    PROVE  WorkerType'
<1> USE DEF TypeOK, WorkerType
<1>0. WorkType \subseteq [file : Files, off : Nat, len : Nat]
      /\ NoWork.len = 0 /\ \A b \in WorkType : b.len \in Nat
  BY DEF WorkType, NoWork, Work
<1>1. CASE UNCHANGED <<wpc, blk, got, sent, ok, left>>
  BY <1>1
<1>2. CASE StartWorkers
  BY <1>2 DEF StartWorkers, Busy
<1>3. ASSUME NEW w \in Pair, Take(w) PROVE WorkerType'
  <2>1. Head(queue) \in WorkType
    BY <1>3 DEF Take, RangeType
  <2>2. Head(queue).len \in Nat
    BY <1>0, <2>1
  <2> QED BY <1>3, <2>1, <2>2 DEF Take, Busy
<1>4. ASSUME NEW w \in Pair, Receive(w) PROVE WorkerType'
  <2>1. blk[w].len \in Nat
    BY <1>0
  <2> QED BY <1>4, <2>1 DEF Receive
<1>5. ASSUME NEW w \in Pair, FinishSend(w) PROVE WorkerType'
  <2>1. blk[w].len \in Nat
    BY <1>0
  <2> QED BY <1>5, <2>1 DEF FinishSend, Busy
<1>6. ASSUME NEW w \in Pair,
             \/ WorkerExits(w) \/ Begin(w) \/ Opened(w) \/ Continue(w) \/ Cancelled(w)
             \/ Confirmed(w) \/ GiveUp(w) \/ Count(w) \/ OpenFails(w) \/ RelayBreaks(w)
             \/ Pausing(w)
      PROVE  WorkerType'
  <2>1. /\ UNCHANGED <<blk, got, sent>>
        /\ \E s \in Busy \cup {"top", "exit"} :
              wpc' = [wpc EXCEPT ![w] = s] /\ (s \in Busy => wpc[w] \in Busy)
    BY <1>6 DEF Busy, Returns, WorkerExits, Begin, Opened, Continue, Cancelled, Confirmed,
         GiveUp, Count, OpenFails, RelayBreaks, Pausing
  <2>2. \E r \in BOOLEAN : ok' = [ok EXCEPT ![w] = r]
    <3>1. ok' = ok \/ \E r \in BOOLEAN : ok' = [ok EXCEPT ![w] = r]
      BY <1>6 DEF Returns, WorkerExits, Begin, Opened, Continue, Cancelled, Confirmed,
           GiveUp, Count, OpenFails, RelayBreaks, Pausing
    <3>2. ok = [ok EXCEPT ![w] = ok[w]] /\ ok[w] \in BOOLEAN
      BY <1>6
    <3> QED BY <3>1, <3>2
  <2>3. \E r \in BOOLEAN : left' = [left EXCEPT ![w] = r]
    BY <1>6 DEF WorkerExits, Begin, Opened, Continue, Cancelled, Confirmed,
         GiveUp, Count, OpenFails, RelayBreaks, Pausing
  <2> QED BY <2>1, <2>2, <2>3
<1> QED BY <1>1, <1>2, <1>3, <1>4, <1>5, <1>6, WorkerChanges

\* Every step keeps the types.
LEMMA TypeKept ==
    ASSUME TypeOK, Phases, Owned, [Next]_vars
    PROVE  TypeOK'
  BY FlagTypeKept, BatchTypeKept, RangeTypeKept, DestTypeKept, WorkerTypeKept DEF TypeOK

-----------------------------------------------------------------------------
(* The phases of the batch. *)

\* A worker that has been started and has not left is waited for by the batch thread.
LEMMA WorkersRun ==
    ASSUME TypeOK, Phases, NEW w \in Pair, wpc[w] \notin {"idle", "exit"}
    PROVE  pc = "run"
  BY DEF TypeOK, BatchType, Phases, AllAt

\* A file all of whose ranges have been counted with their CRCs is there.
LEMMA Gathered ==
    ASSUME TypeOK, Arrived, pc = "run", NEW f \in Wanted, Starts(f) \subseteq crcs[f]
    PROVE  Delivered(f)
<1>1. f \in Files
  BY DEF Wanted
<1>2. dest[f].is = "new" /\ dest[f].data \subseteq Bytes(f)
  BY <1>1 DEF Arrived, TypeOK, DestType
<1>3. ASSUME NEW x \in Bytes(f) PROVE x \in dest[f].data
  <2>1. PICK o \in Starts(f) : x \in Span(RangeAt(f, o))
    BY <1>1, RangesCover
  <2>2. Span(RangeAt(f, o)) \subseteq dest[f].data
    BY <1>1 DEF Arrived
  <2> QED BY <2>1, <2>2
<1> QED BY <1>2, <1>3 DEF Delivered

\* If no stop came, as many ranges counted as there are is all of them.
LEMMA AllThere ==
    ASSUME TypeOK, Counts, pc = "run", ~stopRequested, NEW f \in Wanted, Counted(f)
    PROVE  Starts(f) \subseteq crcs[f]
<1>1. f \in Files
  BY DEF Wanted
<1>2. crcs[f] \subseteq Starts(f) /\ done[f] = Cardinality(crcs[f])
  BY <1>1 DEF TypeOK, RangeType, Counts
<1>3. IsFiniteSet(Starts(f)) /\ IsFiniteSet(crcs[f])
  BY <1>1, <1>2, StartsFinite, FS_Subset
<1>4. /\ Cardinality(crcs[f]) <= Cardinality(Starts(f))
      /\ Cardinality(crcs[f]) = Cardinality(Starts(f)) => crcs[f] = Starts(f)
  BY <1>2, <1>3, FS_Subset
<1>5. Cardinality(crcs[f]) \in Nat /\ Cardinality(Starts(f)) \in Nat
  BY <1>3, FS_CardinalityType
<1> QED BY <1>2, <1>4, <1>5 DEF Counted

\* Every step keeps what the position of the batch thread says.
LEMMA PhasesKept ==
    ASSUME TypeOK, Phases, Counts, Arrived, [Next]_vars
    PROVE  Phases'
<1>1. ASSUME NEW w \in Pair, WorkerStep(w) \/ Trouble(w) PROVE Phases'
  <2>1. pc = "run"
    BY <1>1, WorkerFrame, WorkersRun DEF TypeOK
  <2>2. pc' = "run" /\ \A v \in Pair : wpc'[v] # "idle"
    BY <1>1, <2>1, WorkerFrame DEF TypeOK, Phases, WorkerType
  <2> QED BY <2>2 DEF Phases
<1>2. CASE UNCHANGED <<pc, next, skipped, queue, failed, done, crcs, crcFailed, dest, wpc>>
  BY <1>2 DEF Phases, AllAt, Complete, Delivered, Wanted
<1>3. CASE User \/ Woken \/ UNCHANGED vars
  BY <1>2, <1>3 DEF User, vars, choiceVars, workVars, destVars, workerVars,
       AnswerConflict, Stop, Pause, Resume, ShutDown, Woken, Wakes
<1>4. CASE \/ MakeDirectory \/ NoConflict \/ Decided \/ Ask \/ Wait \/ Answered \/ StoppedBeforeStart
  <2>1. /\ pc \in {"resolve", "asked"}
        /\ UNCHANGED <<queue, failed, done, crcs, crcFailed, dest, wpc>>
    BY <1>4 DEF workVars, destVars, workerVars, Resolving, MakeDirectory, NoConflict,
         Decided, Ask, Answered, StoppedBeforeStart, Wait, Dozes, FallsAsleep
  <2>2. /\ pc' \in {"resolve", "asked", "create", "ended"}
        /\ pc' \in {"asked", "create"} => next' = next /\ next <= Len(Plan) /\ ~IsDir(next)
    BY <1>4, <2>1 DEF Phases, Resolving, Ends, Decide, MakeDirectory, NoConflict, Decided,
         Ask, Answered, StoppedBeforeStart, DestExists, Wait, Dozes, FallsAsleep
  <2>3. /\ Wanted' \subseteq Wanted
        /\ next' = next \/ (next' = next + 1 /\ next \notin Wanted')
    BY <1>4 DEF Ends, Decide, choiceVars, MakeDirectory, NoConflict, Decided, Ask, Answered,
         StoppedBeforeStart, Wanted, Wait, Dozes, FallsAsleep
  <2>4. \A f \in Wanted' : f < next' => f \in Wanted /\ f < next
    BY <2>3, PlanLength DEF TypeOK, BatchType, Wanted, Files
  <2>5. AllAt("idle")' /\ queue' = <<>> /\ ~failed' /\ ~crcFailed'
        /\ (\A f \in Files : done'[f] = 0 /\ crcs'[f] = {})
        /\ (\A f \in Wanted' : f < next' => dest'[f].is = "new")
    BY <2>1, <2>4 DEF Phases, AllAt
  <2> QED BY <2>2, <2>5 DEF Phases
<1>5. CASE Create
  <2>1. \A f \in Wanted' : f < next' => dest'[f].is = "new"
    BY <1>5, PlanLength DEF Create, Phases, TypeOK, BatchType, DestType, Wanted, Files,
       choiceVars, New
  <2> QED BY <1>5, <2>1 DEF Create, Phases, AllAt, workVars, workerVars
<1>6. CASE CreateFails
  BY <1>6 DEF CreateFails, Ends, Phases, AllAt, workerVars
<1>7. CASE StartWorkers
  BY <1>7 DEF StartWorkers, Phases
<1>8. CASE JoinCleans
  BY <1>8 DEF JoinCleans, Joined, Phases, AllAt, workerVars
<1>9. CASE JoinSucceeds
  <2>1. Complete
    BY <1>9, AllThere, Gathered DEF JoinSucceeds, Joined, AllCounted, Complete
  <2>2. Complete'
    BY <1>9, <2>1 DEF JoinSucceeds, Complete, Delivered, Wanted, choiceVars, destVars
  <2> QED BY <1>9, <2>2 DEF JoinSucceeds, Joined, Phases, AllAt, workerVars
<1>10. CASE VerifyFile \/ VerifyEnds \/ Outcome
  <2>1. Complete /\ AllAt("exit") /\ pc' \in {"verify", "outcome", "ended"}
    BY <1>10 DEF VerifyFile, VerifyEnds, Outcome, Ends, Phases
  <2>2. Complete' /\ AllAt("exit")'
    BY <1>10, <2>1 DEF VerifyFile, VerifyEnds, Outcome, Complete, Delivered, Wanted, AllAt,
       choiceVars, destVars, workerVars
  <2> QED BY <2>1, <2>2 DEF Phases
<1> QED BY <1>1, <1>2, <1>3, <1>4, <1>5, <1>6, <1>7, <1>8, <1>9, <1>10
     DEF Next, BatchThread, Ended

-----------------------------------------------------------------------------
(* The ranges. *)

\* A range is known by its file and offset.
LEMMA SameRange ==
    ASSUME NEW a \in Ranges, NEW b \in Ranges, a.file = b.file, a.off = b.off
    PROVE  a = b
  BY InRanges

\* A range taken from the queue has one holder, and one counted with its CRCs never
\* comes back.
LEMMA OwnedKept ==
    ASSUME TypeOK, Phases, Owned, [Next]_vars
    PROVE  Owned'
<1> SUFFICES ASSUME pc' = "run"
             PROVE  /\ \A i \in DOMAIN queue' : Pending(queue[i])'
                    /\ \A i, j \in DOMAIN queue' : i # j => queue'[i] # queue'[j]
                    /\ \A w \in Pair : wpc'[w] \in Busy =>
                          /\ Pending(blk[w])'
                          /\ \A i \in DOMAIN queue' : queue'[i] # blk'[w]
                          /\ \A v \in Pair \ {w} : wpc'[v] \in Busy => blk'[v] # blk'[w]
  BY DEF Owned
<1>1. CASE StartWorkers
  <2>1. Ranges' = Ranges
    BY <1>1 DEF StartWorkers, choiceVars, Ranges, Wanted
  <2>2. /\ \A i \in DOMAIN queue' : queue'[i] \in Ranges
        /\ \A i, j \in DOMAIN queue' : i # j => queue'[i] # queue'[j]
    BY <1>1, QueueType DEF StartWorkers
  <2>3. \A b \in Ranges : Pending(b)'
    BY <1>1, <2>1, InRanges DEF StartWorkers, Phases, Pending
  <2>4. \A w \in Pair : wpc'[w] \notin Busy
    BY <1>1 DEF StartWorkers, Busy
  <2> QED BY <2>2, <2>3, <2>4
<1>2. CASE pc = "run" /\ UNCHANGED <<skipped, queue, done, crcs, dest, workerVars>>
  BY <1>2 DEF Owned, workerVars, Pending, Ranges, Wanted
<1>3. ASSUME pc = "run", NEW w \in Pair, WorkerStep(w) \/ Trouble(w)
      PROVE  /\ \A i \in DOMAIN queue' : Pending(queue[i])'
             /\ \A i, j \in DOMAIN queue' : i # j => queue'[i] # queue'[j]
             /\ \A u \in Pair : wpc'[u] \in Busy =>
                   /\ Pending(blk[u])'
                   /\ \A i \in DOMAIN queue' : queue'[i] # blk'[u]
                   /\ \A v \in Pair \ {u} : wpc'[v] \in Busy => blk'[v] # blk'[u]
  <2>1. Ranges' = Ranges
    BY <1>3, WorkerFrame DEF TypeOK, choiceVars, Ranges, Wanted
  <2>2. /\ \A i \in DOMAIN queue : Pending(queue[i])
        /\ \A i, j \in DOMAIN queue : i # j => queue[i] # queue[j]
        /\ \A u \in Pair : wpc[u] \in Busy =>
              /\ Pending(blk[u])
              /\ \A i \in DOMAIN queue : queue[i] # blk[u]
              /\ \A v \in Pair \ {u} : wpc[v] \in Busy => blk[v] # blk[u]
    BY <1>3 DEF Owned
  <2>3. CASE Take(w)
    <3>1. /\ Len(queue) \in Nat /\ DOMAIN queue = 1..Len(queue) /\ queue # <<>>
          /\ blk' = [blk EXCEPT ![w] = queue[1]] /\ queue' = Tail(queue) /\ 1 \in DOMAIN queue
          /\ UNCHANGED crcs /\ wpc' = [wpc EXCEPT ![w] = "taken"]
      BY <2>3 DEF Take, TypeOK, RangeType
    <3>2. \A i \in DOMAIN queue' : /\ i + 1 \in DOMAIN queue /\ i \in Nat \ {0}
                                   /\ queue'[i] = queue[i + 1]
      BY <3>1 DEF TypeOK, RangeType
    <3>3. \A b : Pending(b) => Pending(b)'
      BY <2>1, <3>1 DEF Pending
    <3>4. \A i, j \in DOMAIN queue' : i # j => i + 1 # j + 1
      BY <3>2
    <3>5. \A i \in DOMAIN queue' : i + 1 # 1
      BY <3>2
    <3>6. blk'[w] = queue[1] /\ \A u \in Pair \ {w} : blk'[u] = blk[u] /\ wpc'[u] = wpc[u]
      BY <3>1 DEF TypeOK, WorkerType
    <3>7. \A i \in DOMAIN queue' : Pending(queue[i])'
      BY <2>2, <3>2, <3>3, <3>1
    <3>8. \A i, j \in DOMAIN queue' : i # j => queue'[i] # queue'[j]
      BY <2>2, <3>2, <3>4
    <3>9. ASSUME NEW u \in Pair, wpc'[u] \in Busy
          PROVE  /\ Pending(blk[u])'
                 /\ \A i \in DOMAIN queue' : queue'[i] # blk'[u]
                 /\ \A v \in Pair \ {u} : wpc'[v] \in Busy => blk'[v] # blk'[u]
      <4>1. Pending(blk[u])'
        BY <2>2, <3>1, <3>3, <3>6, <3>9
      <4>2. \A i \in DOMAIN queue' : queue'[i] # blk'[u]
        BY <2>2, <3>1, <3>2, <3>5, <3>6, <3>9
      <4>3. \A v \in Pair \ {u} : wpc'[v] \in Busy => blk'[v] # blk'[u]
        BY <2>2, <3>1, <3>6, <3>9
      <4> QED BY <4>1, <4>2, <4>3
    <3> QED BY <3>7, <3>8, <3>9
  <2>4. CASE Count(w)
    <3>1. /\ wpc[w] \in Busy /\ UNCHANGED <<queue, blk>> /\ wpc' = [wpc EXCEPT ![w] = "top"]
          /\ \A f \in Files : crcs'[f] \subseteq
                IF f = blk[w].file THEN crcs[f] \cup {blk[w].off} ELSE crcs[f]
      BY <2>4 DEF Count, Busy, TypeOK, RangeType
    <3>2. \A b : Pending(b) /\ b # blk[w] => Pending(b)'
      BY <2>1, <2>2, <3>1, SameRange, InRanges DEF Pending
    <3>3. wpc'[w] \notin Busy /\ \A u \in Pair \ {w} : wpc'[u] = wpc[u]
      BY <3>1 DEF Busy, TypeOK, WorkerType
    <3> QED BY <2>2, <3>1, <3>2, <3>3
  <2>5. CASE UNCHANGED <<queue, crcs, blk>> /\ (wpc[w] \notin Busy => wpc'[w] \notin Busy)
    <3>1. \A b : Pending(b) => Pending(b)'
      BY <2>1, <2>5 DEF Pending
    <3>2. \A u \in Pair : wpc'[u] \in Busy => wpc[u] \in Busy
      BY <1>3, <2>5, WorkerFrame DEF TypeOK, WorkerType
    <3> QED BY <2>2, <2>5, <3>1, <3>2
  <2>6. \/ Take(w) \/ Count(w)
        \/ UNCHANGED <<queue, crcs, blk>> /\ (wpc[w] \notin Busy => wpc'[w] \notin Busy)
    BY <1>3 DEF WorkerStep, Trouble, Returns, WorkerExits, Begin, Opened, Receive,
       FinishSend, Continue, Cancelled, Confirmed, GiveUp, OpenFails, RelayBreaks, Pausing,
       workVars, TypeOK, WorkerType, Busy
  <2> QED BY <2>3, <2>4, <2>5, <2>6
<1> QED BY <1>1, <1>2, <1>3, WhileRunning

\* Nothing takes a stop back.
LEMMA StopStays ==
    ASSUME FlagType, [Next]_vars, stopRequested
    PROVE  stopRequested'
<1>1. CASE BatchThread
  BY <1>1 DEF BatchThread, uiVars, MakeDirectory, NoConflict, Decided, Ask,
       Answered, Create, CreateFails, StoppedBeforeStart, StartWorkers, JoinCleans,
       JoinSucceeds, VerifyFile, VerifyEnds, Outcome, Wait, Dozes, FallsAsleep, flagVars
<1>2. ASSUME NEW w \in Pair, WorkerStep(w) \/ Trouble(w) PROVE stopRequested'
  BY <1>2 DEF WorkerStep, Trouble, batchVars, uiVars, WorkerExits, Take,
       Begin, Opened, Receive, FinishSend, Continue, Cancelled, Confirmed, GiveUp,
       Count, OpenFails, RelayBreaks, Pausing, flagVars
<1>3. CASE User
  BY <1>3 DEF User, AnswerConflict, Stop, Pause, Resume, ShutDown
<1>4. CASE Woken
  BY <1>4 DEF Woken, flagVars
<1>5. CASE UNCHANGED vars
  BY <1>5 DEF vars, uiVars, flagVars
<1> QED BY <1>1, <1>2, <1>3, <1>4, <1>5 DEF Next, Ended

\* Every step keeps the counts right: a range is added to those that have arrived at
\* most once.
LEMMA CountsKept ==
    ASSUME TypeOK, Phases, Owned, Counts, [Next]_vars
    PROVE  Counts'
<1> SUFFICES ASSUME pc' = "run", NEW f \in Files
             PROVE  /\ Cardinality(crcs'[f]) <= done'[f]
                    /\ ~stopRequested' => done'[f] = Cardinality(crcs'[f])
  BY DEF Counts
<1>0. ~stopRequested' => ~stopRequested
  BY StopStays DEF TypeOK
<1>1. CASE StartWorkers
  <2>1. done'[f] = 0 /\ crcs'[f] = {}
    BY <1>1 DEF StartWorkers, Phases
  <2>2. Cardinality({}) = 0
    BY FS_EmptySet
  <2> QED BY <2>1, <2>2
<1>2. CASE pc = "run" /\ UNCHANGED <<done, crcs>>
  BY <1>0, <1>2 DEF Counts
<1>3. ASSUME NEW w \in Pair, Count(w), pc = "run"
      PROVE  /\ Cardinality(crcs'[f]) <= done'[f]
             /\ ~stopRequested' => done'[f] = Cardinality(crcs'[f])
  <2>1. blk[w].off \notin crcs[blk[w].file]
    BY <1>3 DEF Count, Owned, Pending, Busy
  <2>2. CASE f # blk[w].file
    BY <1>0, <1>3, <2>2 DEF Count, Counts, TypeOK, RangeType
  <2>3. CASE f = blk[w].file
    <3>1. /\ done'[f] = done[f] + 1 /\ done[f] \in Nat
          /\ crcs'[f] = IF ok[w] THEN crcs[f] \cup {blk[w].off} ELSE crcs[f]
          /\ ok[w] \/ stopRequested
      BY <1>3, <2>3 DEF Count, TypeOK, RangeType
    <3>2. IsFiniteSet(crcs[f])
      BY StartsFinite, FS_Subset DEF TypeOK, RangeType
    <3>3. /\ Cardinality(crcs[f]) \in Nat
          /\ Cardinality(crcs[f] \cup {blk[w].off}) = Cardinality(crcs[f]) + 1
      BY <2>1, <2>3, <3>2, FS_CardinalityType, FS_AddElement
    <3>4. /\ Cardinality(crcs[f]) <= done[f]
          /\ ~stopRequested => done[f] = Cardinality(crcs[f])
      BY <1>3 DEF Counts
    <3> QED BY <1>0, <3>1, <3>3, <3>4
  <2> QED BY <2>2, <2>3
<1>4. pc # "run" => StartWorkers
  BY WhileRunning
<1>5. ASSUME NEW w \in Pair, Take(w) PROVE UNCHANGED <<done, crcs>>
  BY <1>5 DEF Take
<1> QED BY <1>1, <1>2, <1>3, <1>4, <1>5, RangeChanges

-----------------------------------------------------------------------------
(* What has arrived. *)

\* No step of a worker takes anything from the destination.
LEMMA DestGrows ==
    ASSUME TypeOK, NEW w \in Pair, WorkerStep(w) \/ Trouble(w)
    PROVE  \A f \in Files : dest[f].data \subseteq dest'[f].data /\ dest'[f].is = dest[f].is
<1>1. CASE UNCHANGED dest
  BY <1>1
<1>2. CASE FinishSend(w)
  <2> DEFINE x == blk[w].off + sent[w]
  <2>1. dest' = [dest EXCEPT ![blk[w].file].data = @ \cup {x}]
    BY <1>2 DEF FinishSend
  <2> HIDE DEF x
  <2> QED BY <2>1 DEF TypeOK, DestType
<1> QED BY <1>1, <1>2 DEF WorkerStep, Trouble, batchVars, destVars, WorkerExits, Take, Begin,
       Opened, Receive, Continue, Cancelled, Confirmed, GiveUp, Count, OpenFails,
       RelayBreaks, Pausing

\* Nothing that was confirmed is lost while the batch runs, and what is confirmed to
\* relayRange is the whole range.
LEMMA ArrivedKept ==
    ASSUME TypeOK, Phases, Owned, Counts, Arrived, [Next]_vars
    PROVE  Arrived'
<1>1. ASSUME pc' = "run", NEW v \in Pair, wpc'[v] \in Busy
      PROVE  /\ Sent(v)' \subseteq dest'[blk'[v].file].data
             /\ wpc'[v] = "returned" /\ ok'[v] => sent'[v] = blk'[v].len
  <2>1. CASE StartWorkers
    BY <1>1, <2>1 DEF StartWorkers, Busy
  <2>2. CASE pc = "run" /\ UNCHANGED <<skipped, queue, done, crcs, dest, workerVars>>
    BY <1>1, <2>2 DEF Arrived, workerVars, Sent
  <2>3. ASSUME pc = "run", NEW w \in Pair, WorkerStep(w) \/ Trouble(w)
        PROVE  /\ Sent(v)' \subseteq dest'[blk'[v].file].data
               /\ wpc'[v] = "returned" /\ ok'[v] => sent'[v] = blk'[v].len
    <3>1. CASE v # w
      <4>1. /\ wpc'[v] = wpc[v] /\ blk'[v] = blk[v] /\ sent'[v] = sent[v] /\ ok'[v] = ok[v]
        BY <2>3, <3>1 DEF TypeOK, WorkerType, WorkerStep, Trouble, Returns,
           WorkerExits, Take, Begin, Opened, Receive, FinishSend, Continue, Cancelled,
           Confirmed, GiveUp, Count, OpenFails, RelayBreaks, Pausing
      <4>2. Sent(v) \subseteq dest[blk[v].file].data /\ blk[v].file \in Files
            /\ (wpc[v] = "returned" /\ ok[v] => sent[v] = blk[v].len)
        BY <1>1, <2>3, <4>1, InRanges DEF Arrived, Owned, Pending
      <4>3. Sent(v)' = Sent(v)
        BY <4>1 DEF Sent
      <4> QED BY <2>3, <4>1, <4>2, <4>3, DestGrows
    <3>2. CASE v = w /\ Take(w)
      <4>1. sent'[v] = 0 /\ wpc'[v] = "taken" /\ blk'[v] = Head(queue)
        BY <3>2 DEF Take, TypeOK, WorkerType
      <4>2. Head(queue) \in WorkType
        BY <3>2 DEF Take, TypeOK, RangeType
      <4>3. Sent(v)' = {}
        BY <4>1, <4>2 DEF Sent, WorkType
      <4> QED BY <4>1, <4>3
    <3>3. CASE v = w /\ FinishSend(w)
      <4>1. wpc[v] \in Busy
        BY <3>3 DEF FinishSend, Busy
      <4>2. /\ Sent(v) \subseteq dest[blk[v].file].data /\ blk[v].file \in Files
            /\ blk[v].off \in Nat
        BY <2>3, <4>1, InRanges DEF Arrived, Owned, Pending, WorkType
      <4> DEFINE x == blk[v].off + sent[v]
      <4>3. /\ sent'[v] = sent[v] + 1 /\ sent[v] \in Nat /\ blk' = blk
            /\ dest' = [dest EXCEPT ![blk[v].file].data = @ \cup {x}]
            /\ wpc'[v] = "asking"
        BY <3>3 DEF FinishSend, TypeOK, WorkerType
      <4>4. Sent(v)' = Sent(v) \cup {x}
        BY <4>2, <4>3 DEF Sent
      <4> HIDE DEF x
      <4>5. dest'[blk[v].file].data = dest[blk[v].file].data \cup {x}
        BY <4>2, <4>3 DEF TypeOK, DestType
      <4> QED BY <4>2, <4>3, <4>4, <4>5
    <3>4. CASE v = w /\ ~Take(w) /\ ~FinishSend(w)
      <4>1. /\ wpc[v] \in Busy /\ UNCHANGED <<blk, sent>>
            /\ wpc'[v] = "returned" /\ ok'[v] => sent[v] = blk[v].len
        BY <1>1, <2>3, <3>4 DEF TypeOK, WorkerType, WorkerStep, Trouble, Returns, Busy,
           WorkerExits, Begin, Opened, Receive, Continue, Cancelled,
           Confirmed, GiveUp, Count, OpenFails, RelayBreaks, Pausing
      <4>2. Sent(v) \subseteq dest[blk[v].file].data /\ blk[v].file \in Files
        BY <2>3, <4>1, InRanges DEF Arrived, Owned, Pending
      <4>3. Sent(v)' = Sent(v)
        BY <4>1 DEF Sent
      <4> QED BY <2>3, <4>1, <4>2, <4>3, DestGrows
    <3> QED BY <3>1, <3>2, <3>3, <3>4
  <2> QED BY <1>1, <2>1, <2>2, <2>3, WhileRunning
<1>2. ASSUME pc' = "run", NEW f \in Wanted' PROVE dest'[f].is = "new"
  <2>0. f \in Files
    BY <1>2 DEF Wanted
  <2>1. CASE StartWorkers
    <3>1. f \in Wanted /\ f < next /\ pc = "resolve" /\ UNCHANGED dest
      BY <1>2, <2>1, PlanLength DEF StartWorkers, choiceVars, destVars, Wanted, Files, TypeOK,
         BatchType
    <3> QED BY <3>1 DEF Phases
  <2>2. CASE pc = "run" /\ UNCHANGED <<skipped, queue, done, crcs, dest, workerVars>>
    BY <1>2, <2>2 DEF Arrived, Wanted
  <2>3. ASSUME pc = "run", NEW w \in Pair, WorkerStep(w) \/ Trouble(w)
        PROVE  dest'[f].is = "new"
    <3>1. f \in Wanted
      BY <1>2, <2>3, WorkerFrame DEF TypeOK, choiceVars, Wanted
    <3> QED BY <2>0, <2>3, <3>1, DestGrows DEF Arrived
  <2> QED BY <1>2, <2>1, <2>2, <2>3, WhileRunning
<1>3. ASSUME pc' \in {"run", "verify", "outcome"}, NEW f \in Files, NEW o \in crcs'[f]
      PROVE  Span(RangeAt(f, o)) \subseteq dest'[f].data
  <2>1. CASE pc \in {"run", "verify", "outcome"} /\ UNCHANGED <<crcs, dest>>
    BY <1>3, <2>1 DEF Arrived
  <2>2. CASE StartWorkers
    BY <1>3, <2>2 DEF StartWorkers, Phases
  <2>3. ASSUME pc = "run", NEW w \in Pair, WorkerStep(w) \/ Trouble(w)
        PROVE  Span(RangeAt(f, o)) \subseteq dest'[f].data
    <3>1. CASE o \in crcs[f]
      BY <2>3, <3>1, DestGrows DEF Arrived
    <3>2. CASE o \notin crcs[f]
      <4>0. Count(w)
        BY <1>3, <2>3, <3>2 DEF WorkerStep, Trouble, workVars,
           WorkerExits, Take, Begin, Opened, Receive, FinishSend, Continue, Cancelled,
           Confirmed, GiveUp, OpenFails, RelayBreaks, Pausing
      <4>1. Count(w) /\ ok[w] /\ f = blk[w].file /\ o = blk[w].off
        BY <1>3, <3>2, <4>0 DEF TypeOK, RangeType, Count
      <4>2. blk[w] \in Ranges /\ Sent(w) \subseteq dest[f].data /\ sent[w] = blk[w].len
        BY <2>3, <4>1 DEF Count, Busy, Owned, Pending, Arrived
      <4>3. blk[w] = RangeAt(f, o) /\ Span(blk[w]) = Sent(w)
        BY <4>1, <4>2, InRanges DEF Span, Sent
      <4> QED BY <2>3, <4>2, <4>3, DestGrows
    <3> QED BY <3>1, <3>2
  <2>4. CASE pc' \in {"verify", "outcome"}
    <3>1. UNCHANGED <<crcs, dest>> /\ pc \in {"run", "verify", "outcome"}
      <4>1. ~\E w \in Pair : WorkerStep(w) \/ Trouble(w)
        BY <2>4, WorkerFrame, WorkersRun DEF TypeOK
      <4>2. CASE BatchThread
        BY <2>4, <4>2 DEF BatchThread, Ends, Decide, Resolving, Joined, MakeDirectory,
           NoConflict, Decided, Ask, Answered, Create, CreateFails, StoppedBeforeStart,
           StartWorkers, JoinCleans, JoinSucceeds, VerifyFile, VerifyEnds, Outcome,
           workVars, destVars, Wait, Dozes, FallsAsleep
      <4>3. CASE User \/ Woken \/ UNCHANGED vars
        BY <2>4, <4>3 DEF User, vars, workVars, destVars, AnswerConflict, Stop, Pause,
           Resume, ShutDown, Woken, Wakes
      <4> QED BY <4>1, <4>2, <4>3 DEF Next, Ended
    <3> QED BY <2>1, <3>1
  <2> QED BY <1>3, <2>1, <2>2, <2>3, <2>4, WhileRunning
<1> QED BY <1>1, <1>2, <1>3 DEF Arrived

-----------------------------------------------------------------------------
(* The source's stream, and how the batch ends. *)

\* A worker that has left data in its source's stream leaves or has been stopped.
LEMMA LeftForGoodKept ==
    ASSUME TypeOK, Phases, LeftForGood, [Next]_vars
    PROVE  LeftForGood'
<1> SUFFICES ASSUME NEW v \in Pair, left'[v]
             PROVE  \/ wpc'[v] = "exit"
                    \/ wpc'[v] = "returned" /\ ~ok'[v]
                    \/ wpc'[v] = "top" /\ stopRequested'
  BY DEF LeftForGood
<1>0. stopRequested => stopRequested'
  BY StopStays DEF TypeOK
<1>1. CASE UNCHANGED <<wpc, blk, got, sent, ok, left>>
  BY <1>0, <1>1 DEF LeftForGood
<1>2. CASE StartWorkers
  BY <1>2 DEF StartWorkers, LeftForGood, Phases, AllAt
<1>3. ASSUME NEW w \in Pair, WorkerStep(w) \/ Trouble(w)
      PROVE  \/ wpc'[v] = "exit"
             \/ wpc'[v] = "returned" /\ ~ok'[v]
             \/ wpc'[v] = "top" /\ stopRequested'
  <2>1. CASE v # w
    <3>1. wpc'[v] = wpc[v] /\ ok'[v] = ok[v] /\ left'[v] = left[v]
      BY <1>3, <2>1 DEF TypeOK, WorkerType, WorkerStep, Trouble, Returns,
         WorkerExits, Take, Begin, Opened, Receive, FinishSend, Continue, Cancelled,
         Confirmed, GiveUp, Count, OpenFails, RelayBreaks, Pausing
    <3> QED BY <1>0, <3>1 DEF LeftForGood
  <2>2. CASE v = w /\ OpenFails(w)
    BY <2>2 DEF OpenFails, Returns, TypeOK, WorkerType
  <2>3. CASE v = w /\ ~OpenFails(w)
    <3>1. left[v]
      BY <1>3, <2>3 DEF TypeOK, WorkerType, WorkerStep, Trouble, Returns,
         WorkerExits, Take, Begin, Opened, Receive, FinishSend, Continue, Cancelled,
         Confirmed, GiveUp, Count, RelayBreaks, Pausing
    <3>2. \/ wpc[v] = "returned" /\ ~ok[v]
          \/ wpc[v] = "top" /\ stopRequested
      BY <1>3, <2>3, <3>1, WorkerFrame DEF LeftForGood, TypeOK
    <3>3. WorkerExits(w) \/ GiveUp(w) \/ Count(w)
      BY <1>3, <2>3, <3>2 DEF WorkerStep, Trouble, Interrupted, Take, Begin, Opened, Receive,
         FinishSend, Continue, Cancelled, Confirmed, RelayBreaks, Pausing
    <3>4. wpc'[v] = "exit" \/ (wpc'[v] = "top" /\ (ok[v] \/ stopRequested) /\ wpc[v] = "returned")
      BY <2>3, <3>3 DEF WorkerExits, GiveUp, Count, TypeOK, WorkerType
    <3> QED BY <1>0, <3>2, <3>4
  <2> QED BY <2>1, <2>2, <2>3
<1>4. \/ UNCHANGED <<wpc, blk, got, sent, ok, left>>
      \/ StartWorkers
      \/ \E w \in Pair : WorkerStep(w) \/ Trouble(w)
  BY WorkerChanges DEF WorkerStep, Trouble
<1> QED BY <1>1, <1>2, <1>3, <1>4

\* What the deletions behind the join do to every file.
LEMMA JoinCleansUp ==
    ASSUME TypeOK, Counts, Arrived, JoinCleans
    PROVE  CleansUp'
<1>1. /\ pc = "run" /\ stopRequested' = stopRequested
      /\ UNCHANGED <<skipped, done, crcs>>
  BY DEF JoinCleans, Joined, uiVars, choiceVars, workVars, flagVars
<1>2. PICK gone \in SUBSET Unfinished :
         /\ dest' = [f \in Files |-> IF f \in gone THEN Absent ELSE dest[f]]
         /\ undeleted' = Unfinished \ gone
  BY DEF JoinCleans
<1> SUFFICES ASSUME NEW f \in Wanted
             PROVE  /\ Size(f) > 0 /\ crcs[f] = Starts(f) => Delivered(f)'
                    /\ state' = "Failed" /\ ~stopRequested =>
                          Delivered(f)' \/ dest'[f] = Absent \/ f \in undeleted'
  BY <1>1 DEF CleansUp, Wanted
<1>3. f \in Files
  BY DEF Wanted
<1>4. ASSUME Size(f) > 0, crcs[f] = Starts(f) PROVE Delivered(f)'
  <2>1. Counted(f)
    BY <1>1, <1>3, <1>4 DEF Counts, Counted
  <2>2. f \notin gone
    BY <1>4, <2>1 DEF Unfinished, CompletedFiles
  <2>3. Delivered(f)
    BY <1>1, <1>4, Gathered
  <2> QED BY <1>2, <1>3, <2>2, <2>3 DEF Delivered
<1>5. ASSUME ~stopRequested, f \notin Unfinished PROVE Delivered(f)'
  <2>1. Counted(f)
    BY <1>5 DEF Unfinished, CompletedFiles
  <2>2. Delivered(f)
    BY <1>1, <1>5, <2>1, AllThere, Gathered
  <2> QED BY <1>2, <1>3, <1>5, <2>2 DEF Delivered
<1>6. ASSUME f \in Unfinished PROVE dest'[f] = Absent \/ f \in undeleted'
  BY <1>2, <1>3, <1>6
<1> QED BY <1>4, <1>5, <1>6

\* The outcome the batch reports agrees with what is on the destination.
LEMMA OutcomesKept ==
    ASSUME TypeOK, Phases, Counts, Arrived, Outcomes, [Next]_vars
    PROVE  Outcomes'
<1>1. CASE JoinCleans
  BY <1>1, JoinCleansUp DEF JoinCleans, Outcomes
<1>2. CASE Outcome
  <2>1. Complete' /\ pc' = "ended"
    BY <1>2 DEF Outcome, Ends, Phases, Complete, Delivered, Wanted, choiceVars, destVars
  <2> QED BY <2>1 DEF Outcomes, CleansUp, Complete
<1>3. CASE UNCHANGED <<pc, state, stopRequested, skipped, crcs, dest, undeleted, wpc>>
  BY <1>3 DEF Outcomes, Complete, Delivered, Wanted, CleansUp
<1>4. CASE state' # "Completed" /\ (pc' = "ended" => ~AllAt("exit")')
  BY <1>4 DEF Outcomes, CleansUp, AllAt
<1>5. ASSUME NEW w \in Pair, WorkerStep(w) \/ Trouble(w)
      PROVE  state' # "Completed" /\ pc' # "ended"
  <2>1. pc = "run" /\ pc' = "run"
    BY <1>5, WorkerFrame, WorkersRun DEF TypeOK
  <2>2. state # "Completed"
    BY <2>1 DEF Outcomes
  <2> QED BY <1>5, <2>1, <2>2, WorkerFrame DEF TypeOK
<1>6. CASE /\ BatchThread /\ ~JoinCleans /\ ~Outcome
  <2>1. pc # "ended"
    BY <1>6 DEF BatchThread, Resolving, Joined, MakeDirectory, NoConflict, Decided, Ask,
       Answered, Create, CreateFails, StoppedBeforeStart, StartWorkers,
       JoinSucceeds, VerifyFile, VerifyEnds, Wait, Dozes, FallsAsleep
  <2>2. state' # "Completed"
    BY <1>6, <2>1 DEF BatchThread, Outcomes, Ends, MakeDirectory, NoConflict, Decided, Ask,
       Answered, Create, CreateFails, StoppedBeforeStart, StartWorkers,
       JoinSucceeds, VerifyFile, VerifyEnds, Wait, Dozes, FallsAsleep
  <2>3. pc' = "ended" => AllAt("idle")'
    BY <1>6 DEF BatchThread, Ends, Decide, MakeDirectory, NoConflict, Decided, Ask,
       Answered, Create, CreateFails, StoppedBeforeStart, StartWorkers, Resolving, Joined,
       JoinSucceeds, VerifyFile, VerifyEnds, Phases, AllAt, workerVars, Wait, Dozes, FallsAsleep
  <2>4. pc' = "ended" => ~AllAt("exit")'
    BY <2>3, PairAssumption DEF AllAt
  <2> QED BY <1>4, <2>2, <2>4
<1>7. CASE User
  <2>1. /\ pc # "ended" /\ pc' = pc /\ state' = state
    BY <1>7 DEF User, AnswerConflict, Stop, Pause, Resume, ShutDown, Active
  <2> QED BY <1>4, <2>1 DEF Outcomes
<1>8. CASE Woken
  BY <1>3, <1>8 DEF Woken, flagVars, choiceVars, workVars, destVars, workerVars
<1> QED BY <1>1, <1>2, <1>3, <1>4, <1>5, <1>6, <1>7, <1>8
     DEF Next, Ended, vars, uiVars, choiceVars, workVars, destVars, workerVars, flagVars

-----------------------------------------------------------------------------
(* The theorems. *)

\* The invariant holds when the batch starts.
LEMMA InitIInv == Init => IInv
<1> SUFFICES ASSUME Init PROVE IInv
  OBVIOUS
<1>1. TypeOK
  BY InitType
<1>2. Phases
  BY PlanLength DEF Init, Phases, AllAt, Wanted, Files
<1>3. Owned /\ Counts /\ Arrived /\ LeftForGood
  BY DEF Init, Owned, Counts, Arrived, LeftForGood
<1>4. Outcomes
  BY DEF Init, Outcomes, CleansUp
<1> QED BY <1>1, <1>2, <1>3, <1>4 DEF IInv

\* Every step preserves the invariant, conjunct by conjunct.
LEMMA NextIInv == IInv /\ [Next]_vars => IInv'
  BY TypeKept, PhasesKept, OwnedKept, CountsKept, ArrivedKept, LeftForGoodKept, OutcomesKept
     DEF IInv

\* The conjuncts together are an inductive invariant.
THEOREM Invariance == Spec => []IInv
  BY InitIInv, NextIInv, PTL DEF Spec

\* Every variable keeps its type: in particular no worker's indices leave its range.
THEOREM TypeCorrect == Spec => []TypeOK
<1>1. IInv => TypeOK
  BY DEF IInv
<1> QED BY <1>1, Invariance, PTL

\* No range is handed out twice: what is queued or with a worker has not been counted
\* with its CRCs, and is with no other, for any number of workers.
THEOREM RangesOwnedOnce == Spec => []Owned
<1>1. IInv => Owned
  BY DEF IInv
<1> QED BY <1>1, Invariance, PTL

\* A batch that reports "Completed" has put every file that was not skipped on the
\* other device with all its chunks, also without the verification of CRCs.
THEOREM Delivery == Spec => []CompletedMeansDelivered
<1>1. IInv => CompletedMeansDelivered
  BY DEF IInv, Outcomes, Complete, CompletedMeansDelivered
<1> QED BY <1>1, Invariance, PTL

\* However the batch ends once its workers have run, the clean-up behind the join
\* keeps a file whose ranges have all been relayed, and after a failure every file
\* that stays is complete, unless its deletion failed.
THEOREM CleanUp == Spec => []CleansUp
<1>1. IInv => CleansUp
  BY DEF IInv, Outcomes
<1> QED BY <1>1, Invariance, PTL

\* relayRange never asks a source for a range while the stream still holds data of
\* a range given up: the worker that leaves them there asks for no other.
THEOREM StreamsInStep == Spec => []InStep
<1>1. IInv => InStep
  BY DEF IInv, LeftForGood, InStep
<1> QED BY <1>1, Invariance, PTL
=============================================================================
