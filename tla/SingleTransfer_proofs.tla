----------------------- MODULE SingleTransfer_proofs -----------------------
(***************************************************************************)
(* What a batch copied item by item keeps, for every plan, every kind of   *)
(* batch and every bound on the retries: what is reported has arrived, a   *)
(* move never loses a file, clean-up leaves no partial file on the PC, an  *)
(* old file is replaced only with the user's word, and after Stop no item  *)
(* is begun.                                                               *)
(***************************************************************************)
EXTENDS SingleTransfer, TLAPS

\* An item the batch has not begun to write is as it was.
Waiting(f) ==
    f >= next /\ (f > current \/ pc \in {"next", "begin", "resolve", "asked"})
Waits ==
    /\ \A f \in Files : Waiting(f) =>
          dest[f] = IF f \in Present THEN File(<<"old">>) ELSE Absent
    /\ 1..(next - 1) \subseteq completed \cup skipped
    /\ Waiting(current) => sent = 0
    /\ kind # "push" => /\ skipped \subseteq Present /\ unconfirmed = {}
                        /\ pc = "asked" => current \in Present

\* A file that was not there holds a beginning of its source, also while the device
\* still stores what it was sent before the connection broke.
Pure(f) == \A i \in 1..Stored(f) : dest[f].data[i] = "new"
Moving ==
    /\ ~IsDir(current) /\ dest[current].there /\ kind # "rename"
    /\ kind # "push" => Stored(current) = sent
    /\ ~Remote => Pure(current) /\ sent <= Size(current)
Prefixes ==
    /\ \A f \in Files \ Present : Pure(f) /\ Stored(f) <= Size(f)
    /\ kind = "push" => sent <= Size(current)
    /\ pc \in {"moving", "asking"} => Moving

\* What an attempt that succeeded leaves, and what is counted.
Good(f) == IsDir(f) \/ f \in unconfirmed \/ (Remote /\ f \in Present) \/ Delivered(f)
Ruined(f) == f = current /\ pc = "ended" /\ state \in {"Stopped", "Failed"}
Arrived ==
    /\ pc \in {"succeeded", "verify"} => Good(current)
    /\ \A f \in completed : Good(f) \/ Ruined(f)

\* A folder is not asked about; those of a local batch are made on the way.  Only the
\* end of the application takes the loop past items.
Folders ==
    /\ pc \in {"resolve", "asked"} => ~IsDir(current)
    /\ ~Remote =>
          \A f \in Files : IsDir(f) /\ (f < next \/ (f = current /\ pc \in {"succeeded", "verify"})) =>
             Delivered(f)
    /\ pc = "clean" /\ state = "Running" => shutdown \/ next > Len(Plan)

\* A source is gone only when its copy is complete and behind the batch, or it was a
\* folder not reached; and what the clean-up takes of a local copy is a file whose
\* source is there.
Behind(f) == f < next \/ (f = current /\ pc \in {"succeeded", "clean", "ended"})
Unreached(f) == IsDir(f) /\ shutdown /\ f >= next /\ pc = "ended"
Sources ==
    /\ \A f \in Files \ source :
          kind \in {"move", "rename"} /\ ((Delivered(f) /\ Behind(f)) \/ Unreached(f))
    /\ partial # 0 =>
          \/ pc = "ended"
          \/ pc \in {"gaveUp", "clean"} /\ partial = current /\ current \in source

\* A local copy that is not under way and that nobody gave up on is whole or absent.
Leftovers ==
    /\ ~Remote /\ current \notin Present /\ ~IsDir(current) =>
          \/ pc \in {"moving", "asking"} \/ partial = current
          \/ ~dest[current].there \/ Delivered(current)
    /\ NoPartialLeft
    /\ state = "Completed" => pc = "ended"

\* A choice is the user's, and an old file is opened only behind one.
Writing == {"try", "moving", "asking", "failed", "reconnect", "askRetry"}
Choices ==
    /\ response # "none" => pc = "asked" /\ answers[current] = response
    /\ pc = "asked" => allDecision = "none"
    /\ allDecision = "overwriteAll" => \E g \in 1..current : answers[g] = "overwriteAll"
    /\ kind # "push" /\ current \in Present /\ pc \in Writing => Approved(current)

IInv == TypeOK /\ Waits /\ Prefixes /\ Arrived /\ Folders /\ Sources /\ Leftovers /\ Choices
-----------------------------------------------------------------------------
(* Items and contents. *)

\* The sizes of the plan are numbers of chunks, and it has an item.
LEMMA PlanType == Len(Plan) \in Nat \ {0} /\ \A f \in Files : Size(f) \in Nat
<1> DEFINE Items == [dir : BOOLEAN, size : Nat]
<1>1. Plan \in Seq(Items) /\ Plan # <<>>
  BY PlanAssumption
<1>2. \A e \in Items : e.size \in Nat
  OBVIOUS
<1> HIDE DEF Items
<1> QED BY <1>1, <1>2 DEF Files, Size

\* Creating, truncating, extending and deleting a file keep the type of the files.
LEMMA ContentType ==
    ASSUME FileType, NEW f \in Files
    PROVE  /\ Stored(f) \in Nat
           /\ {[dest EXCEPT ![f] = File(<<>>)], [dest EXCEPT ![f] = File(Whole(f))], Appended(f)}
                \subseteq [Files -> [there : BOOLEAN, data : Seq({"old", "new"})]]
<1> DEFINE C == Seq({"old", "new"})
<1>0. dest[f].data \in C /\ dest \in [Files -> [there : BOOLEAN, data : C]]
  BY DEF FileType
<1>1. Stored(f) \in Nat
  BY <1>0 DEF Stored
<1>2. <<>> \in C
  OBVIOUS
<1>3. Whole(f) \in C
  <2>1. Size(f) \in Nat
    BY PlanType
  <2> QED BY <2>1 DEF Whole
<1>4. Append(dest[f].data, "new") \in C
  BY <1>0
<1> HIDE DEF C
<1>5. \A d \in C : [dest EXCEPT ![f] = File(d)] \in [Files -> [there : BOOLEAN, data : C]]
  BY <1>0 DEF File
<1>6. Appended(f) = [dest EXCEPT ![f] = File(Append(dest[f].data, "new"))]
  BY <1>0 DEF Appended
<1>7. {[dest EXCEPT ![f] = File(<<>>)], [dest EXCEPT ![f] = File(Whole(f))], Appended(f)}
         \subseteq [Files -> [there : BOOLEAN, data : C]]
  BY <1>2, <1>3, <1>4, <1>5, <1>6
<1> QED BY <1>1, <1>7 DEF C

\* A file of as many new chunks as the source has is the source's copy.
LEMMA WholeIsDelivered ==
    ASSUME FileType, NEW f \in Files, dest[f].there, Pure(f), Stored(f) = Size(f)
    PROVE  Delivered(f)
<1>1. dest[f] \in [there : BOOLEAN, data : Seq({"old", "new"})]
  BY DEF FileType
<1>2. dest[f].data = [i \in 1..Size(f) |-> "new"]
  BY <1>1 DEF Pure, Stored
<1>3. dest[f] = [there |-> TRUE, data |-> dest[f].data]
  BY <1>1
<1> QED BY <1>2, <1>3 DEF Delivered, File, Whole

\* And a copy has as many chunks as the source.
LEMMA DeliveredLength ==
    ASSUME NEW f \in Files, Delivered(f)
    PROVE  dest[f].there /\ Pure(f) /\ Stored(f) = Size(f)
<1>1. Size(f) \in Nat
  BY PlanType
<1>2. Len(Whole(f)) = Size(f) /\ Whole(f) \in Seq({"new"})
  BY <1>1 DEF Whole
<1>3. dest[f].there = TRUE /\ dest[f].data = Whole(f)
  BY DEF Delivered, File
<1> QED BY <1>1, <1>2, <1>3 DEF Pure, Stored, Whole

\* One more chunk from the source leaves what is before it, and is new itself.
LEMMA AppendedContent ==
    ASSUME FileType, NEW f \in Files, dest[f].there, dest' = Appended(f)
    PROVE  /\ dest'[f].there /\ Stored(f)' = Stored(f) + 1
           /\ Pure(f) => Pure(f)'
           /\ \A g \in Files \ {f} : dest'[g] = dest[g]
<1>0. /\ dest \in [Files -> [there : BOOLEAN, data : Seq({"old", "new"})]]
      /\ dest[f].data \in Seq({"old", "new"})
  BY DEF FileType
<1>1. dest'[f].there /\ dest'[f].data = Append(dest[f].data, "new")
  BY <1>0 DEF Appended, File
<1>2. \A g \in Files \ {f} : dest'[g] = dest[g]
  BY <1>0 DEF Appended
<1>3. Len(dest'[f].data) = Len(dest[f].data) + 1
  BY <1>0, <1>1
<1>4. \A i \in 1..Len(dest'[f].data) :
        dest'[f].data[i] = IF i <= Len(dest[f].data) THEN dest[f].data[i] ELSE "new"
  BY <1>0, <1>1
<1>5. Pure(f) => Pure(f)'
  BY <1>0, <1>3, <1>4 DEF Pure, Stored
<1> QED BY <1>1, <1>2, <1>3, <1>5 DEF Stored

-----------------------------------------------------------------------------
(* Types. *)

\* Every variable starts in its range.
LEMMA InitType == Init => TypeOK
<1> SUFFICES ASSUME Init PROVE TypeOK
  OBVIOUS
<1>1. FlagType
  BY DEF Init, FlagType, Naps
<1>2. BatchType
  BY DEF Init, BatchType
<1>3. LoopType
  BY PlanType, BoundsAssumption DEF Init, LoopType, Files, Busy, Trying
<1>4. FileType
  <2>1. File(<<"old">>) \in [there : BOOLEAN, data : Seq({"old", "new"})]
    BY DEF File
  <2>2. Absent \in [there : BOOLEAN, data : Seq({"old", "new"})]
    BY DEF Absent
  <2>3. dest \in [Files -> [there : BOOLEAN, data : Seq({"old", "new"})]]
    BY <2>1, <2>2 DEF Init
  <2>4. \A f \in Files : ~dest[f].there => dest[f].data = <<>>
    BY DEF Init, File, Absent
  <2> QED BY <2>3, <2>4 DEF Init, FileType
<1> QED BY <1>1, <1>2, <1>3, <1>4 DEF TypeOK

\* The flags stay Boolean.
LEMMA FlagTypeKept ==
    ASSUME FlagType, [Next]_vars
    PROVE  FlagType'
<1> USE DEF FlagType, uiVars, loopVars, tryVars, fileVars, vars, flagVars, Naps, Notify
<1>1. CASE BatchThread
  <2>1. CASE Finish
    BY <2>1 DEF Finish
  <2>2. CASE BatchThread /\ ~Finish
    BY <2>2 DEF LoopEnds, NextItem, StopBetween, PauseBetween, BeginItem,
         NoConflict, Decided, Decide, Ask, Answered, TryStopped, MakeDirectory, Open,
         NotConnected, OpenCopy, Rename, Move, Send, LinkBroken, Cancelled, PauseMoving,
         Continue, EmptyPushFails, AttemptFailed, Reconnected, NotBack, UserRetries,
         RetryRefused, GaveUp, Succeeded, Verified, VerifyAgain, VerifyFails, CleanUp,
         ItemDone, Store, WriteRefused, OpenFails, LocalError, CopyRefused, Breaks,
         LoseLink, BatchThread, Wait, Dozes, FallsAsleep, Woken, Wakes
  <2> QED BY <1>1, <2>1, <2>2
<1>2. CASE Woken
  BY <1>2 DEF Woken, Wakes
<1>3. CASE LoseLink
  BY <1>3 DEF LoseLink
<1>4. CASE Device \/ (Trouble /\ ~Woken /\ ~LoseLink) \/ UNCHANGED vars
  <2>1. UNCHANGED <<stopRequested, pauseRequested, shutdown, retryRequested, isResume, up, nap>>
    BY <1>4 DEF Device, Trouble, Store, WriteRefused, OpenFails, LocalError, CopyRefused,
         Breaks
  <2> QED BY <2>1
<1>5. CASE User
  BY <1>5 DEF User, AnswerConflict, AnswerRetry, Stop, Pause, Resume, ShutDown
<1> QED BY <1>1, <1>2, <1>3, <1>4, <1>5 DEF Next, Ended

\* The position, the kind and the choices stay in their ranges.
LEMMA BatchTypeKept ==
    ASSUME BatchType, current \in Files, [Next]_vars
    PROVE  BatchType'
<1> USE DEF BatchType, Busy, Trying
<1>1. CASE BatchThread
  BY <1>1 DEF LoopEnds, NextItem, StopBetween, PauseBetween,
       BeginItem, NoConflict, Decided, Decide, Ask, Answered, TryStopped, MakeDirectory,
       Open, NotConnected, OpenCopy, Rename, Move, Send, LinkBroken, Cancelled,
       PauseMoving, Continue, EmptyPushFails, Finish, AttemptFailed, Reconnected,
       NotBack, UserRetries, RetryRefused, GaveUp, Succeeded, Verified, VerifyAgain,
       VerifyFails, CleanUp, ItemDone, OpenFails, CopyRefused, Breaks, BatchThread,
       uiVars, loopVars, tryVars, fileVars, Wait, Dozes, FallsAsleep, flagVars
<1>2. CASE Device \/ Trouble
  BY <1>2 DEF Device, Trouble, Store, WriteRefused, OpenFails, LocalError, CopyRefused,
       Breaks, LoseLink, uiVars, loopVars, tryVars, fileVars, Woken, Wakes, flagVars
<1>3. CASE User \/ UNCHANGED vars
  BY <1>3 DEF User, AnswerConflict, AnswerRetry, Stop, Pause, Resume, ShutDown, vars,
       uiVars, loopVars, tryVars, fileVars, flagVars
<1> QED BY <1>1, <1>2, <1>3 DEF Next, Ended

\* The destination is written by these steps, and only that of the current item.
LEMMA DestChanges ==
    ASSUME [Next]_vars
    PROVE  \/ UNCHANGED dest
           \/ MakeDirectory \/ Open \/ OpenCopy \/ Rename \/ Move \/ Store \/ CleanUp
  BY DEF LoopEnds, NextItem, StopBetween, PauseBetween, BeginItem, NoConflict,
       Decided, Decide, Ask, Answered, TryStopped, NotConnected, Send, LinkBroken,
       Cancelled, PauseMoving, Continue, EmptyPushFails, Finish, AttemptFailed,
       Reconnected, NotBack, UserRetries, RetryRefused, GaveUp, Succeeded, Verified,
       VerifyAgain, VerifyFails, ItemDone, WriteRefused, OpenFails, LocalError,
       CopyRefused, Breaks, LoseLink, AnswerConflict, AnswerRetry, Stop, Pause, Resume,
       ShutDown, Next, BatchThread, Device, Trouble, User, Ended, vars, loopVars,
       uiVars, tryVars, fileVars, Wait, Dozes, FallsAsleep, Woken, Wakes, flagVars

\* The loop goes on when an item is begun, skipped or counted.
LEMMA LoopChanges ==
    ASSUME [Next]_vars
    PROVE  \/ UNCHANGED loopVars
           \/ BeginItem \/ Decided \/ Answered \/ Succeeded \/ Verified \/ VerifyFails
  BY DEF LoopEnds, NextItem, StopBetween, PauseBetween, NoConflict, Ask,
       TryStopped, MakeDirectory, Open, NotConnected, OpenCopy, Rename, Move, Send,
       LinkBroken, Cancelled, PauseMoving, Continue, EmptyPushFails, Finish,
       AttemptFailed, Reconnected, NotBack, UserRetries, RetryRefused, GaveUp,
       VerifyAgain, CleanUp, Store, WriteRefused, OpenFails, LocalError, CopyRefused,
       Breaks, LoseLink, AnswerConflict, AnswerRetry, Stop, Pause, Resume, ShutDown,
       Next, BatchThread, Device, Trouble, User, Ended, vars, loopVars, uiVars, tryVars,
       fileVars, Wait, Dozes, FallsAsleep, Woken, Wakes, flagVars

\* The attempts are counted by these steps; the others begin and verify no item.
LEMMA AttemptChanges ==
    ASSUME [Next]_vars
    PROVE  \/ BeginItem \/ AttemptFailed \/ NotBack \/ UserRetries \/ Succeeded \/ VerifyAgain
           \/ /\ attempt' = attempt
              /\ pc' \in Trying => pc \in Trying
              /\ pc' = "verify" => pc = "verify"
<1> DEFINE Quiet == /\ attempt' = attempt
                    /\ pc' \in Trying => pc \in Trying
                    /\ pc' = "verify" => pc = "verify"
<1>1. CASE BatchThread
  BY <1>1 DEF Busy, Trying, BatchThread, LoopEnds, NextItem, StopBetween, PauseBetween,
       NoConflict,
       Decided, Decide, Ask, Answered, TryStopped, MakeDirectory, Open, NotConnected, OpenFails,
       OpenCopy, Rename, Move, Send, LinkBroken, Breaks, Cancelled, PauseMoving, Continue,
       EmptyPushFails, Finish, Reconnected, RetryRefused, GaveUp, Verified, VerifyFails,
       ItemDone,
       CleanUp, Opening, Going, tryVars, Wait, Dozes, FallsAsleep
<1>2. CASE Device \/ Trouble \/ User \/ UNCHANGED vars
  BY <1>2 DEF Busy, Trying, Device, Store, Trouble, WriteRefused, OpenFails, LocalError,
       CopyRefused,
       Breaks, LoseLink, User, AnswerConflict, AnswerRetry, Stop, Pause, Resume, ShutDown,
       Opening,
       vars, tryVars, Woken, Wakes
<1> QED BY <1>1, <1>2 DEF Next, Ended

\* An item is worked on only once it has been begun, and one is begun only where the
\* plan has it.
LEMMA PositionChanges ==
    ASSUME BatchType, [Next]_vars
    PROVE  /\ pc' \in Busy => pc \in Busy \/ BeginItem
           /\ pc' = "begin" => pc = "begin" \/ next <= Len(Plan)
<1>0. CASE NextItem \/ BeginItem
  BY <1>0 DEF NextItem, BeginItem, Busy, Trying
<1>1. CASE BatchThread /\ ~NextItem /\ ~BeginItem /\ pc \in {"next", "begin", "clean", "ended"}
  BY <1>1 DEF Busy, Trying, BatchThread, LoopEnds, StopBetween, PauseBetween, NoConflict,
       Decided,
       Ask, Answered, TryStopped, MakeDirectory, Open, NotConnected, OpenFails, OpenCopy,
       Rename,
       Move, Send, LinkBroken, Breaks, Cancelled, PauseMoving, Continue, EmptyPushFails, Finish,
       AttemptFailed, Reconnected, NotBack, UserRetries, RetryRefused, GaveUp, Succeeded,
       Verified,
       VerifyAgain, VerifyFails, CleanUp, Opening, Going, Decide, ItemDone,
       Wait, Dozes, FallsAsleep
<1>2. CASE BatchThread /\ pc \in Busy
  BY <1>2 DEF Busy, Trying, BatchThread, LoopEnds, StopBetween, PauseBetween, NoConflict,
       Decided,
       Ask, Answered, TryStopped, MakeDirectory, Open, NotConnected, OpenFails, OpenCopy,
       Rename,
       Move, Send, LinkBroken, Breaks, Cancelled, PauseMoving, Continue, EmptyPushFails, Finish,
       AttemptFailed, Reconnected, NotBack, UserRetries, RetryRefused, GaveUp, Succeeded,
       Verified,
       VerifyAgain, VerifyFails, CleanUp, Opening, Going, Decide, ItemDone, NextItem, BeginItem,
       Wait, Dozes, FallsAsleep
<1>3. CASE Device \/ Trouble \/ User \/ UNCHANGED vars
  BY <1>3 DEF Busy, Trying, Device, Store, Trouble, WriteRefused, OpenFails, LocalError,
       CopyRefused,
       Breaks, LoseLink, User, AnswerConflict, AnswerRetry, Stop, Pause, Resume, ShutDown,
       Opening, vars, Woken, Wakes
<1> QED BY <1>0, <1>1, <1>2, <1>3 DEF Next, Ended, BatchType

\* The loop's position, its sets and the number of the attempt stay in their ranges.
LEMMA LoopTypeKept ==
    ASSUME LoopType, BatchType, [Next]_vars
    PROVE  LoopType'
<1>0. /\ current \in Nat \ {0} /\ current \in Files /\ Len(Plan) \in Nat /\ next \in Nat
      /\ next \in {current, current + 1}
  BY PlanType DEF Files, LoopType
<1>1. /\ current' \in Files /\ next' \in {current', current' + 1}
      /\ pc' \in Busy => next' = current'
      /\ pc' = "begin" => next' \in Files
  <2>1. CASE BeginItem
    BY <2>1 DEF BeginItem, LoopType
  <2>2. CASE Decided \/ Answered
    BY <1>0, <2>2 DEF Decided, Answered, Decide, Busy, Trying, LoopType
  <2>3. CASE Succeeded \/ Verified \/ VerifyFails
    BY <1>0, <2>3 DEF Succeeded, Verified, VerifyFails, ItemDone, Busy, Trying, LoopType
  <2>4. CASE UNCHANGED loopVars
    <3>1. next' = next /\ current' = current
      BY <2>4 DEF loopVars
    <3> QED BY <1>0, <2>1, <3>1, PositionChanges DEF LoopType, Files, NextItem
  <2> QED BY <2>1, <2>2, <2>3, <2>4, LoopChanges
<1>2. /\ completed' \subseteq 1..(next' - 1) /\ skipped' \subseteq 1..(next' - 1)
      /\ completed' \cap skipped' = {} /\ crcFailed' \subseteq completed'
  <2>0. ASSUME NEW S, S \subseteq 1..(current - 1)
        PROVE  S \subseteq 1..current /\ S \cup {current} \subseteq 1..current /\ current \notin S
    BY <1>0, <2>0
  <2>1. next = current => (next + 1) - 1 = current /\ next - 1 = current - 1
    BY <1>0
  <2>2. CASE BeginItem \/ UNCHANGED loopVars
    BY <2>2 DEF BeginItem, loopVars, LoopType
  <2>3. ASSUME Decided \/ Answered \/ Succeeded \/ Verified \/ VerifyFails
        PROVE  /\ next = current
               /\ \/ /\ UNCHANGED <<completed, crcFailed>>
                     /\ \/ UNCHANGED <<next, skipped>>
                        \/ next' = next + 1 /\ skipped' = skipped \cup {current}
                  \/ /\ UNCHANGED skipped
                     /\ next' = next + 1 /\ completed' = completed \cup {current}
                     /\ crcFailed' \in {crcFailed, crcFailed \cup {current}}
    BY <2>3 DEF Decided, Answered, Decide, Succeeded, Verified, VerifyFails, ItemDone,
         Busy, Trying, LoopType
  <2>4. CASE Decided \/ Answered \/ Succeeded \/ Verified \/ VerifyFails
    <3>1. completed \subseteq 1..(current - 1) /\ skipped \subseteq 1..(current - 1)
      BY <2>1, <2>3, <2>4 DEF LoopType
    <3>2. completed' \subseteq 1..(next' - 1) /\ skipped' \subseteq 1..(next' - 1)
      BY <2>0, <2>1, <2>3, <2>4, <3>1
    <3>3. current \notin completed /\ current \notin skipped
      BY <2>0, <3>1
    <3> QED BY <2>3, <2>4, <3>2, <3>3 DEF LoopType
  <2> QED BY <2>2, <2>4, LoopChanges
<1>3. /\ attempt' \in Nat
      /\ pc' \in Trying => attempt' <= MaxRetries
      /\ pc' = "verify" => attempt' \in 1..CrcTries
  <2> USE BoundsAssumption DEF LoopType, Busy, Trying
  <2>1. CASE BeginItem
    BY <2>1 DEF BeginItem
  <2>2. CASE AttemptFailed
    BY <2>2 DEF AttemptFailed
  <2>3. CASE NotBack
    BY <2>3 DEF NotBack
  <2>4. CASE UserRetries
    BY <2>4 DEF UserRetries
  <2>5. CASE Succeeded
    BY <2>5 DEF Succeeded, ItemDone
  <2>6. CASE VerifyAgain
    BY <2>6 DEF VerifyAgain
  <2> QED BY <2>1, <2>2, <2>3, <2>4, <2>5, <2>6, AttemptChanges
<1> QED BY <1>1, <1>2, <1>3 DEF LoopType

\* The files, what is left of the sources and the place in the transfer stay in their
\* ranges.
LEMMA FileTypeKept ==
    ASSUME FileType, LoopType, [Next]_vars
    PROVE  FileType'
<1> DEFINE C == Seq({"old", "new"})
<1>0. current \in Files /\ Stored(current) \in Nat
  BY ContentType DEF LoopType
<1>1. /\ dest' \in [Files -> [there : BOOLEAN, data : C]]
      /\ \A f \in Files : ~dest'[f].there => dest'[f].data = <<>>
  <2> HIDE DEF C
  <2>0. /\ dest \in [Files -> [there : BOOLEAN, data : C]]
        /\ \A f \in Files : ~dest[f].there => dest[f].data = <<>>
    BY DEF FileType, C
  <2>1. CASE UNCHANGED dest
    BY <2>0, <2>1
  <2>2. CASE \/ dest' = [dest EXCEPT ![current] = File(<<>>)]
             \/ dest' = [dest EXCEPT ![current] = File(Whole(current))]
             \/ dest' = Appended(current)
    <3>1. dest' \in [Files -> [there : BOOLEAN, data : C]]
      <4>1. {[dest EXCEPT ![current] = File(<<>>)],
             [dest EXCEPT ![current] = File(Whole(current))], Appended(current)}
               \subseteq [Files -> [there : BOOLEAN, data : C]]
        BY <1>0, ContentType DEF C
      <4> QED BY <2>2, <4>1
    <3>2. dest'[current].there
      BY <1>0, <2>0, <2>2 DEF File, Appended
    <3>3. \A f \in Files \ {current} : dest'[f] = dest[f]
      BY <1>0, <2>0, <2>2 DEF File, Appended
    <3> QED BY <2>0, <3>1, <3>2, <3>3
  <2>3. CASE CleanUp
    <3>1. Absent \in [there : BOOLEAN, data : C] /\ Absent.data = <<>>
      BY DEF Absent, C
    <3> QED BY <2>0, <2>3, <3>1 DEF CleanUp
  <2> QED BY <2>1, <2>2, <2>3, DestChanges DEF MakeDirectory, Open, OpenCopy, Rename,
       Move, Store
<1>2. source' \subseteq Files /\ unconfirmed' \subseteq Files /\ partial' \in Files \cup {0}
  BY <1>0 DEF FileType, LoopEnds, NextItem, StopBetween, PauseBetween, BeginItem,
       NoConflict, Decided, Decide, Ask, Answered, TryStopped, MakeDirectory, Open,
       NotConnected, OpenCopy, Rename, Move, Send, LinkBroken, Cancelled, PauseMoving,
       Continue, EmptyPushFails, Finish, AttemptFailed, Reconnected, NotBack,
       UserRetries, RetryRefused, GaveUp, Succeeded, Verified, VerifyAgain, VerifyFails,
       CleanUp, ItemDone, Store, WriteRefused, OpenFails, LocalError, CopyRefused,
       Breaks, LoseLink, AnswerConflict, AnswerRetry, Stop, Pause, Resume, ShutDown,
       Next, BatchThread, Device, Trouble, User, Ended, vars, loopVars, uiVars, tryVars,
       fileVars, Wait, Dozes, FallsAsleep, Woken, Wakes, flagVars
<1>3. from' \in Nat /\ sent' \in Nat /\ from' <= sent'
  <2>1. Offset \in Nat
    BY <1>0 DEF Offset
  <2>2. CASE Open \/ OpenCopy \/ Reconnected \/ BeginItem \/ CleanUp
    BY <2>1, <2>2 DEF FileType, Open, OpenCopy, Reconnected, BeginItem, CleanUp
  <2>3. CASE Move \/ Send
    BY <2>3 DEF FileType, Move, Send
  <2>4. \/ UNCHANGED <<from, sent>> \/ Open \/ OpenCopy \/ Reconnected \/ BeginItem \/ CleanUp
        \/ Move \/ Send
    BY DEF LoopEnds, NextItem, StopBetween, PauseBetween, NoConflict, Decided,
         Decide, Ask, Answered, TryStopped, MakeDirectory, NotConnected, Rename,
         LinkBroken, Cancelled, PauseMoving, Continue, EmptyPushFails, Finish,
         AttemptFailed, NotBack, UserRetries, RetryRefused, GaveUp, Succeeded, Verified,
         VerifyAgain, VerifyFails, ItemDone, Store, WriteRefused, OpenFails, LocalError,
         CopyRefused, Breaks, LoseLink, AnswerConflict, AnswerRetry, Stop, Pause,
         Resume, ShutDown, Next, BatchThread, Device, Trouble, User, Ended, vars,
         loopVars, uiVars, tryVars, fileVars, Wait, Dozes, FallsAsleep, Woken, Wakes, flagVars
  <2> QED BY <2>2, <2>3, <2>4 DEF FileType
<1> QED BY <1>1, <1>2, <1>3 DEF FileType

\* A step keeps the types.
LEMMA TypeKept == TypeOK /\ [Next]_vars => TypeOK'
  BY FlagTypeKept, BatchTypeKept, LoopTypeKept, FileTypeKept DEF TypeOK, LoopType

-----------------------------------------------------------------------------
(* What one step does. *)

\* The kind of the batch is fixed.
LEMMA KindFixed ==
    ASSUME [Next]_vars
    PROVE  kind' = kind
  BY DEF LoopEnds, NextItem, StopBetween, PauseBetween, BeginItem, NoConflict,
       Decided, Decide, Ask, Answered, TryStopped, MakeDirectory, Open, NotConnected,
       OpenCopy, Rename, Move, Send, LinkBroken, Cancelled, PauseMoving, Continue,
       EmptyPushFails, Finish, AttemptFailed, Reconnected, NotBack, UserRetries,
       RetryRefused, GaveUp, Succeeded, Verified, VerifyAgain, VerifyFails, CleanUp,
       ItemDone, Store, WriteRefused, OpenFails, LocalError, CopyRefused, Breaks,
       LoseLink, AnswerConflict, AnswerRetry, Stop, Pause, Resume, ShutDown, Next,
       BatchThread, Device, Trouble, User, Ended, vars, loopVars, uiVars, tryVars,
       fileVars, Wait, Dozes, FallsAsleep, Woken, Wakes, flagVars

\* Only the beginning of an item makes another one the current one.
LEMMA CurrentFixed ==
    ASSUME [Next]_vars
    PROVE  BeginItem \/ current' = current
  BY DEF LoopEnds, NextItem, StopBetween, PauseBetween, NoConflict, Decided,
       Decide, Ask, Answered, TryStopped, MakeDirectory, Open, NotConnected, OpenCopy,
       Rename, Move, Send, LinkBroken, Cancelled, PauseMoving, Continue, EmptyPushFails,
       Finish, AttemptFailed, Reconnected, NotBack, UserRetries, RetryRefused, GaveUp,
       Succeeded, Verified, VerifyAgain, VerifyFails, CleanUp, ItemDone, Store,
       WriteRefused, OpenFails, LocalError, CopyRefused, Breaks, LoseLink,
       AnswerConflict, AnswerRetry, Stop, Pause, Resume, ShutDown, Next, BatchThread,
       Device, Trouble, User, Ended, vars, loopVars, uiVars, tryVars, fileVars,
       Wait, Dozes, FallsAsleep, Woken, Wakes, flagVars

\* The files of the other items are left alone, whatever happens.
LEMMA OnlyCurrent ==
    ASSUME FileType, current \in Files, [Next]_vars
    PROVE  \A f \in Files \ {current} : dest'[f] = dest[f]
<1>1. DOMAIN dest = Files
  BY DEF FileType
<1>2. CASE UNCHANGED dest \/ MakeDirectory \/ Open \/ OpenCopy \/ Rename \/ Move \/ Store
  BY <1>1, <1>2 DEF MakeDirectory, Open, OpenCopy, Rename, Move, Store, Appended
<1>3. CASE CleanUp
  <2>1. Deletes \subseteq {current}
    BY DEF Deletes
  <2> QED BY <1>1, <1>3, <2>1 DEF CleanUp
<1> QED BY <1>2, <1>3, DestChanges

\* The positions before the destination is opened are reached only from each other,
\* or behind an item.
LEMMA WaitPositions ==
    ASSUME [Next]_vars, pc' \in {"next", "begin", "resolve", "asked"}
    PROVE  \/ BeginItem
           \/ next' = next + 1
           \/ /\ pc \in {"next", "begin", "resolve", "asked"}
              /\ UNCHANGED <<next, sent>>
              /\ UNCHANGED dest \/ Store
<1>1. CASE BatchThread
  BY <1>1 DEF BatchThread, LoopEnds, NextItem, StopBetween, PauseBetween, NoConflict, Decided,
       Ask, Answered, TryStopped, MakeDirectory, Open, NotConnected, OpenFails, OpenCopy,
       Rename,
       Move, Send, LinkBroken, Breaks, Cancelled, PauseMoving, Continue, EmptyPushFails, Finish,
       AttemptFailed, Reconnected, NotBack, UserRetries, RetryRefused, GaveUp, Succeeded,
       Verified,
       VerifyAgain, VerifyFails, CleanUp, Opening, Going, Decide, ItemDone, loopVars,
       tryVars, fileVars, Wait, Dozes, FallsAsleep
<1>2. CASE Device \/ Trouble \/ User \/ UNCHANGED vars
  BY <1>2 DEF Device, Store, Trouble, WriteRefused, OpenFails, LocalError, CopyRefused, Breaks,
       LoseLink, User, AnswerConflict, AnswerRetry, Stop, Pause, Resume, ShutDown,
       Opening, vars,
       loopVars, tryVars, fileVars, Woken, Wakes
<1> QED BY <1>1, <1>2 DEF Next, Ended

\* What the loop leaves behind: the item is skipped or counted.
LEMMA LoopSteps ==
    ASSUME LoopType, [Next]_vars
    PROVE  \/ UNCHANGED <<next, completed, skipped>>
           \/ /\ next = current /\ next' = next + 1 /\ current' = current /\ UNCHANGED dest
              /\ \/ /\ pc \in {"succeeded", "verify"} /\ pc' = "next"
                    /\ completed' = completed \cup {current} /\ UNCHANGED <<skipped, unconfirmed>>
                 \/ /\ Decided \/ Answered
                    /\ skipped' = skipped \cup {current} /\ UNCHANGED <<completed, unconfirmed>>
<1>1. CASE UNCHANGED loopVars
  BY <1>1 DEF loopVars
<1>2. CASE BeginItem
  BY <1>2 DEF BeginItem
<1>3. CASE Decided \/ Answered
  BY <1>3 DEF Decided, Answered, Decide, fileVars, LoopType, Busy, Trying
<1>4. CASE Succeeded \/ Verified \/ VerifyFails
  BY <1>4 DEF Succeeded, Verified, VerifyFails, ItemDone, fileVars, LoopType, Busy, Trying
<1> QED BY <1>1, <1>2, <1>3, <1>4, LoopChanges

-----------------------------------------------------------------------------
(* What waits. *)

\* An item that waits after a step waited before it, and was left alone.
LEMMA StillWaiting ==
    ASSUME TypeOK, Waits, [Next]_vars, NEW f \in Files, Waiting(f)'
    PROVE  Waiting(f) /\ dest'[f] = dest[f] /\ (f = current => sent' = 0)
<1>0. /\ current \in Nat /\ next \in {current, current + 1} /\ f \in Nat /\ current \in Files
      /\ sent \in Nat
  BY PlanType DEF TypeOK, LoopType, FileType, Files
<1>1. CASE BeginItem
  BY <1>0, <1>1 DEF BeginItem, Waiting, fileVars
<1>2. CASE ~BeginItem /\ f # current
  <2>1. current' = current /\ dest'[f] = dest[f]
    BY <1>0, <1>2, CurrentFixed, OnlyCurrent DEF TypeOK
  <2>2. next' = next \/ next' = next + 1
    BY LoopSteps DEF TypeOK
  <2>3. f >= next'
    BY DEF Waiting
  <2>4. f > current
    <3>1. CASE next' = next + 1
      BY <1>0, <2>3, <3>1
    <3>2. CASE next' = next
      BY <1>0, <1>2, <2>3, <3>2
    <3> QED BY <2>2, <3>1, <3>2
  <2> QED BY <1>0, <1>2, <2>1, <2>2, <2>3, <2>4 DEF Waiting
<1>3. CASE ~BeginItem /\ f = current
  <2>1. current' = current
    BY <1>3, CurrentFixed
  <2>2. current >= next' /\ pc' \in {"next", "begin", "resolve", "asked"}
    BY <1>0, <1>3, <2>1 DEF Waiting
  <2>3. next' # next + 1
    BY <1>0, <2>2
  <2>4. /\ pc \in {"next", "begin", "resolve", "asked"}
        /\ UNCHANGED <<next, sent>>
        /\ UNCHANGED dest \/ Store
    BY <1>3, <2>2, <2>3, WaitPositions
  <2>5. Waiting(current) /\ sent = 0
    BY <1>3, <2>2, <2>4 DEF Waiting, Waits
  <2>6. ~Store
    BY <1>0, <2>5, ContentType DEF Store, TypeOK
  <2> QED BY <1>3, <2>4, <2>5, <2>6
<1> QED BY <1>1, <1>2, <1>3

\* The items to come stay as they are, and the others are accounted for.
LEMMA WaitsKept ==
    ASSUME TypeOK, Waits, [Next]_vars
    PROVE  Waits'
<1>0. /\ current \in Nat /\ next \in {current, current + 1} /\ current \in Files
      /\ current' \in Files /\ next \in Nat
  BY PlanType, TypeKept DEF TypeOK, LoopType, Files
<1>1. \A f \in Files : Waiting(f)' =>
        dest'[f] = IF f \in Present THEN File(<<"old">>) ELSE Absent
  BY StillWaiting DEF Waits
<1>2. 1..(next' - 1) \subseteq completed' \cup skipped'
  <2>1. CASE UNCHANGED <<next, completed, skipped>>
    BY <2>1 DEF Waits
  <2>2. CASE /\ next = current /\ next' = next + 1
             /\ \/ completed' = completed \cup {current} /\ UNCHANGED skipped
                \/ skipped' = skipped \cup {current} /\ UNCHANGED completed
    <3>1. \A g \in 1..(next' - 1) : g \in 1..(next - 1) \/ g = current
      BY <1>0, <2>2
    <3> QED BY <2>2, <3>1 DEF Waits
  <2> QED BY <2>1, <2>2, LoopSteps DEF TypeOK
<1>3. Waiting(current)' => sent' = 0
  <2>1. CASE BeginItem
    BY <2>1 DEF BeginItem
  <2>2. CASE current' = current
    BY <1>0, <2>2, StillWaiting
  <2> QED BY <2>1, <2>2, CurrentFixed
<1>4. ASSUME kind # "push" PROVE unconfirmed' = {}
  <2>1. unconfirmed' = unconfirmed \/ (kind = "push")
    BY DEF LoopEnds, NextItem, StopBetween, PauseBetween, BeginItem, NoConflict,
         Decided, Decide, Ask, Answered, TryStopped, MakeDirectory, Open, NotConnected,
         OpenCopy, Rename, Move, Send, LinkBroken, Cancelled, PauseMoving, Continue,
         EmptyPushFails, Finish, AttemptFailed, Reconnected, NotBack, UserRetries,
         RetryRefused, GaveUp, Succeeded, Verified, VerifyAgain, VerifyFails, CleanUp,
         ItemDone, Store, WriteRefused, OpenFails, LocalError, CopyRefused, Breaks,
         LoseLink, AnswerConflict, AnswerRetry, Stop, Pause, Resume, ShutDown, Next,
         BatchThread, Device, Trouble, User, Ended, vars, loopVars, uiVars, tryVars,
         fileVars, Wait, Dozes, FallsAsleep, Woken, Wakes, flagVars
  <2> QED BY <1>4, <2>1 DEF Waits
<1>5. ASSUME kind # "push", pc \in {"resolve", "asked"}, Ask \/ Decided \/ pc = "asked"
      PROVE  current \in Present
  <2>1. CASE pc = "asked"
    BY <1>5, <2>1 DEF Waits
  <2>2. CASE Ask \/ Decided
    <3>1. pc = "resolve" /\ dest[current].there
      BY <1>5, <2>2 DEF Ask, Decided, DestExists
    <3>2. next = current
      BY <3>1 DEF TypeOK, LoopType, Busy, Trying
    <3>3. Waiting(current)
      BY <1>0, <3>1, <3>2 DEF Waiting
    <3> QED BY <1>0, <3>1, <3>3 DEF Waits, Absent
  <2> QED BY <1>5, <2>1, <2>2
<1>6. ASSUME kind # "push" PROVE skipped' \subseteq Present
  <2>1. CASE UNCHANGED skipped
    BY <1>6, <2>1 DEF Waits
  <2>2. CASE (Decided \/ Answered) /\ skipped' = skipped \cup {current}
    BY <1>5, <1>6, <2>2 DEF Decided, Answered, Waits
  <2> QED BY <2>1, <2>2, LoopSteps DEF TypeOK
<1>7. ASSUME kind # "push", pc' = "asked" PROVE current' \in Present
  <2>1. Ask \/ (pc = "asked" /\ current' = current)
    BY <1>7 DEF LoopEnds, NextItem, StopBetween, PauseBetween, BeginItem,
         NoConflict, Decided, Decide, Answered, TryStopped, MakeDirectory, Open,
         NotConnected, OpenCopy, Rename, Move, Send, LinkBroken, Cancelled, PauseMoving,
         Continue, EmptyPushFails, Finish, AttemptFailed, Reconnected, NotBack,
         UserRetries, RetryRefused, GaveUp, Succeeded, Verified, VerifyAgain,
         VerifyFails, CleanUp, ItemDone, Store, WriteRefused, OpenFails, LocalError,
         CopyRefused, Breaks, LoseLink, AnswerConflict, AnswerRetry, Stop, Pause,
         Resume, ShutDown, Next, BatchThread, Device, Trouble, User, Ended, vars,
         loopVars, uiVars, tryVars, fileVars, Wait, Dozes, FallsAsleep, Woken, Wakes, flagVars
  <2>2. pc \in {"resolve", "asked"} /\ current' = current
    BY <2>1 DEF Ask, loopVars
  <2> QED BY <1>5, <1>7, <2>1, <2>2
<1> QED BY <1>1, <1>2, <1>3, <1>4, <1>6, <1>7, KindFixed DEF Waits

-----------------------------------------------------------------------------
(* What a transfer writes. *)

\* A file that has been truncated is there and holds nothing.
LEMMA Truncated ==
    ASSUME FileType, NEW f \in Files, dest' = [dest EXCEPT ![f] = File(<<>>)]
    PROVE  dest'[f].there /\ Stored(f)' = 0 /\ Pure(f)'
<1>1. dest'[f] = File(<<>>)
  BY DEF FileType
<1> QED BY <1>1 DEF File, Stored, Pure

\* A file that holds something is there.
LEMMA HoldsIsThere ==
    ASSUME FileType, NEW f \in Files, Stored(f) # 0
    PROVE  dest[f].there
  BY DEF FileType, Stored

\* Opening leaves as much of the file as is not sent again.
LEMMA Opened ==
    ASSUME FileType, NEW f \in Files, f = current, Open
    PROVE  /\ dest'[f].there /\ sent' = Stored(f)'
           /\ \/ Stored(f)' = 0 /\ Pure(f)'
              \/ /\ UNCHANGED dest
                 /\ kind # "pull" => Stored(f)' < Size(f)
<1>0. Stored(f) \in Nat /\ Size(f) \in Nat
  BY ContentType, PlanType
<1>1. CASE Offset = 0
  <2>1. dest' = [dest EXCEPT ![f] = File(<<>>)] /\ sent' = 0
    BY <1>1 DEF Open
  <2> QED BY <2>1, Truncated
<1>2. CASE Offset # 0
  <2>1. /\ Offset = Stored(f) /\ dest' = dest
        /\ kind # "pull" => Stored(f) < Size(f)
    BY <1>0, <1>2 DEF Offset, Open
  <2>2. Stored(f)' = Stored(f)
    BY <2>1 DEF Stored
  <2>3. dest[f].there
    BY <1>2, <2>1, HoldsIsThere
  <2> QED BY <1>2, <2>1, <2>2, <2>3 DEF Open
<1> QED BY <1>1, <1>2

\* A transfer is under way only once it has been opened, and in it the files change
\* by the chunks alone.
LEMMA MovingSteps ==
    ASSUME [Next]_vars, pc' \in {"moving", "asking"}
    PROVE  \/ Open \/ OpenCopy \/ Move \/ Send
           \/ /\ pc \in {"moving", "asking"} /\ UNCHANGED <<current, sent>>
              /\ UNCHANGED dest \/ Store
<1>1. CASE BatchThread
  BY <1>1 DEF BatchThread, LoopEnds, NextItem, StopBetween, PauseBetween, BeginItem, NoConflict,
       Decided, Ask, Answered, TryStopped, MakeDirectory, NotConnected, OpenFails, Rename,
       LinkBroken, Breaks, Cancelled, PauseMoving, Continue, EmptyPushFails, Finish,
       AttemptFailed,
       Reconnected, NotBack, UserRetries, RetryRefused, GaveUp, Succeeded, Verified,
       VerifyAgain,
       VerifyFails, CleanUp, Opening, Going, Decide, ItemDone, loopVars, tryVars, fileVars,
       Wait, Dozes, FallsAsleep
<1>2. CASE Device \/ Trouble \/ User \/ UNCHANGED vars
  BY <1>2 DEF Device, Store, Trouble, WriteRefused, OpenFails, LocalError, CopyRefused, Breaks,
       LoseLink, User, AnswerConflict, AnswerRetry, Stop, Pause, Resume, ShutDown,
       Opening, vars,
       loopVars, tryVars, fileVars, Woken, Wakes
<1> QED BY <1>1, <1>2 DEF Next, Ended

\* How far a transfer has come is changed by these steps.
LEMMA SentChanges ==
    ASSUME [Next]_vars
    PROVE  \/ Open \/ OpenCopy \/ Move \/ Send \/ sent' = 0
           \/ UNCHANGED <<sent, current>>
  BY DEF LoopEnds, NextItem, StopBetween, PauseBetween, BeginItem, NoConflict,
       Decided, Decide, Ask, Answered, TryStopped, MakeDirectory, NotConnected, Rename,
       LinkBroken, Cancelled, PauseMoving, Continue, EmptyPushFails, Finish,
       AttemptFailed, Reconnected, NotBack, UserRetries, RetryRefused, GaveUp,
       Succeeded, Verified, VerifyAgain, VerifyFails, CleanUp, ItemDone, Store,
       WriteRefused, OpenFails, LocalError, CopyRefused, Breaks, LoseLink,
       AnswerConflict, AnswerRetry, Stop, Pause, Resume, ShutDown, Next, BatchThread,
       Device, Trouble, User, Ended, vars, loopVars, uiVars, tryVars, fileVars,
       Wait, Dozes, FallsAsleep, Woken, Wakes, flagVars

\* A file that was not there stays a beginning of its source.
LEMMA PrefixKept ==
    ASSUME TypeOK, Prefixes, [Next]_vars, NEW f \in Files \ Present
    PROVE  Pure(f)' /\ Stored(f)' <= Size(f)
<1>0. /\ FileType /\ current \in Files /\ f \in Files
      /\ Stored(f) \in Nat /\ Size(f) \in Nat /\ sent \in Nat
  BY ContentType, PlanType DEF TypeOK, LoopType, FileType
<1>1. ASSUME dest'[f] = dest[f] PROVE Pure(f)' /\ Stored(f)' <= Size(f)
  BY <1>1 DEF Pure, Stored, Prefixes
<1>2. CASE f # current
  BY <1>0, <1>1, <1>2, OnlyCurrent
<1>3. CASE f = current /\ (MakeDirectory \/ OpenCopy \/ Open)
  <2>1. CASE UNCHANGED dest
    BY <1>1, <2>1
  <2>2. CASE dest' = [dest EXCEPT ![f] = File(<<>>)]
    <3>1. Stored(f)' = 0 /\ Pure(f)'
      BY <1>0, <2>2, Truncated
    <3> QED BY <1>0, <3>1
  <2> QED BY <1>3, <2>1, <2>2 DEF MakeDirectory, OpenCopy, Open
<1>4. CASE f = current /\ Rename
  <2>1. Delivered(f)'
    BY <1>0, <1>4 DEF Rename, Delivered, FileType, Whole, File
  <2>2. dest'[f].data = Whole(f)
    BY <2>1 DEF Delivered, File
  <2>3. Len(Whole(f)) = Size(f)
    BY <1>0 DEF Whole
  <2>4. \A i \in 1..Size(f) : Whole(f)[i] = "new"
    BY DEF Whole
  <2> QED BY <1>0, <2>2, <2>3, <2>4 DEF Pure, Stored
<1>5. CASE f = current /\ (Move \/ Store)
  <2>1. dest[f].there /\ Stored(f) < Size(f) /\ dest' = Appended(f)
    <3>1. CASE Move
      <4>1. Moving /\ kind # "push"
        BY <3>1 DEF Move, Going, Prefixes
      <4> QED BY <1>5, <3>1, <4>1 DEF Move, Going, Moving
    <3>2. CASE Store
      BY <1>0, <1>5, <3>2 DEF Store, Prefixes
    <3> QED BY <1>5, <3>1, <3>2
  <2>2. Stored(f)' = Stored(f) + 1 /\ Pure(f)'
    BY <1>0, <2>1, AppendedContent DEF Prefixes
  <2> QED BY <1>0, <2>1, <2>2
<1>6. CASE CleanUp
  <2>1. dest'[f] = dest[f] \/ dest'[f] = Absent
    BY <1>0, <1>6 DEF CleanUp
  <2>2. CASE dest'[f] = Absent
    BY <1>0, <2>2 DEF Absent, Pure, Stored
  <2> QED BY <1>1, <2>1, <2>2
<1> QED BY <1>1, <1>2, <1>3, <1>4, <1>5, <1>6, DestChanges

\* A push never sends more than the file has.
LEMMA PushInRange ==
    ASSUME TypeOK, Prefixes, [Next]_vars, kind = "push"
    PROVE  sent' <= Size(current')
<1>0. /\ FileType /\ current \in Files /\ current' \in Files /\ sent \in Nat /\ sent' \in Nat
      /\ \A f \in Files : Size(f) \in Nat
  BY PlanType, TypeKept DEF TypeOK, LoopType, FileType
<1>1. CASE sent' = 0
  BY <1>0, <1>1
<1>2. CASE Open
  <2>1. PICK f \in Files : f = current
    BY <1>0
  <2>2. current' = f /\ sent' = Stored(f)'
    BY <1>2, <2>1, Opened, <1>0 DEF Open, loopVars
  <2>3. Stored(f)' = 0 \/ Stored(f)' < Size(f)
    BY <1>0, <1>2, <2>1, Opened
  <2>4. Size(f) \in Nat /\ Size(current') = Size(f)
    BY <1>0, <2>2
  <2>5. sent' = 0 \/ sent' < Size(f)
    BY <2>2, <2>3
  <2> QED BY <1>0, <2>4, <2>5
<1>3. CASE Send
  BY <1>0, <1>3 DEF Send, Going, loopVars
<1>4. CASE UNCHANGED <<sent, current>>
  BY <1>4 DEF Prefixes
<1> QED BY <1>1, <1>2, <1>3, <1>4, SentChanges DEF OpenCopy, Move

\* A transfer under way holds what it has stored.
LEMMA MovingKept ==
    ASSUME TypeOK, Prefixes, [Next]_vars, pc' \in {"moving", "asking"}
    PROVE  Moving'
<1>0. /\ FileType /\ current \in Files /\ sent \in Nat /\ kind' = kind
  BY KindFixed DEF TypeOK, LoopType, FileType
<1>1. PICK f \in Files : f = current
  BY <1>0
<1>2. Stored(f) \in Nat /\ Size(f) \in Nat
  BY <1>0, ContentType, PlanType
<1>3. SUFFICES /\ current' = f /\ ~IsDir(f) /\ dest'[f].there /\ kind # "rename"
               /\ kind # "push" => Stored(f)' = sent'
               /\ ~Remote => Pure(f)' /\ sent' <= Size(f)
  BY <1>0, <1>1 DEF Moving, Stored, Pure, Remote
<1>4. CASE Open
  <2>1. current' = f /\ ~IsDir(f) /\ kind \in {"pull", "push"}
    BY <1>1, <1>4 DEF Open, Opening, loopVars, Remote
  <2> QED BY <1>0, <1>1, <1>4, <2>1, Opened DEF Remote
<1>5. CASE OpenCopy
  <2>1. current' = f /\ ~IsDir(f) /\ kind \in {"copy", "move"} /\ sent' = 0
    BY <1>1, <1>5 DEF OpenCopy, loopVars
  <2>2. dest' = [dest EXCEPT ![f] = File(<<>>)]
    BY <1>1, <1>5 DEF OpenCopy
  <2>3. dest'[f].there /\ Stored(f)' = 0 /\ Pure(f)'
    BY <1>0, <2>2, Truncated
  <2>4. Stored(f)' = sent' /\ sent' <= Size(f)
    BY <1>2, <2>1, <2>3
  <2> QED BY <2>1, <2>3, <2>4
<1>6. CASE Move
  <2>1. /\ current' = f /\ Moving /\ kind # "push" /\ sent' = sent + 1 /\ sent < Size(f)
        /\ dest' = Appended(f)
    BY <1>1, <1>6 DEF Move, Going, loopVars, Prefixes
  <2>2. dest[f].there /\ Stored(f) = sent /\ ~IsDir(f) /\ kind # "rename"
    BY <1>1, <2>1 DEF Moving
  <2>3. dest'[f].there /\ Stored(f)' = Stored(f) + 1
    BY <1>0, <2>1, <2>2, AppendedContent
  <2>4. ~Remote => Pure(f)'
    BY <1>0, <1>1, <2>1, <2>2, AppendedContent DEF Moving
  <2> QED BY <1>0, <1>2, <2>1, <2>2, <2>3, <2>4
<1>7. CASE Send
  <2>1. current' = f /\ UNCHANGED dest /\ Moving /\ kind = "push"
    BY <1>1, <1>7 DEF Send, Going, loopVars, fileVars, Prefixes
  <2> QED BY <1>1, <2>1 DEF Moving, Remote
<1>8. CASE /\ pc \in {"moving", "asking"} /\ UNCHANGED <<current, sent>>
           /\ UNCHANGED dest \/ Store
  <2>1. Moving
    BY <1>8 DEF Prefixes
  <2>2. CASE UNCHANGED dest
    BY <1>1, <1>8, <2>1, <2>2 DEF Moving, Stored, Pure
  <2>3. CASE Store
    <3>1. dest'[f].there /\ kind = "push"
      BY <1>0, <1>1, <2>3, AppendedContent DEF Store
    <3> QED BY <1>1, <1>8, <2>1, <3>1 DEF Moving, Remote
  <2> QED BY <1>8, <2>2, <2>3
<1> QED BY <1>4, <1>5, <1>6, <1>7, <1>8, MovingSteps

\* All three together.
LEMMA PrefixesKept ==
    ASSUME TypeOK, Prefixes, [Next]_vars
    PROVE  Prefixes'
<1>1. \A f \in Files \ Present : Pure(f)' /\ Stored(f)' <= Size(f)
  BY PrefixKept
<1> QED BY <1>1, PushInRange, MovingKept, KindFixed DEF Prefixes

-----------------------------------------------------------------------------
(* What has arrived. *)

\* A finished batch stays as it is but for what the device still stores.
LEMMA EndedStays ==
    ASSUME [Next]_vars, pc = "ended"
    PROVE  /\ pc' = "ended" /\ UNCHANGED <<state, current, next>> /\ (shutdown => shutdown')
           /\ UNCHANGED dest \/ Store
  BY DEF Active, Opening, Going, LoopEnds, NextItem, StopBetween, PauseBetween,
       BeginItem, NoConflict, Decided, Decide, Ask, Answered, TryStopped, MakeDirectory,
       Open, NotConnected, OpenCopy, Rename, Move, Send, LinkBroken, Cancelled,
       PauseMoving, Continue, EmptyPushFails, Finish, AttemptFailed, Reconnected,
       NotBack, UserRetries, RetryRefused, GaveUp, Succeeded, Verified, VerifyAgain,
       VerifyFails, CleanUp, ItemDone, Store, WriteRefused, OpenFails, LocalError,
       CopyRefused, Breaks, LoseLink, AnswerConflict, AnswerRetry, Stop, Pause, Resume,
       ShutDown, Next, BatchThread, Device, Trouble, User, Ended, vars, loopVars,
       uiVars, tryVars, fileVars, Wait, Dozes, FallsAsleep, Woken, Wakes, flagVars

\* The destination is deleted by the clean-up alone.
LEMMA CleanedUp ==
    ASSUME FileType, CleanUp, NEW f \in Files
    PROVE  /\ pc = "clean" /\ pc' = "ended" /\ current' = current
           /\ \/ dest'[f] = dest[f]
              \/ /\ f \in Deletes /\ f = current /\ dest'[f] = Absent
                 /\ state \in {"Stopped", "Failed"} /\ state' = state
           /\ state \in {"Stopped", "Failed"} /\ kind # "push" /\ f \in Deletes => dest'[f] = Absent
           /\ state' \in {"Stopped", "Failed"} => state \in {"Stopped", "Failed"}
<1>1. Deletes \subseteq {current}
  BY DEF Deletes
<1>2. DOMAIN dest = Files
  BY DEF FileType
<1> QED BY <1>1, <1>2 DEF CleanUp, loopVars

\* A complete copy stays one until the clean-up, unless it is written again.
LEMMA DeliveredStays ==
    ASSUME TypeOK, Prefixes, [Next]_vars, NEW f \in Files, Delivered(f),
           f # current \/ pc \notin {"try", "moving"}
    PROVE  Delivered(f)' \/ (CleanUp /\ dest'[f] # dest[f])
<1>0. /\ FileType /\ current \in Files /\ sent \in Nat /\ Size(f) \in Nat /\ Stored(f) \in Nat
  BY ContentType, PlanType DEF TypeOK, LoopType, FileType
<1>1. CASE f # current
  <2>1. dest'[f] = dest[f]
    BY <1>0, <1>1, OnlyCurrent
  <2> QED BY <2>1 DEF Delivered
<1>2. CASE f = current /\ pc \notin {"try", "moving"}
  <2>1. ~Store
    <3>1. Stored(f) = Size(f)
      BY DeliveredLength
    <3> QED BY <1>0, <1>2, <3>1 DEF Store, Prefixes
  <2>2. UNCHANGED dest \/ CleanUp
    BY <1>2, <2>1, DestChanges DEF MakeDirectory, Open, OpenCopy, Rename, Move, Opening, Going
  <2> QED BY <2>2 DEF Delivered
<1> QED BY <1>1, <1>2

\* What arrived or cannot be vouched for stays so.
LEMMA GoodStays ==
    ASSUME TypeOK, Prefixes, [Next]_vars, NEW f \in Files, Good(f),
           f # current \/ pc \notin {"try", "moving"}
    PROVE  Good(f)' \/ Ruined(f)'
<1>1. unconfirmed \subseteq unconfirmed'
  BY DEF LoopEnds, NextItem, StopBetween, PauseBetween, BeginItem, NoConflict,
       Decided, Decide, Ask, Answered, TryStopped, MakeDirectory, Open, NotConnected,
       OpenCopy, Rename, Move, Send, LinkBroken, Cancelled, PauseMoving, Continue,
       EmptyPushFails, Finish, AttemptFailed, Reconnected, NotBack, UserRetries,
       RetryRefused, GaveUp, Succeeded, Verified, VerifyAgain, VerifyFails, CleanUp,
       ItemDone, Store, WriteRefused, OpenFails, LocalError, CopyRefused, Breaks,
       LoseLink, AnswerConflict, AnswerRetry, Stop, Pause, Resume, ShutDown, Next,
       BatchThread, Device, Trouble, User, Ended, vars, loopVars, uiVars, tryVars,
       fileVars, Wait, Dozes, FallsAsleep, Woken, Wakes, flagVars
<1>2. Remote' = Remote
  BY KindFixed DEF Remote
<1>3. CASE Delivered(f)
  <2>1. CASE CleanUp /\ dest'[f] # dest[f]
    BY <2>1, CleanedUp DEF Ruined, TypeOK
  <2> QED BY <1>3, <2>1, DeliveredStays DEF Good
<1> QED BY <1>1, <1>2, <1>3 DEF Good

\* A transfer that ends well leaves the whole file, or a push without the device's
\* answer, or what was put behind an old file.
LEMMA FinishArrives ==
    ASSUME TypeOK, Prefixes, Finish, NEW f \in Files, f = current
    PROVE  Good(f)' /\ (~Remote => Delivered(f)')
<1>0. /\ FileType /\ sent \in Nat /\ Size(f) \in Nat /\ Stored(f) \in Nat /\ kind' = kind
      /\ dest' = dest /\ Moving /\ sent >= Size(f)
  BY ContentType, PlanType DEF TypeOK, LoopType, FileType, Finish, Prefixes
<1>1. CASE kind = "push" /\ ~up
  <2>1. unconfirmed' = unconfirmed \cup {f}
    BY <1>1 DEF Finish
  <2> QED BY <1>1, <2>1 DEF Good, Remote
<1>2. CASE Remote /\ f \in Present
  BY <1>0, <1>2 DEF Good, Remote
<1>3. CASE ~(kind = "push" /\ ~up) /\ ~(Remote /\ f \in Present)
  <2>1. dest[f].there
    BY <1>0 DEF Moving
  <2>2. Pure(f) /\ Stored(f) <= Size(f)
    <3>1. CASE Remote
      BY <1>3, <3>1 DEF Prefixes
    <3>2. CASE ~Remote
      BY <1>0, <3>2 DEF Moving, Remote
    <3> QED BY <3>1, <3>2
  <2>3. Stored(f) >= sent
    BY <1>0, <1>3 DEF Moving, Finish
  <2>4. Stored(f) = Size(f)
    BY <1>0, <2>2, <2>3
  <2>5. Delivered(f)
    BY <1>0, <2>1, <2>2, <2>4, WholeIsDelivered
  <2>6. Delivered(f)'
    BY <1>0, <2>5 DEF Delivered
  <2> QED BY <2>6 DEF Good
<1> QED BY <1>1, <1>2, <1>3 DEF Remote

\* A rename leaves the whole file.
LEMMA RenameArrives ==
    ASSUME FileType, Rename, NEW f \in Files, f = current
    PROVE  Delivered(f)'
  BY DEF FileType, Rename, Delivered

\* Success is reached by a folder, a rename or a transfer, and left by the loop.
LEMMA SuccessSteps ==
    ASSUME [Next]_vars, pc' \in {"succeeded", "verify"}
    PROVE  /\ current' = current
           /\ MakeDirectory \/ Rename \/ Finish \/ pc \in {"succeeded", "verify"}
<1>1. CASE BatchThread
  BY <1>1 DEF BatchThread, LoopEnds, NextItem, StopBetween, PauseBetween, BeginItem, NoConflict,
       Decided, Ask, Answered, TryStopped, MakeDirectory, NotConnected, OpenFails, Rename, Open,
       LinkBroken, Breaks, Cancelled, PauseMoving, Continue, EmptyPushFails, Finish,
       AttemptFailed,
       Reconnected, NotBack, UserRetries, RetryRefused, GaveUp, Succeeded, Verified,
       VerifyAgain,
       VerifyFails, CleanUp, OpenCopy, Move, Send, Decide, ItemDone, loopVars,
       Wait, Dozes, FallsAsleep
<1>2. CASE Device \/ Trouble \/ User \/ UNCHANGED vars
  BY <1>2 DEF Device, Store, Trouble, WriteRefused, OpenFails, LocalError, CopyRefused, Breaks,
       LoseLink, User, AnswerConflict, AnswerRetry, Stop, Pause, Resume, ShutDown, vars,
       loopVars, Woken, Wakes
<1> QED BY <1>1, <1>2 DEF Next, Ended

\* What is counted has arrived.
LEMMA ArrivedKept ==
    ASSUME TypeOK, Prefixes, Arrived, [Next]_vars
    PROVE  Arrived'
<1>0. /\ FileType /\ current \in Files /\ current \in Nat /\ next \in Nat
      /\ completed \subseteq 1..(next - 1)
      /\ completed \subseteq Files
      /\ pc \in Busy => next = current
  <2>1. /\ current \in Files /\ next \in {current, current + 1} /\ completed \subseteq 1..(next - 1)
        /\ pc \in Busy => next = current
    BY DEF TypeOK, LoopType
  <2>2. 1..(next - 1) \subseteq Files
    BY <2>1, PlanType DEF Files
  <2> QED BY <2>1, <2>2 DEF TypeOK, Files
<1>1. PICK c \in Files : c = current
  BY <1>0
<1>2. ASSUME pc' \in {"succeeded", "verify"} PROVE current' = c /\ Good(c)'
  <2>1. current' = c
    BY <1>1, <1>2, SuccessSteps
  <2>2. CASE MakeDirectory
    BY <1>1, <2>1, <2>2 DEF MakeDirectory, Good
  <2>3. CASE Rename
    BY <1>0, <1>1, <2>1, <2>3, RenameArrives DEF Good
  <2>4. CASE Finish
    BY <1>1, <2>1, <2>4, FinishArrives
  <2>5. CASE pc \in {"succeeded", "verify"}
    <3>1. Good(c)
      BY <1>1, <2>5 DEF Arrived
    <3>2. Good(c)' \/ Ruined(c)'
      BY <1>1, <2>5, <3>1, GoodStays
    <3> QED BY <1>2, <2>1, <3>2 DEF Ruined
  <2> QED BY <1>2, <2>1, <2>2, <2>3, <2>4, <2>5, SuccessSteps
<1>3. ASSUME NEW f \in completed PROVE Good(f)' \/ Ruined(f)'
  <2>0. f \in 1..(next - 1) /\ f \in Files
    BY <1>0
  <2>1. f < next
    BY <1>0, <2>0
  <2>2. f # current \/ pc \notin {"try", "moving"}
    <3>1. pc \in {"try", "moving"} => next = current
      BY <1>0 DEF Busy, Trying
    <3> QED BY <1>0, <2>1, <3>1
  <2>3. CASE Good(f)
    BY <2>0, <2>2, <2>3, GoodStays
  <2>4. CASE Ruined(f)
    BY <2>4, EndedStays DEF Ruined
  <2> QED BY <2>3, <2>4 DEF Arrived
<1>4. ASSUME NEW f \in completed' PROVE Good(f)' \/ Ruined(f)'
  <2>1. CASE f \in completed
    BY <1>3, <2>1
  <2>2. CASE f \notin completed
    <3>1. f = c /\ pc \in {"succeeded", "verify"}
      BY <1>1, <2>2, LoopSteps DEF TypeOK
    <3>2. Good(c)
      BY <1>1, <3>1 DEF Arrived
    <3> QED BY <1>1, <3>1, <3>2, GoodStays
  <2> QED BY <2>1, <2>2
<1>5. ASSUME pc' \in {"succeeded", "verify"} PROVE Good(current)'
  BY <1>2, <1>5 DEF Good, Delivered
<1> QED BY <1>4, <1>5 DEF Arrived

-----------------------------------------------------------------------------
(* Folders. *)

\* Only an item just begun is looked for at the destination, and its user asked.
LEMMA PromptSteps ==
    ASSUME [Next]_vars, pc' \in {"resolve", "asked"}
    PROVE  BeginItem \/ (pc \in {"resolve", "asked"} /\ current' = current)
<1>1. CASE BatchThread
  BY <1>1 DEF BatchThread, LoopEnds, NextItem, StopBetween, PauseBetween, NoConflict, Decided,
       Ask, Answered, TryStopped, MakeDirectory, Open, NotConnected, OpenFails, OpenCopy,
       Rename, Move, Send, LinkBroken, Breaks, Cancelled, PauseMoving, Continue,
       EmptyPushFails, Finish, AttemptFailed, Reconnected, NotBack, UserRetries,
       RetryRefused, GaveUp, Succeeded, Verified, VerifyAgain, VerifyFails, CleanUp,
       Opening, Going, Decide, ItemDone, Wait, loopVars
<1>2. CASE Device \/ Trouble \/ User \/ UNCHANGED vars
  BY <1>2 DEF Device, Store, Trouble, WriteRefused, OpenFails, LocalError, CopyRefused, Breaks,
       LoseLink, Woken, User, AnswerConflict, AnswerRetry, Stop, Pause, Resume, ShutDown,
       Opening, vars, loopVars
<1> QED BY <1>1, <1>2 DEF Next, Ended

\* A batch comes to its clean-up in state Running only at the end of the loop, and
\* that the application ends is never taken back.
LEMMA CleanSteps ==
    ASSUME [Next]_vars, pc' = "clean", state' = "Running"
    PROVE  /\ LoopEnds \/ (pc = "clean" /\ state = "Running")
           /\ next' = next /\ (shutdown => shutdown')
<1>1. CASE BatchThread
  BY <1>1 DEF BatchThread, LoopEnds, NextItem, StopBetween, PauseBetween, BeginItem,
       NoConflict, Decided,
       Ask, Answered, TryStopped, MakeDirectory, Open, NotConnected, OpenFails, OpenCopy,
       Rename, Move, Send, LinkBroken, Breaks, Cancelled, PauseMoving, Continue,
       EmptyPushFails, Finish, AttemptFailed, Reconnected, NotBack, UserRetries,
       RetryRefused, GaveUp, Succeeded, Verified, VerifyAgain, VerifyFails, CleanUp,
       Opening, Going, Decide, ItemDone, Wait, loopVars, uiVars, flagVars
<1>2. CASE Device \/ Trouble \/ User \/ UNCHANGED vars
  BY <1>2 DEF Device, Store, Trouble, WriteRefused, OpenFails, LocalError, CopyRefused, Breaks,
       LoseLink, Woken, User, AnswerConflict, AnswerRetry, Stop, Pause, Resume, ShutDown,
       Opening, vars, loopVars, uiVars, flagVars
<1> QED BY <1>1, <1>2 DEF Next, Ended

\* A folder the batch has made or passed is there, and stays.
LEMMA FolderKept ==
    ASSUME TypeOK, Prefixes, Folders, [Next]_vars, ~Remote, NEW f \in Files, IsDir(f),
           f < next' \/ (f = current' /\ pc' \in {"succeeded", "verify"})
    PROVE  Delivered(f)'
<1>0. /\ FileType /\ current \in Files /\ current \in Nat /\ next \in Nat /\ f \in Nat
      /\ next \in {current, current + 1}
      /\ pc \in Busy => next = current
  BY PlanType DEF TypeOK, LoopType, Files
<1>1. ASSUME f < next \/ (f = current /\ pc \in {"succeeded", "verify"})
      PROVE  Delivered(f)'
  <2>1. Delivered(f)
    BY <1>1 DEF Folders
  <2>2. f # current \/ pc \notin {"try", "moving"}
    <3>1. pc \in {"try", "moving"} => next = current
      BY <1>0 DEF Busy, Trying
    <3> QED BY <1>0, <1>1, <3>1
  <2>3. ~(CleanUp /\ dest'[f] # dest[f])
    BY <1>0, CleanedUp DEF Deletes
  <2> QED BY <2>1, <2>2, <2>3, DeliveredStays
<1>2. CASE f = current /\ next = current /\ next' = next + 1
  <2>1. pc \in {"succeeded", "verify"} \/ Decided \/ Answered
    BY <1>0, <1>2, LoopSteps DEF TypeOK
  <2>2. ~Decided /\ ~Answered
    BY <1>2 DEF Decided, Answered, Folders
  <2> QED BY <1>1, <1>2, <2>1, <2>2
<1>3. CASE f = current' /\ pc' \in {"succeeded", "verify"}
  <2>1. f = current /\ (MakeDirectory \/ Rename \/ Finish \/ pc \in {"succeeded", "verify"})
    BY <1>3, SuccessSteps
  <2>2. ~Rename /\ ~Finish
    BY <2>1 DEF Rename, Finish, Prefixes, Moving
  <2>3. CASE MakeDirectory
    <3>1. dest' = [dest EXCEPT ![f] = File(<<>>)]
      BY <2>1, <2>3 DEF MakeDirectory
    <3>2. dest'[f] = File(<<>>)
      BY <1>0, <3>1 DEF FileType
    <3>3. Size(f) = 0
      BY PlanAssumption
    <3>4. Whole(f) = <<>>
      BY <3>3 DEF Whole
    <3> QED BY <3>2, <3>4 DEF Delivered
  <2> QED BY <1>1, <2>1, <2>2, <2>3
<1>4. next' = next \/ (next = current /\ next' = next + 1)
  BY LoopSteps DEF TypeOK
<1>5. CASE f < next' /\ next' = next + 1 /\ next = current
  <2>1. f < next \/ f = current
    BY <1>0, <1>5
  <2> QED BY <1>1, <1>2, <1>5, <2>1
<1> QED BY <1>1, <1>3, <1>4, <1>5

\* All three parts.
LEMMA FoldersKept ==
    ASSUME TypeOK, Prefixes, Folders, [Next]_vars
    PROVE  Folders'
<1>1. ASSUME pc' \in {"resolve", "asked"} PROVE ~IsDir(current')
  <2>1. CASE BeginItem
    BY <1>1, <2>1 DEF BeginItem
  <2>2. CASE pc \in {"resolve", "asked"} /\ current' = current
    BY <2>2 DEF Folders
  <2> QED BY <1>1, <2>1, <2>2, PromptSteps
<1>2. Remote' = Remote
  BY KindFixed DEF Remote
<1>3. ASSUME pc' = "clean", state' = "Running" PROVE shutdown' \/ next' > Len(Plan)
  BY <1>3, CleanSteps DEF LoopEnds, Folders
<1> QED BY <1>1, <1>2, <1>3, FolderKept DEF Folders

-----------------------------------------------------------------------------
(* Sources and leftovers. *)

\* A source is taken away by a rename, by the end of a copy between drives, and a
\* folder by the clean-up.
LEMMA SourceChanges ==
    ASSUME [Next]_vars
    PROVE  \/ source' = source
           \/ /\ source' = source \ {current} /\ current' = current /\ pc' = "succeeded"
              /\ \/ Rename /\ kind = "rename"
                 \/ Finish /\ kind = "move"
           \/ /\ CleanUp /\ state = "Running" /\ kind \in {"move", "rename"}
              /\ \A f \in source \ source' : IsDir(f)
<1>1. CASE Rename \/ Finish
  BY <1>1 DEF Rename, Finish, loopVars
<1>2. CASE CleanUp
  BY <1>2 DEF CleanUp, Removable
<1>3. source' = source \/ Rename \/ Finish \/ CleanUp
  BY DEF LoopEnds, NextItem, StopBetween, PauseBetween, BeginItem, NoConflict,
       Decided, Decide, Ask, Answered, TryStopped, MakeDirectory, Open, NotConnected,
       OpenCopy, Move, Send, LinkBroken, Cancelled, PauseMoving, Continue,
       EmptyPushFails, AttemptFailed, Reconnected, NotBack, UserRetries, RetryRefused,
       GaveUp, Succeeded, Verified, VerifyAgain, VerifyFails, ItemDone, Store,
       WriteRefused, OpenFails, LocalError, CopyRefused, Breaks, LoseLink,
       AnswerConflict, AnswerRetry, Stop, Pause, Resume, ShutDown, Next, BatchThread,
       Device, Trouble, User, Ended, vars, loopVars, uiVars, tryVars, fileVars,
       Wait, Dozes, FallsAsleep, Woken, Wakes, flagVars
<1> QED BY <1>1, <1>2, <1>3

\* Behind a local copy the loop goes on or the batch ends.
LEMMA EndSteps ==
    ASSUME [Next]_vars, ~Remote, pc \in {"succeeded", "gaveUp", "clean", "ended"}
    PROVE  \/ /\ current' = current
              /\ pc = "succeeded" => pc' \in {"succeeded", "clean"}
              /\ pc = "gaveUp" => pc' \in {"gaveUp", "clean"}
              /\ pc = "clean" => pc' \in {"clean", "ended"}
              /\ pc = "ended" => pc' = "ended"
           \/ pc = "succeeded" /\ next' = next + 1
<1>1. CASE BatchThread
  BY <1>1 DEF BatchThread, LoopEnds, NextItem, StopBetween, PauseBetween, BeginItem, NoConflict,
       Decided, Ask, Answered, TryStopped, MakeDirectory, NotConnected, OpenFails, Rename, Open,
       LinkBroken, Breaks, Cancelled, PauseMoving, Continue, EmptyPushFails, Finish,
       AttemptFailed,
       Reconnected, NotBack, UserRetries, RetryRefused, GaveUp, Succeeded, ToVerify, Verified,
       VerifyAgain, VerifyFails, CleanUp, OpenCopy, Move, Send, ItemDone, Opening, Going,
       loopVars, Wait, Dozes, FallsAsleep
<1>2. CASE Device \/ Trouble \/ User \/ UNCHANGED vars
  BY <1>2 DEF Device, Store, Trouble, WriteRefused, OpenFails, LocalError, CopyRefused, Breaks,
       LoseLink, User, AnswerConflict, AnswerRetry, Stop, Pause, Resume, ShutDown,
       Opening, vars,
       loopVars, Woken, Wakes
<1> QED BY <1>1, <1>2 DEF Next, Ended

\* A local copy is remembered as partial when it is given up.
LEMMA PartialChanges ==
    ASSUME [Next]_vars
    PROVE  \/ partial' = partial
           \/ /\ ~Remote /\ partial' = current /\ current' = current /\ source' = source
              /\ pc \in {"moving", "asking"} /\ pc' = "gaveUp"
<1>1. CASE Cancelled
  BY <1>1 DEF Cancelled, Ignored, Remote, loopVars
<1>2. CASE Breaks
  BY <1>2 DEF Breaks, loopVars
<1>3. Cancelled \/ Breaks \/ partial' = partial
  BY DEF LoopEnds, NextItem, StopBetween, PauseBetween, BeginItem, NoConflict,
       Decided, Decide, Ask, Answered, TryStopped, MakeDirectory, Open, NotConnected,
       OpenCopy, Rename, Move, Send, LinkBroken, PauseMoving, Continue, EmptyPushFails,
       Finish, AttemptFailed, Reconnected, NotBack, UserRetries, RetryRefused, GaveUp,
       Succeeded, Verified, VerifyAgain, VerifyFails, CleanUp, ItemDone, Store,
       WriteRefused, OpenFails, LocalError, CopyRefused, LoseLink, AnswerConflict,
       AnswerRetry, Stop, Pause, Resume, ShutDown, Next, BatchThread, Device, Trouble,
       User, Ended, vars, loopVars, uiVars, tryVars, fileVars,
       Wait, Dozes, FallsAsleep, Woken, Wakes, flagVars
<1> QED BY <1>1, <1>2, <1>3

\* The source of a copy that is there and behind the batch stays so.
LEMMA BehindStays ==
    ASSUME TypeOK, Prefixes, Sources, [Next]_vars, ~Remote, NEW f \in Files \ source,
           Delivered(f), Behind(f)
    PROVE  Delivered(f)' /\ Behind(f)'
<1>0. /\ FileType /\ current \in Files /\ current \in Nat /\ next \in Nat /\ f \in Nat
      /\ next \in {current, current + 1}
      /\ pc \in Busy => next = current
      /\ next' = next \/ (next' = next + 1 /\ next = current)
  BY PlanType, LoopSteps DEF TypeOK, LoopType, Files
<1>1. f # current \/ pc \notin {"try", "moving"}
  <2>1. pc \in {"try", "moving"} => next = current
    BY <1>0 DEF Busy, Trying
  <2> QED BY <1>0, <2>1 DEF Behind
<1>2. ~(CleanUp /\ dest'[f] # dest[f])
  <2> SUFFICES ASSUME CleanUp, dest'[f] # dest[f] PROVE FALSE
    OBVIOUS
  <2>1. f \in Deletes /\ f = current /\ pc = "clean"
    BY <1>0, CleanedUp
  <2>2. partial = current
    BY <2>1 DEF Deletes
  <2>3. current \in source
    BY <1>0, <2>1, <2>2, PlanType DEF Sources, Files
  <2> QED BY <2>1, <2>3
<1>3. Delivered(f)'
  BY <1>1, <1>2, DeliveredStays
<1>4. CASE f < next
  BY <1>0, <1>3, <1>4 DEF Behind
<1>5. CASE f = current /\ pc \in {"succeeded", "clean", "ended"}
  <2>1. CASE current' = current /\ pc' \in {"succeeded", "clean", "ended"}
    BY <1>3, <1>5, <2>1 DEF Behind
  <2>2. CASE pc = "succeeded" /\ next' = next + 1
    <3>1. next = current
      BY <1>0, <2>2 DEF Busy, Trying
    <3>2. f < next'
      BY <1>0, <1>5, <2>2, <3>1
    <3> QED BY <1>3, <3>2 DEF Behind
  <2> QED BY <1>5, <2>1, <2>2, EndSteps
<1> QED BY <1>4, <1>5 DEF Behind

\* No source is taken away before its copy is there, but for the folders not reached
\* when the application ends; and no such copy is deleted.
LEMMA SourcesKept ==
    ASSUME TypeOK, Prefixes, Folders, Sources, [Next]_vars
    PROVE  Sources'
<1>0. /\ FileType /\ current \in Files /\ next \in Nat /\ kind' = kind
      /\ pc \in Busy => next = current
  BY PlanType, KindFixed DEF TypeOK, LoopType, Files
<1>1. PICK c \in Files : c = current
  BY <1>0
<1>2. ASSUME NEW f \in Files \ source
      PROVE  kind' \in {"move", "rename"} /\ ((Delivered(f) /\ Behind(f))' \/ Unreached(f)')
  <2>1. kind \in {"move", "rename"} /\ ((Delivered(f) /\ Behind(f)) \/ Unreached(f))
    BY DEF Sources
  <2>2. ~Remote
    BY <2>1 DEF Remote
  <2>3. CASE Delivered(f) /\ Behind(f)
    BY <1>0, <2>1, <2>2, <2>3, BehindStays
  <2>4. CASE Unreached(f)
    <3>1. pc' = "ended" /\ next' = next /\ (shutdown => shutdown')
      BY <2>4, EndedStays DEF Unreached
    <3> QED BY <1>0, <2>1, <2>4, <3>1 DEF Unreached
  <2> QED BY <2>1, <2>3, <2>4
<1>3. ASSUME NEW f \in source, f \in Files, f \notin source'
      PROVE  kind' \in {"move", "rename"} /\ ((Delivered(f) /\ Behind(f))' \/ Unreached(f)')
  <2>1. CASE Rename \/ Finish
    <3>1. /\ f = c /\ current' = current /\ pc' = "succeeded" /\ kind \in {"move", "rename"}
          /\ Rename \/ Finish
      BY <1>1, <1>3, <2>1, SourceChanges DEF Rename, Finish, CleanUp
    <3>2. Delivered(f)'
      BY <1>0, <1>1, <3>1, RenameArrives, FinishArrives DEF Remote
    <3> QED BY <1>0, <1>1, <3>1, <3>2 DEF Behind
  <2>2. CASE CleanUp /\ state = "Running" /\ kind \in {"move", "rename"} /\ IsDir(f)
    <3>1. /\ pc = "clean" /\ pc' = "ended" /\ dest' = dest
          /\ UNCHANGED <<next, shutdown>>
      BY <2>2 DEF CleanUp, loopVars, uiVars, flagVars
    <3>2. CASE f < next
      <4>1. Delivered(f)
        BY <1>3, <2>2, <3>2 DEF Folders, Remote
      <4> QED BY <1>0, <2>2, <3>1, <3>2, <4>1 DEF Delivered, Behind
    <3>3. CASE ~(f < next)
      <4>1. f >= next /\ next <= Len(Plan) /\ Len(Plan) \in Nat
        BY <1>0, <1>3, <3>3, PlanType DEF Files
      <4>2. shutdown
        BY <1>0, <2>2, <3>1, <4>1 DEF Folders
      <4> QED BY <1>0, <2>2, <3>1, <4>1, <4>2 DEF Unreached
    <3> QED BY <3>2, <3>3
  <2> QED BY <1>3, <2>1, <2>2, SourceChanges
<1>4. ASSUME partial' # 0
      PROVE  \/ pc' = "ended"
             \/ pc' \in {"gaveUp", "clean"} /\ partial' = current' /\ current' \in source'
  <2>1. CASE partial' # partial
    <3>1. /\ ~Remote /\ partial' = current /\ current' = current /\ source' = source
          /\ pc \in {"moving", "asking"} /\ pc' = "gaveUp"
      BY <2>1, PartialChanges
    <3>2. next = current /\ pc \notin {"succeeded", "clean", "ended"}
      BY <1>0, <3>1 DEF Busy, Trying
    <3>3. current \in source
      BY <1>0, <3>2 DEF Sources, Behind, Unreached
    <3> QED BY <3>1, <3>3
  <2>2. CASE partial' = partial /\ pc = "ended"
    BY <2>2, EndedStays
  <2>3. CASE partial' = partial /\ pc # "ended"
    <3>1. pc \in {"gaveUp", "clean"} /\ partial = current /\ current \in source
      BY <1>4, <2>3 DEF Sources
    <3>2. pc' = "ended" \/ (pc' \in {"gaveUp", "clean"} /\ UNCHANGED <<current, source>>)
      <4>1. CASE BatchThread
        BY <3>1, <4>1 DEF BatchThread, LoopEnds, NextItem, StopBetween, PauseBetween, BeginItem,
           NoConflict, Decided, Ask, Answered, TryStopped, MakeDirectory, NotConnected,
           OpenFails, Rename, Open, LinkBroken, Breaks, Cancelled, PauseMoving, Continue,
           EmptyPushFails, Finish, AttemptFailed, Reconnected, NotBack, UserRetries,
           RetryRefused, GaveUp, Succeeded, Verified, VerifyAgain, VerifyFails, CleanUp,
           OpenCopy, Move, Send, Opening, Going, Wait, loopVars, fileVars
      <4>2. CASE Device \/ Trouble \/ User \/ UNCHANGED vars
        BY <3>1, <4>2 DEF Device, Store, Trouble, WriteRefused, OpenFails, LocalError,
           CopyRefused, Breaks, LoseLink, Woken, User, AnswerConflict, AnswerRetry, Stop,
           Pause, Resume, ShutDown, Opening, vars, loopVars, fileVars
      <4> QED BY <4>1, <4>2 DEF Next, Ended
    <3> QED BY <2>3, <3>1, <3>2
  <2> QED BY <2>1, <2>2, <2>3
<1>5. ASSUME NEW f \in Files \ source'
      PROVE  kind' \in {"move", "rename"} /\ ((Delivered(f) /\ Behind(f))' \/ Unreached(f)')
  BY <1>2, <1>3, <1>5
<1> QED BY <1>4, <1>5 DEF Sources

\* A local copy is left by its end or by giving it up.
LEMMA MovingLeft ==
    ASSUME [Next]_vars, ~Remote, pc \in {"moving", "asking"}, pc' \notin {"moving", "asking"}
    PROVE  current' = current /\ (Finish \/ partial' = current)
<1>1. CASE BatchThread
  BY <1>1 DEF BatchThread, LoopEnds, NextItem, StopBetween, PauseBetween, BeginItem, NoConflict,
       Decided, Ask, Answered, TryStopped, MakeDirectory, NotConnected, OpenFails, Rename, Open,
       LinkBroken, Breaks, Cancelled, PauseMoving, Continue, EmptyPushFails, EmptyPush, Remote,
       AttemptFailed, Reconnected, NotBack, UserRetries, RetryRefused, GaveUp, Succeeded,
       Verified,
       VerifyAgain, VerifyFails, CleanUp, OpenCopy, Move, Send, Opening, Going, Ignored,
       loopVars,
       Finish, Wait, Dozes, FallsAsleep
<1>2. CASE Device \/ Trouble \/ User \/ UNCHANGED vars
  BY <1>2 DEF Device, Store, Trouble, WriteRefused, OpenFails, LocalError, CopyRefused, Breaks,
       LoseLink, User, AnswerConflict, AnswerRetry, Stop, Pause, Resume, ShutDown,
       Opening, vars,
       loopVars, Woken, Wakes
<1> QED BY <1>1, <1>2 DEF Next, Ended

\* What a local copy leaves of a file that was not there.
LEMMA CopyLeaves ==
    ASSUME TypeOK, Waits, Prefixes, Leftovers, [Next]_vars, ~Remote,
           NEW f \in Files \ Present, f = current', ~IsDir(f), pc' \notin {"moving", "asking"}
    PROVE  partial' = f \/ ~dest'[f].there \/ Delivered(f)'
<1>0. /\ FileType /\ current \in Files /\ kind \in {"copy", "move", "rename"}
      /\ next \in Nat /\ current \in Nat /\ next \in {current, current + 1}
  BY PlanAssumption, PlanType DEF TypeOK, LoopType, BatchType, Remote, Files
<1>1. CASE BeginItem
  <2>1. Waiting(f) /\ dest'[f] = dest[f]
    BY <1>0, <1>1 DEF BeginItem, Waiting, fileVars
  <2> QED BY <2>1 DEF Waits, Absent
<1>2. CASE ~BeginItem /\ pc \in {"moving", "asking"}
  <2>1. f = current /\ (Finish \/ partial' = current)
    BY <1>2, MovingLeft
  <2> QED BY <1>2, <2>1, FinishArrives
<1>3. CASE ~BeginItem /\ pc \notin {"moving", "asking"}
  <2>0. f = current
    BY <1>3, CurrentFixed
  <2>1. partial = current \/ ~dest[f].there \/ Delivered(f)
    BY <1>3, <2>0 DEF Leftovers
  <2>2. partial = current => partial' = f
    BY <2>0, PartialChanges
  <2>3. CASE dest'[f] = dest[f]
    BY <2>0, <2>1, <2>2, <2>3 DEF Delivered
  <2>4. CASE dest'[f] # dest[f]
    <3>1. Rename \/ CleanUp
      <4>1. \/ MakeDirectory \/ Open \/ OpenCopy \/ Rename \/ Move \/ Store \/ CleanUp
        BY <2>4, DestChanges
      <4> QED BY <1>0, <1>3, <2>0, <4>1 DEF MakeDirectory, Open, Opening, Remote,
           OpenCopy, Move,
             Going, Store
    <3>2. CASE Rename
      BY <1>0, <2>0, <3>2, RenameArrives
    <3>3. CASE CleanUp
      BY <1>0, <2>0, <2>4, <3>3, CleanedUp DEF Absent
    <3> QED BY <3>1, <3>2, <3>3
  <2> QED BY <2>3, <2>4
<1> QED BY <1>1, <1>2, <1>3

\* Clean-up leaves nothing half-written on the PC.
LEMMA CleanUpLeaves ==
    ASSUME TypeOK, Waits, Arrived, Leftovers, CleanUp, kind # "push",
           state' \in {"Stopped", "Failed"}, NEW f \in Files \ Present, ~IsDir(f)
    PROVE  ~dest'[f].there \/ Delivered(f)'
<1>0. /\ FileType /\ current \in Files /\ next \in Nat /\ current \in Nat /\ f \in Nat
      /\ next \in {current, current + 1}
      /\ pc = "clean" /\ state \in {"Stopped", "Failed"}
      /\ dest'[f] = dest[f] \/ dest'[f] = Absent
      /\ f \in Deletes => dest'[f] = Absent
  BY CleanedUp, PlanType DEF TypeOK, LoopType, Files
<1>1. SUFFICES ASSUME dest'[f] = dest[f], dest[f].there PROVE Delivered(f)
  BY <1>0 DEF Absent, Delivered
<1>2. f \notin Deletes
  BY <1>0, <1>1 DEF Absent
<1>3. CASE f = current
  BY <1>0, <1>1, <1>2, <1>3 DEF Deletes, Leftovers
<1>4. CASE f < next /\ f # current
  <2>1. f \in completed \cup skipped
    BY <1>0, <1>4 DEF Waits, Files
  <2>2. f \in completed
    BY <2>1 DEF Waits
  <2>3. Good(f)
    BY <1>4, <2>2 DEF Arrived, Ruined
  <2> QED BY <2>3 DEF Good, Waits
<1>5. CASE f >= next /\ f # current
  <2>1. f > current
    BY <1>0, <1>5
  <2>2. Waiting(f)
    BY <1>5, <2>1 DEF Waiting
  <2> QED BY <1>1, <2>2 DEF Waits, Absent
<1> QED BY <1>0, <1>3, <1>4, <1>5

\* Nothing is left half-written, and a batch is complete only at its end.
LEMMA LeftoversKept ==
    ASSUME TypeOK, Waits, Prefixes, Arrived, Leftovers, [Next]_vars
    PROVE  Leftovers'
<1>0. current \in Files /\ current' \in Files /\ Remote' = Remote /\ kind' = kind /\ FileType
  BY TypeKept, KindFixed DEF TypeOK, LoopType, Remote
<1>1. ASSUME ~Remote, current' \notin Present, ~IsDir(current')
      PROVE  \/ pc' \in {"moving", "asking"} \/ partial' = current'
             \/ ~dest'[current'].there \/ Delivered(current)'
  <2>1. PICK f \in Files : f = current'
    BY <1>0
  <2>2. pc' \in {"moving", "asking"} \/ partial' = f \/ ~dest'[f].there \/ Delivered(f)'
    BY <1>1, <2>1, CopyLeaves
  <2> QED BY <2>1, <2>2 DEF Delivered
<1>2. state' = "Completed" => pc' = "ended"
  <2>1. CASE state' = state
    <3>1. state = "Completed" => pc = "ended"
      BY DEF Leftovers
    <3> QED BY <2>1, <3>1, EndedStays
  <2>2. state' = state \/ state' # "Completed" \/ pc' = "ended"
    BY DEF LoopEnds, NextItem, StopBetween, PauseBetween, BeginItem, NoConflict,
         Decided, Decide, Ask, Answered, TryStopped, MakeDirectory, Open, NotConnected,
         OpenCopy, Rename, Move, Send, LinkBroken, Cancelled, PauseMoving, Continue,
         EmptyPushFails, Finish, AttemptFailed, Reconnected, NotBack, UserRetries,
         RetryRefused, GaveUp, Succeeded, Verified, VerifyAgain, VerifyFails, CleanUp,
         ItemDone, Store, WriteRefused, OpenFails, LocalError, CopyRefused, Breaks,
         LoseLink, AnswerConflict, AnswerRetry, Stop, Pause, Resume, ShutDown, Next,
         BatchThread, Device, Trouble, User, Ended, vars, loopVars, uiVars, tryVars,
         fileVars, Wait, Dozes, FallsAsleep, Woken, Wakes, flagVars
  <2> QED BY <2>1, <2>2
<1>3. ASSUME pc' = "ended", state' \in {"Stopped", "Failed"}, kind # "push",
             NEW f \in Files \ Present
      PROVE  IsDir(f) \/ ~dest'[f].there \/ Delivered(f)'
  <2>1. CASE pc = "ended"
    <3>1. UNCHANGED <<state, dest>>
      BY <1>3, <2>1, EndedStays DEF Store
    <3> QED BY <1>3, <2>1, <3>1 DEF Leftovers, NoPartialLeft, Delivered
  <2>2. CASE pc # "ended"
    <3>1. CleanUp
      BY <1>3, <2>2 DEF Opening, Going, LoopEnds, NextItem, StopBetween,
           PauseBetween, BeginItem, NoConflict, Decided, Decide, Ask, Answered,
           TryStopped, MakeDirectory, Open, NotConnected, OpenCopy, Rename, Move, Send,
           LinkBroken, Cancelled, PauseMoving, Continue, EmptyPushFails, Finish,
           AttemptFailed, Reconnected, NotBack, UserRetries, RetryRefused, GaveUp,
           Succeeded, Verified, VerifyAgain, VerifyFails, ItemDone, Store, WriteRefused,
           OpenFails, LocalError, CopyRefused, Breaks, LoseLink, AnswerConflict,
           AnswerRetry, Stop, Pause, Resume, ShutDown, Next, BatchThread, Device,
           Trouble, User, Ended, vars, loopVars, uiVars, tryVars, fileVars,
           Wait, Dozes, FallsAsleep, Woken, Wakes, flagVars
    <3> QED BY <1>3, <3>1, CleanUpLeaves
  <2> QED BY <2>1, <2>2
<1>4. NoPartialLeft'
  BY <1>0, <1>3 DEF NoPartialLeft
<1> QED BY <1>0, <1>1, <1>2, <1>4 DEF Leftovers

-----------------------------------------------------------------------------
(* The user's choices. *)

\* The answer to a prompt is given while it is shown, and taken away by what follows.
LEMMA ChoiceChanges ==
    ASSUME [Next]_vars
    PROVE  \/ Answered
           \/ AnswerConflict
           \/ /\ answers' = answers /\ allDecision' = allDecision
              /\ response' \in {response, "none"}
              /\ pc = "asked" => pc' = "asked" /\ current' = current
              /\ pc' = "asked" => pc = "asked" \/ Ask
<1>1. CASE BatchThread
  BY <1>1 DEF BatchThread, LoopEnds, NextItem, StopBetween, PauseBetween, BeginItem, NoConflict,
       Decided, Decide, Ask, TryStopped, MakeDirectory, NotConnected, OpenFails, Rename, Open,
       LinkBroken, Breaks, Cancelled, PauseMoving, Continue, EmptyPushFails, AttemptFailed,
       Reconnected, NotBack, UserRetries, RetryRefused, GaveUp, Succeeded, Verified,
       VerifyAgain,
       VerifyFails, CleanUp, OpenCopy, Move, Send, ItemDone, Opening, Going, uiVars,
       loopVars, Finish, Wait, Dozes, FallsAsleep, flagVars
<1>2. CASE Device \/ Trouble \/ User \/ UNCHANGED vars
  BY <1>2 DEF Device, Store, Trouble, WriteRefused, OpenFails, LocalError, CopyRefused, Breaks,
       LoseLink, User, Stop, Pause, Resume, ShutDown, AnswerRetry, Opening, vars, uiVars,
       loopVars, Woken, Wakes, flagVars
<1> QED BY <1>1, <1>2 DEF Next, Ended

\* An item is written behind the look at its destination.
LEMMA WritingSteps ==
    ASSUME [Next]_vars, pc' \in Writing
    PROVE  \/ BeginItem \/ NoConflict \/ Decided \/ Answered
           \/ pc \in Writing /\ current' = current
<1>1. CASE BatchThread
  BY <1>1 DEF Writing, BatchThread, LoopEnds, NextItem, StopBetween, PauseBetween, Ask,
       TryStopped,
       MakeDirectory, NotConnected, OpenFails, Rename, Open, LinkBroken, Breaks, Cancelled,
       PauseMoving, Continue, EmptyPushFails, AttemptFailed, Reconnected, NotBack, UserRetries,
       RetryRefused, GaveUp, Succeeded, Verified, VerifyAgain, VerifyFails, CleanUp,
       OpenCopy, Move,
       Send, ItemDone, Opening, Going, loopVars, Finish, Wait, Dozes, FallsAsleep
<1>2. CASE Device \/ Trouble \/ User \/ UNCHANGED vars
  BY <1>2 DEF Writing, Device, Store, Trouble, WriteRefused, OpenFails, LocalError, CopyRefused,
       Breaks, LoseLink, User, AnswerConflict, AnswerRetry, Stop, Pause, Resume, ShutDown,
       Opening,
       vars, loopVars, Woken, Wakes
<1> QED BY <1>1, <1>2 DEF Next, Ended

\* What has been chosen for an item is remembered, and what is written was chosen.
LEMMA ChoicesKept ==
    ASSUME TypeOK, Waits, Choices, [Next]_vars
    PROVE  Choices'
<1>0. /\ current \in Files /\ current \in Nat \ {0} /\ next \in Nat
      /\ next \in {current, current + 1} /\ kind' = kind
      /\ current' \in Files /\ current' \in Nat /\ current' >= current
      /\ answers \in [Files -> {"none", "overwrite", "overwriteAll", "skip", "skipAll"}]
  <2>1. /\ current \in Files /\ next \in {current, current + 1} /\ current' \in Files
        /\ answers \in [Files -> {"none", "overwrite", "overwriteAll", "skip", "skipAll"}]
    BY TypeKept DEF TypeOK, LoopType, BatchType
  <2>2. current' \in {current, next}
    BY CurrentFixed DEF BeginItem
  <2> QED BY <2>1, <2>2, KindFixed, PlanType DEF Files
<1>1. CASE Answered
  <2>1. /\ pc = "asked" /\ response' = "none" /\ answers' = answers /\ current' = current
        /\ pc' \in {"clean", "next", "try"}
        /\ pc' = "try" => response \in {"overwrite", "overwriteAll"}
        /\ allDecision' = IF response \in {"overwriteAll", "skipAll"} THEN response ELSE allDecision
    BY <1>1 DEF Answered, Decide
  <2>2. response # "none" => answers[current] = response
    BY DEF Choices
  <2>3. allDecision' = "overwriteAll" => answers[current] = "overwriteAll"
    BY <2>1, <2>2 DEF Choices
  <2>4. pc' = "try" => answers[current] \in {"overwrite", "overwriteAll"}
    BY <2>1, <2>2
  <2>5. current \in 1..current
    BY <1>0
  <2> QED BY <1>0, <2>1, <2>3, <2>4, <2>5 DEF Choices, Writing, Approved
<1>2. CASE AnswerConflict
  <2>1. /\ pc = "asked" /\ pc' = "asked" /\ current' = current /\ allDecision' = allDecision
        /\ answers' = [answers EXCEPT ![current] = response']
    BY <1>2 DEF AnswerConflict, loopVars
  <2>2. answers'[current] = response'
    BY <1>0, <2>1
  <2>3. allDecision = "none"
    BY <2>1 DEF Choices
  <2> QED BY <2>1, <2>2, <2>3 DEF Choices, Writing
<1>3. CASE /\ answers' = answers /\ allDecision' = allDecision
           /\ response' \in {response, "none"}
           /\ pc = "asked" => pc' = "asked" /\ current' = current
           /\ pc' = "asked" => pc = "asked" \/ Ask
  <2>1. response' # "none" => pc' = "asked" /\ answers'[current'] = response'
    BY <1>3 DEF Choices
  <2>2. pc' = "asked" => allDecision' = "none"
    BY <1>3 DEF Choices, Ask
  <2>3. allDecision' = "overwriteAll" => \E g \in 1..current' : answers'[g] = "overwriteAll"
    <3>1. \A g \in 1..current : g \in 1..current'
      BY <1>0
    <3> QED BY <1>3, <3>1 DEF Choices
  <2>4. ASSUME kind # "push", current' \in Present, pc' \in Writing
        PROVE  Approved(current)' /\ current' = current
    <3>1. CASE pc \in Writing /\ current' = current
      BY <1>0, <1>3, <2>4, <3>1 DEF Choices, Approved
    <3>2. CASE BeginItem
      <4>1. current' = next /\ pc' \in {"try", "resolve"} /\ (pc' = "try" => IsDir(next))
        BY <3>2 DEF BeginItem
      <4> QED BY <2>4, <4>1, PlanAssumption DEF Writing
    <3>3. CASE NoConflict
      <4>1. pc = "resolve" /\ ~dest[current].there /\ current' = current
        BY <2>4, <3>3 DEF NoConflict, DestExists, loopVars
      <4>2. Waiting(current)
        <5>1. next = current
          BY <4>1 DEF TypeOK, LoopType, Busy, Trying
        <5> QED BY <1>0, <4>1, <5>1 DEF Waiting
      <4> QED BY <1>0, <2>4, <4>1, <4>2 DEF Waits, File
    <3>4. CASE Decided
      <4>1. /\ current' = current /\ pc' \in {"try", "next", "clean"}
            /\ pc' = "try" => allDecision = "overwriteAll"
        BY <3>4 DEF Decided, Decide, TypeOK, BatchType
      <4>2. PICK g \in 1..current : answers[g] = "overwriteAll"
        BY <2>4, <4>1 DEF Choices, Writing
      <4>3. g = current \/ g \in 1..(current - 1)
        BY <1>0
      <4> QED BY <1>3, <4>1, <4>2, <4>3 DEF Approved
    <3>5. CASE Answered
      BY <1>1, <2>4, <3>5 DEF Answered, Choices
    <3> QED BY <2>4, <3>1, <3>2, <3>3, <3>4, <3>5, WritingSteps
  <2> QED BY <1>0, <2>1, <2>2, <2>3, <2>4 DEF Choices, Writing, Approved
<1> QED BY <1>1, <1>2, <1>3, ChoiceChanges

-----------------------------------------------------------------------------
(* The theorems. *)

\* The invariant holds at the start.
LEMMA InitIInv == Init => IInv
<1> SUFFICES ASSUME Init PROVE IInv
  OBVIOUS
<1>0. TypeOK /\ FileType
  BY InitType DEF TypeOK
<1>1. Waits
  <2>1. 1..(next - 1) = {}
    BY DEF Init
  <2> QED BY <2>1 DEF Init, Waits, Waiting
<1>2. Prefixes
  <2>1. \A f \in Files \ Present : dest[f].data = <<>>
    BY DEF Init, Absent
  <2>2. \A f \in Files \ Present : Stored(f) = 0
    BY <2>1 DEF Stored
  <2>3. current \in Files
    BY <1>0 DEF TypeOK, LoopType
  <2> QED BY <2>2, <2>3, PlanType DEF Init, Prefixes, Pure
<1>3. Arrived
  BY DEF Init, Arrived
<1>4. Folders
  BY PlanType DEF Init, Folders, Files
<1>5. Sources
  BY DEF Init, Sources
<1>6. Leftovers
  BY <1>0 DEF Init, Leftovers, NoPartialLeft, Absent, TypeOK, LoopType
<1>7. Choices
  BY DEF Init, Choices, Writing
<1> QED BY <1>0, <1>1, <1>2, <1>3, <1>4, <1>5, <1>6, <1>7 DEF IInv

\* And no step breaks it.
LEMMA NextIInv == IInv /\ [Next]_vars => IInv'
  BY TypeKept, WaitsKept, PrefixesKept, ArrivedKept, FoldersKept, SourcesKept,
     LeftoversKept, ChoicesKept DEF IInv

\* In every state of every batch: what is waiting is untouched, what is under way is
\* a beginning of its source, and what is counted has arrived.
THEOREM Invariance == Spec => []IInv
  BY InitIInv, NextIInv, PTL DEF Spec

\* Every variable keeps its type; no item is counted before it is passed, and no
\* attempt beyond the bounds is made.
THEOREM TypeCorrect == Spec => []TypeOK
<1>1. IInv => TypeOK
  BY DEF IInv
<1> QED BY <1>1, Invariance, PTL

\* A batch that ends as completed has delivered every file it counts, however often
\* it was interrupted and resumed.
THEOREM Delivery == Spec => []CompletedMeansDelivered
<1>1. IInv => CompletedMeansDelivered
  <2> SUFFICES ASSUME IInv, state = "Completed", NEW f \in completed \ unconfirmed
               PROVE  IsDir(f) \/ (Remote /\ f \in Present) \/ Delivered(f)
    BY DEF CompletedMeansDelivered
  <2>1. Good(f) \/ Ruined(f)
    BY DEF IInv, Arrived
  <2> QED BY <2>1 DEF Good, Ruined
<1> QED BY <1>1, Invariance, PTL

\* A move never leaves a file without its source and without its copy; only an empty
\* folder it has not come to when the application ends.
THEOREM MovedOrThere == Spec => []SourceOrCopy
<1>1. IInv => SourceOrCopy
  BY DEF IInv, Sources, Unreached, SourceOrCopy
<1> QED BY <1>1, Invariance, PTL

\* After Stop or a failure no file that was not there is left half-written on the PC.
THEOREM NothingPartial == Spec => []NoPartialLeft
<1>1. IInv => NoPartialLeft
  BY DEF IInv, Leftovers
<1> QED BY <1>1, Invariance, PTL

\* A file that was there is rewritten only behind the user's answer for it, or an
\* earlier Overwrite all.
THEOREM OverwritesAreApproved == Spec => OverwriteIsApproved
<1>1. ASSUME IInv, [Next]_vars, NEW f \in Files, kind # "push", Untouched(f),
             dest'[f] # dest[f], dest'[f].there
      PROVE  Approved(f)
  <2>0. FileType /\ current \in Files
    BY <1>1 DEF IInv, TypeOK, LoopType
  <2>1. f = current
    BY <1>1, <2>0, OnlyCurrent
  <2>2. f \in Present /\ ~IsDir(f)
    BY <1>1, PlanAssumption DEF Untouched
  <2>3. ~CleanUp
    BY <1>1, <2>0, CleanedUp DEF Absent
  <2>4. ~Store
    BY <1>1 DEF Store
  <2>5. pc \in {"try", "moving"}
    BY <1>1, <2>1, <2>2, <2>3, <2>4, DestChanges
       DEF MakeDirectory, Open, Opening, OpenCopy, Rename, Move, Going
  <2> QED BY <1>1, <2>1, <2>2, <2>5 DEF IInv, Choices, Writing
<1>2. IInv /\ [Next]_vars =>
        [\A f \in Files : kind # "push" /\ Untouched(f) /\ dest'[f] # dest[f] /\ dest'[f].there =>
            Approved(f)]_vars
  BY <1>1
<1> QED BY <1>2, Invariance, PTL DEF Spec, OverwriteIsApproved

\* Once Stop has been pressed no further item becomes the current one, and of the
\* destinations only the current one changes.
THEOREM StopEndsIt == Spec => StopBeginsNothing
<1>1. ASSUME IInv, [Next]_vars, stopRequested
      PROVE  current' = current /\ \A f \in Files \ {current} : dest'[f] = dest[f]
  <2>1. FileType /\ current \in Files
    BY <1>1 DEF IInv, TypeOK, LoopType
  <2> QED BY <1>1, <2>1, OnlyCurrent, CurrentFixed DEF BeginItem
<1>2. IInv /\ [Next]_vars =>
        [stopRequested => /\ current' = current
                          /\ \A f \in Files \ {current} : dest'[f] = dest[f]]_vars
  BY <1>1
<1> QED BY <1>2, Invariance, PTL DEF Spec, StopBeginsNothing
=============================================================================
