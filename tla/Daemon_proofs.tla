---------------------------- MODULE Daemon_proofs ----------------------------
(***************************************************************************)
(* What the daemon on the device promises the PC.  Of one upload, for      *)
(* every pool of buffers, every stream length and every chunk size: what   *)
(* it acknowledges it has stored.  Of pushes and their verification, for   *)
(* every file, every number of connections, attempts and batches: the CRC  *)
(* it answers tells a stored copy from a damaged one, but for the          *)
(* exceptions PushVerify names.                                            *)
(***************************************************************************)
EXTENDS AsyncWriter, PushVerify, TLAPS

-----------------------------------------------------------------------------
(* The upload pipeline: the inductive invariant. *)

\* A byte of the stream that is queued, or in the writer's unfinished chunk.
Queued(p) == \E i \in 1..Len(queue) :
    queue[i].offset <= p /\ p < queue[i].offset + queue[i].len
InFlight(p) == wpc = "write" /\ task.offset + written <= p /\ p < task.offset + task.len

\* How the positions of the two threads and the flags go together.
Phases ==
    /\ rpc = "start" => wpc = "none" /\ queue = <<>> /\ ~error /\ ~failed
    /\ wpc = "none" => rpc \in {"start", "replied"}
    /\ done => rpc \in {"join", "reply", "replied"}
    /\ wpc = "exit" => error \/ (done /\ queue = <<>>)
    /\ rpc = "reply" => wpc = "exit" /\ (error => failed)
    /\ reply = "none" <=> rpc # "replied"
    /\ rpc = "replied" => wpc \in {"none", "exit"}
    /\ reply = "ok" => ~error /\ wpc = "exit"
    /\ failed => rpc \in {"finish", "join", "reply", "replied"}

\* While the upload goes well no buffer is lost.
Conserved ==
    rpc \in {"header", "acquire", "waitFree", "payload", "submit"} /\ ~error =>
        \A b \in Buf : \/ b \in free
                       \/ \E i \in 1..Len(queue) : queue[i].buf = b
                       \/ wpc = "write" /\ task.buf = b
                       \/ rpc \in {"payload", "submit"} /\ recvBuf = b

\* Waiting is justified: the writer has no chunk, the handler no buffer.
WaitsJustified ==
    /\ wpc = "waitWork" => queue = <<>>
    /\ rpc = "waitFree" => free = {} /\ ~error

\* Chunks lie below received, and a chunk being received still fits.
Bounds ==
    /\ \A i \in 1..Len(queue) : queue[i].offset + queue[i].len <= received
    /\ wpc = "write" => task.offset + task.len <= received
    /\ received <= StreamLen
    /\ rpc \in {"acquire", "waitFree", "payload", "submit"} => received + chunkLen <= StreamLen
    /\ rpc = "submit" => contents[recvBuf] = received

\* No byte is forgotten: it is in the file or still on its way there.
NothingLost ==
    ~error => \A p \in 0..(received - 1) : file[p] = p \/ Queued(p) \/ InFlight(p)

IInv == TypeOK /\ BufferOwnership /\ ChunksIntact /\ Phases /\ Conserved
          /\ WaitsJustified /\ Bounds /\ NothingLost

-----------------------------------------------------------------------------
(* The upload pipeline: the queue. *)

\* What taking the head off a queue gives back: TakeWork removes the oldest chunk.
LEMMA TailFacts ==
    ASSUME NEW S, NEW q \in Seq(S), q # <<>>
    PROVE  /\ Tail(q) \in Seq(S)
           /\ Len(q) \in Nat /\ Len(q) > 0
           /\ Len(Tail(q)) = Len(q) - 1
           /\ \A i \in 1..Len(Tail(q)) : Tail(q)[i] = q[i + 1]
           /\ Head(q) = q[1] /\ Head(q) \in S
  OBVIOUS

\* What appending to a queue gives back: Submit adds a chunk after the others.
LEMMA AppendFacts ==
    ASSUME NEW S, NEW q \in Seq(S), NEW e \in S
    PROVE  /\ Append(q, e) \in Seq(S)
           /\ Len(q) \in Nat
           /\ Len(Append(q, e)) = Len(q) + 1
           /\ \A i \in 1..Len(q) : Append(q, e)[i] = q[i]
           /\ Append(q, e)[Len(q) + 1] = e
  OBVIOUS

-----------------------------------------------------------------------------
(* The upload pipeline: type correctness. *)

\* The upload starts with every variable in its range.
LEMMA TypeInit == Init => TypeOK
<1> SUFFICES ASSUME Init PROVE TypeOK
  OBVIOUS
<1>1. task.len = 0 /\ written \in 0..task.len
  BY DEF Init, NoTask
<1>2. queue \in Seq(QueuedWrite)
  BY DEF Init
<1>3. /\ contents \in [Buf -> Nat \cup {Unwritten}]
      /\ file \in [Positions -> Nat \cup {Unwritten}]
  BY DEF Init
<1>4. done \in BOOLEAN /\ error \in BOOLEAN /\ failed \in BOOLEAN
  BY DEF Init
<1>5. wpc = "none" /\ rpc = "start" /\ task \in QueuedWrite \cup {NoTask}
  BY DEF Init
<1>6. free \subseteq Buf /\ recvBuf \in Buf \cup {NoBuf} /\ reply \in {"none", "ok", "error"}
  BY DEF Init
<1>7. chunkLen = 0 /\ received = 0
  BY DEF Init
<1>8. chunkLen \in 0..MaxChunk /\ received \in Nat
  BY <1>7, LenAssumption
<1> QED
  BY <1>1, <1>2, <1>3, <1>4, <1>5, <1>6, <1>8 DEF TypeOK

\* No step of either thread takes a variable out of its range; a chunk that
\* kept its own bytes is needed to know what the writer puts into the file.
LEMMA TypeStep == TypeOK /\ ChunksIntact /\ [Next]_vars => TypeOK'
<1> SUFFICES ASSUME TypeOK, ChunksIntact, [Next]_vars PROVE TypeOK'
  OBVIOUS
<1> USE BufAssumption, LenAssumption, UnwrittenAssumption DEF TypeOK, NoTask, QueuedWrite
<1>1. CASE Start
  BY <1>1 DEF Start
<1>2. CASE StartFails
  BY <1>2 DEF StartFails, sharedVars, writerVars
<1>3. CASE RecvData
  BY <1>3 DEF RecvData, sharedVars, writerVars
<1>4. CASE RecvDone
  BY <1>4 DEF RecvDone, sharedVars, writerVars
<1>5. CASE RecvFails
  BY <1>5 DEF RecvFails, sharedVars, writerVars
<1>6. CASE Acquire
  BY <1>6 DEF Acquire, writerVars
<1>7. CASE AcquireWaits
  BY <1>7 DEF AcquireWaits, sharedVars, writerVars
<1>8. CASE AcquireFails
  BY <1>8 DEF AcquireFails, sharedVars, writerVars
<1>9. CASE RecvPayload
  BY <1>9 DEF RecvPayload, sharedVars, writerVars
<1>10. CASE Submit
  <2> DEFINE e == [buf |-> recvBuf, len |-> chunkLen, offset |-> received]
  <2>1. e \in QueuedWrite
    BY <1>10 DEF Submit
  <2>2. queue' \in Seq(QueuedWrite)
    BY <1>10, <2>1, AppendFacts DEF Submit
  <2>3. received' \in Nat
    BY <1>10 DEF Submit
  <2> QED
    BY <1>10, <2>2, <2>3 DEF Submit, SignalWork
<1>11. CASE SubmitFails
  BY <1>11 DEF SubmitFails, writerVars
<1>12. CASE Finish
  BY <1>12 DEF Finish, SignalWork
<1>13. CASE Join
  BY <1>13 DEF Join, sharedVars, writerVars
<1>14. CASE Reply
  BY <1>14 DEF Reply, writerVars
<1>15. CASE TakeWork
  <2>1. queue' \in Seq(QueuedWrite) /\ task' \in QueuedWrite
    BY <1>15, TailFacts DEF TakeWork
  <2>2. written' \in 0..(task'.len)
    BY <1>15, <2>1 DEF TakeWork
  <2> QED
    BY <1>15, <2>1, <2>2 DEF TakeWork, handlerVars
<1>16. CASE WaitWork
  BY <1>16 DEF WaitWork, sharedVars, handlerVars
<1>17. CASE WriterExits
  BY <1>17 DEF WriterExits, sharedVars, handlerVars
<1>18. CASE WriteSome
  <2> PICK n \in 1..(task.len - written) :
          /\ file' = [p \in Positions |->
                        IF task.offset + written <= p /\ p < task.offset + written + n
                        THEN contents[task.buf] + (p - task.offset) ELSE file[p]]
          /\ written' = written + n
    BY <1>18 DEF WriteSome
  <2>1. task.len \in Nat
    BY <1>18 DEF WriteSome
  <2>2. contents[task.buf] = task.offset /\ task.offset \in Nat
    BY <1>18 DEF WriteSome, ChunksIntact
  <2>3. written' \in 0..(task'.len)
    BY <1>18, <2>1 DEF WriteSome
  <2>4. file' \in [Positions -> Nat \cup {Unwritten}]
    <3> SUFFICES ASSUME NEW p \in Positions
                 PROVE  file'[p] \in Nat \cup {Unwritten}
      OBVIOUS
    <3>1. p \in Nat
      BY DEF Positions
    <3>2. task.offset + written \in Nat
      BY <2>1, <2>2
    <3> QED
      BY <2>1, <2>2, <3>1, <3>2
  <2> QED
    BY <1>18, <2>3, <2>4 DEF WriteSome, sharedVars, handlerVars
<1>19. CASE WriteFails
  BY <1>19 DEF WriteFails, SignalFree
<1>20. CASE Release
  BY <1>20 DEF Release, SignalFree
<1>21. CASE SpuriousWakeup
  BY <1>21 DEF SpuriousWakeup, sharedVars
<1>22. CASE UNCHANGED vars
  BY <1>22 DEF vars
<1> QED
  BY <1>1, <1>2, <1>3, <1>4, <1>5, <1>6, <1>7, <1>8, <1>9, <1>10, <1>11, <1>12, <1>13,
     <1>14, <1>15, <1>16, <1>17, <1>18, <1>19, <1>20, <1>21, <1>22
  DEF Next, Handler, Writer

\* No step breaks the agreement of thread positions and flags (the order
\* start, stream, finish, join, reply of the two push handlers).
LEMMA PhasesStep ==
    ASSUME TypeOK, Phases, [Next]_vars
    PROVE  Phases'
<1> USE DEF TypeOK, Phases
<1>1. CASE Start
  BY <1>1 DEF Start
<1>2. CASE StartFails
  BY <1>2 DEF StartFails, sharedVars, writerVars
<1>3. CASE RecvData
  BY <1>3 DEF RecvData, sharedVars, writerVars
<1>4. CASE RecvDone
  BY <1>4 DEF RecvDone, sharedVars, writerVars
<1>5. CASE RecvFails
  BY <1>5 DEF RecvFails, sharedVars, writerVars
<1>6. CASE Acquire
  BY <1>6 DEF Acquire, writerVars
<1>7. CASE AcquireWaits
  BY <1>7 DEF AcquireWaits, sharedVars, writerVars
<1>8. CASE AcquireFails
  BY <1>8 DEF AcquireFails, sharedVars, writerVars
<1>9. CASE RecvPayload
  BY <1>9 DEF RecvPayload, sharedVars, writerVars
<1>10. CASE Submit
  BY <1>10 DEF Submit, SignalWork
<1>11. CASE SubmitFails
  BY <1>11 DEF SubmitFails, writerVars
<1>12. CASE Finish
  BY <1>12 DEF Finish, SignalWork
<1>13. CASE Join
  BY <1>13 DEF Join, sharedVars, writerVars
<1>14. CASE Reply
  BY <1>14 DEF Reply, writerVars
<1>15. CASE TakeWork
  BY <1>15 DEF TakeWork, handlerVars
<1>16. CASE WaitWork
  BY <1>16 DEF WaitWork, sharedVars, handlerVars
<1>17. CASE WriterExits
  BY <1>17 DEF WriterExits, sharedVars, handlerVars
<1>18. CASE WriteSome
  BY <1>18 DEF WriteSome, sharedVars, handlerVars
<1>19. CASE WriteFails
  BY <1>19 DEF WriteFails, SignalFree
<1>20. CASE Release
  BY <1>20 DEF Release, SignalFree
<1>21. CASE SpuriousWakeup
  BY <1>21 DEF SpuriousWakeup, sharedVars
<1>22. CASE UNCHANGED vars
  BY <1>22 DEF vars
<1> QED
    BY <1>1, <1>2, <1>3, <1>4, <1>5, <1>6, <1>7, <1>8, <1>9, <1>10, <1>11, <1>12, <1>13,
     <1>14, <1>15, <1>16, <1>17, <1>18, <1>19, <1>20, <1>21, <1>22
  DEF Next, Handler, Writer

\* No step puts a buffer into two hands: acquire, submit, the writer's dequeue
\* and its give-back each move one buffer from one place to another.
LEMMA OwnershipStep ==
    ASSUME TypeOK, Phases, BufferOwnership, [Next]_vars
    PROVE  BufferOwnership'
<1> USE DEF TypeOK, BufferOwnership
<1>1. CASE Start
  BY <1>1 DEF Start, Phases
<1>2. CASE StartFails
  BY <1>2 DEF StartFails, sharedVars, writerVars
<1>3. CASE RecvData
  BY <1>3 DEF RecvData, sharedVars, writerVars
<1>4. CASE RecvDone
  BY <1>4 DEF RecvDone, sharedVars, writerVars
<1>5. CASE RecvFails
  BY <1>5 DEF RecvFails, sharedVars, writerVars
<1>6. CASE Acquire
  BY <1>6 DEF Acquire, writerVars
<1>7. CASE AcquireWaits
  BY <1>7 DEF AcquireWaits, sharedVars, writerVars
<1>8. CASE AcquireFails
  BY <1>8 DEF AcquireFails, sharedVars, writerVars
<1>9. CASE RecvPayload
  BY <1>9 DEF RecvPayload, sharedVars, writerVars
<1>10. CASE Submit
  <2> DEFINE e == [buf |-> recvBuf, len |-> chunkLen, offset |-> received]
  <2>0. e \in QueuedWrite
    BY <1>10, LenAssumption DEF Submit, QueuedWrite
  <2>1. queue' = Append(queue, e)
    BY <1>10 DEF Submit
  <2>2. /\ Len(queue) \in Nat /\ Len(queue') = Len(queue) + 1
        /\ \A i \in 1..Len(queue) : queue'[i] = queue[i]
        /\ queue'[Len(queue) + 1] = e
    BY <2>0, <2>1, AppendFacts
  <2>3. \A i \in 1..Len(queue') : i \in 1..Len(queue) \/ i = Len(queue) + 1
    BY <2>2
  <2>4. e.buf = recvBuf /\ e.len = chunkLen /\ e.offset = received
    OBVIOUS
  <2> HIDE DEF e
  <2> QED
    BY <1>10, <2>2, <2>3, <2>4 DEF Submit, SignalWork
<1>11. CASE SubmitFails
  BY <1>11 DEF SubmitFails, writerVars
<1>12. CASE Finish
  BY <1>12 DEF Finish, SignalWork
<1>13. CASE Join
  BY <1>13 DEF Join, sharedVars, writerVars
<1>14. CASE Reply
  BY <1>14 DEF Reply, writerVars, Phases
<1>15. CASE TakeWork
  <2>1. /\ Len(queue) \in Nat /\ Len(queue') = Len(queue) - 1
        /\ \A i \in 1..Len(queue') : queue'[i] = queue[i + 1]
        /\ task' = queue[1] /\ task' \in QueuedWrite /\ Len(queue) > 0
    BY <1>15, TailFacts DEF TakeWork
  <2>2. \A i \in 1..Len(queue') : i + 1 \in 1..Len(queue) /\ i + 1 # 1
    BY <2>1
  <2>3. 1 \in 1..Len(queue)
    BY <2>1
  <2> QED
    BY <1>15, <2>1, <2>2, <2>3 DEF TakeWork, handlerVars
<1>16. CASE WaitWork
  BY <1>16 DEF WaitWork, sharedVars, handlerVars
<1>17. CASE WriterExits
  BY <1>17 DEF WriterExits, sharedVars, handlerVars
<1>18. CASE WriteSome
  BY <1>18 DEF WriteSome, sharedVars, handlerVars
<1>19. CASE WriteFails
  BY <1>19 DEF WriteFails, SignalFree
<1>20. CASE Release
  BY <1>20 DEF Release, SignalFree
<1>21. CASE SpuriousWakeup
  BY <1>21 DEF SpuriousWakeup, sharedVars
<1>22. CASE UNCHANGED vars
  BY <1>22 DEF vars
<1> QED
    BY <1>1, <1>2, <1>3, <1>4, <1>5, <1>6, <1>7, <1>8, <1>9, <1>10, <1>11, <1>12, <1>13,
     <1>14, <1>15, <1>16, <1>17, <1>18, <1>19, <1>20, <1>21, <1>22
  DEF Next, Handler, Writer

\* No step overwrites a chunk that is queued or being written, because the
\* handler receives only into the buffer it owns.
LEMMA IntactStep ==
    ASSUME TypeOK, Phases, BufferOwnership, Bounds, ChunksIntact, [Next]_vars
    PROVE  ChunksIntact'
<1> USE DEF TypeOK, ChunksIntact
<1>1. CASE Start
  BY <1>1 DEF Start, Phases
<1>2. CASE StartFails
  BY <1>2 DEF StartFails, sharedVars, writerVars
<1>3. CASE RecvData
  BY <1>3 DEF RecvData, sharedVars, writerVars
<1>4. CASE RecvDone
  BY <1>4 DEF RecvDone, sharedVars, writerVars
<1>5. CASE RecvFails
  BY <1>5 DEF RecvFails, sharedVars, writerVars
<1>6. CASE Acquire
  BY <1>6 DEF Acquire, writerVars
<1>7. CASE AcquireWaits
  BY <1>7 DEF AcquireWaits, sharedVars, writerVars
<1>8. CASE AcquireFails
  BY <1>8 DEF AcquireFails, sharedVars, writerVars
<1>9. CASE RecvPayload
  <2>1. \A i \in 1..Len(queue) : queue[i] \in QueuedWrite
    OBVIOUS
  <2> QED
    BY <1>9, <2>1 DEF RecvPayload, BufferOwnership, sharedVars, writerVars, QueuedWrite
<1>10. CASE Submit
  <2> DEFINE e == [buf |-> recvBuf, len |-> chunkLen, offset |-> received]
  <2>0. e \in QueuedWrite
    BY <1>10, LenAssumption DEF Submit, QueuedWrite
  <2>1. queue' = Append(queue, e)
    BY <1>10 DEF Submit
  <2>2. /\ Len(queue) \in Nat /\ Len(queue') = Len(queue) + 1
        /\ \A i \in 1..Len(queue) : queue'[i] = queue[i]
        /\ queue'[Len(queue) + 1] = e
    BY <2>0, <2>1, AppendFacts
  <2>3. \A i \in 1..Len(queue') : i \in 1..Len(queue) \/ i = Len(queue) + 1
    BY <2>2
  <2>4. e.buf = recvBuf /\ e.len = chunkLen /\ e.offset = received
    OBVIOUS
  <2> HIDE DEF e
  <2> QED
    BY <1>10, <2>2, <2>3, <2>4 DEF Submit, SignalWork, Bounds
<1>11. CASE SubmitFails
  BY <1>11 DEF SubmitFails, writerVars
<1>12. CASE Finish
  BY <1>12 DEF Finish, SignalWork
<1>13. CASE Join
  BY <1>13 DEF Join, sharedVars, writerVars
<1>14. CASE Reply
  BY <1>14 DEF Reply, writerVars, Phases
<1>15. CASE TakeWork
  <2>1. /\ Len(queue) \in Nat /\ Len(queue') = Len(queue) - 1
        /\ \A i \in 1..Len(queue') : queue'[i] = queue[i + 1]
        /\ task' = queue[1] /\ task' \in QueuedWrite /\ Len(queue) > 0
    BY <1>15, TailFacts DEF TakeWork
  <2>2. \A i \in 1..Len(queue') : i + 1 \in 1..Len(queue) /\ i + 1 # 1
    BY <2>1
  <2>3. 1 \in 1..Len(queue)
    BY <2>1
  <2> QED
    BY <1>15, <2>1, <2>2, <2>3 DEF TakeWork, handlerVars
<1>16. CASE WaitWork
  BY <1>16 DEF WaitWork, sharedVars, handlerVars
<1>17. CASE WriterExits
  BY <1>17 DEF WriterExits, sharedVars, handlerVars
<1>18. CASE WriteSome
  BY <1>18 DEF WriteSome, sharedVars, handlerVars
<1>19. CASE WriteFails
  BY <1>19 DEF WriteFails, SignalFree
<1>20. CASE Release
  BY <1>20 DEF Release, SignalFree
<1>21. CASE SpuriousWakeup
  BY <1>21 DEF SpuriousWakeup, sharedVars
<1>22. CASE UNCHANGED vars
  BY <1>22 DEF vars
<1> QED
    BY <1>1, <1>2, <1>3, <1>4, <1>5, <1>6, <1>7, <1>8, <1>9, <1>10, <1>11, <1>12, <1>13,
     <1>14, <1>15, <1>16, <1>17, <1>18, <1>19, <1>20, <1>21, <1>22
  DEF Next, Handler, Writer

\* No step lets a chunk reach past the bytes received or the announced length.
LEMMA BoundsStep ==
    ASSUME TypeOK, Phases, Bounds, [Next]_vars
    PROVE  Bounds'
<1> USE DEF TypeOK, Bounds
<1>1. CASE Start
  BY <1>1 DEF Start, Phases
<1>2. CASE StartFails
  BY <1>2 DEF StartFails, sharedVars, writerVars
<1>3. CASE RecvData
  BY <1>3, LenAssumption DEF RecvData, sharedVars, writerVars
<1>4. CASE RecvDone
  BY <1>4 DEF RecvDone, sharedVars, writerVars
<1>5. CASE RecvFails
  BY <1>5 DEF RecvFails, sharedVars, writerVars
<1>6. CASE Acquire
  BY <1>6 DEF Acquire, writerVars
<1>7. CASE AcquireWaits
  BY <1>7 DEF AcquireWaits, sharedVars, writerVars
<1>8. CASE AcquireFails
  BY <1>8 DEF AcquireFails, sharedVars, writerVars
<1>9. CASE RecvPayload
  BY <1>9 DEF RecvPayload, sharedVars, writerVars
<1>10. CASE Submit
  <2> DEFINE e == [buf |-> recvBuf, len |-> chunkLen, offset |-> received]
  <2>0. e \in QueuedWrite
    BY <1>10, LenAssumption DEF Submit, QueuedWrite
  <2>1. queue' = Append(queue, e)
    BY <1>10 DEF Submit
  <2>2. /\ Len(queue) \in Nat /\ Len(queue') = Len(queue) + 1
        /\ \A i \in 1..Len(queue) : queue'[i] = queue[i]
        /\ queue'[Len(queue) + 1] = e
    BY <2>0, <2>1, AppendFacts
  <2>3. \A i \in 1..Len(queue') : i \in 1..Len(queue) \/ i = Len(queue) + 1
    BY <2>2
  <2>4. e.buf = recvBuf /\ e.len = chunkLen /\ e.offset = received
    OBVIOUS
  <2> HIDE DEF e
  <2>5. \A i \in 1..Len(queue) : queue[i].offset \in Nat /\ queue[i].len \in Nat
    <3>1. \A i \in 1..Len(queue) : queue[i] \in QueuedWrite
      OBVIOUS
    <3> QED
      BY <3>1, LenAssumption DEF QueuedWrite
  <2>6. /\ received \in Nat /\ chunkLen \in Nat
        /\ received' = received + chunkLen /\ rpc' = "header"
        /\ received + chunkLen <= StreamLen
    BY <1>10, LenAssumption DEF Submit
  <2>7. \A i \in 1..Len(queue') : queue'[i].offset + queue'[i].len <= received'
    <3>1. \A i \in 1..Len(queue) : queue[i].offset + queue[i].len <= received'
      BY <2>5, <2>6, LenAssumption
    <3>2. e.offset + e.len <= received'
      BY <2>4, <2>6
    <3> QED
      BY <2>2, <2>3, <3>1, <3>2
  <2>8. wpc' = "write" => task'.offset + task'.len <= received'
    <3>1. wpc' = "write" => wpc = "write" /\ task' = task
      BY <1>10 DEF Submit, SignalWork
    <3>2. wpc = "write" => task.offset + task.len <= received
      OBVIOUS
    <3>3. wpc = "write" => task.offset \in Nat /\ task.len \in Nat
      BY LenAssumption DEF QueuedWrite, NoTask
    <3> QED
      BY <2>6, <3>1, <3>2, <3>3, LenAssumption
  <2> QED
    BY <2>6, <2>7, <2>8
<1>11. CASE SubmitFails
  BY <1>11 DEF SubmitFails, writerVars
<1>12. CASE Finish
  BY <1>12 DEF Finish, SignalWork
<1>13. CASE Join
  BY <1>13 DEF Join, sharedVars, writerVars
<1>14. CASE Reply
  BY <1>14 DEF Reply, writerVars
<1>15. CASE TakeWork
  <2>1. /\ Len(queue) \in Nat /\ Len(queue') = Len(queue) - 1
        /\ \A i \in 1..Len(queue') : queue'[i] = queue[i + 1]
        /\ task' = queue[1] /\ task' \in QueuedWrite /\ Len(queue) > 0
    BY <1>15, TailFacts DEF TakeWork
  <2>2. \A i \in 1..Len(queue') : i + 1 \in 1..Len(queue) /\ i + 1 # 1
    BY <2>1
  <2>3. 1 \in 1..Len(queue)
    BY <2>1
  <2> QED
    BY <1>15, <2>1, <2>2, <2>3 DEF TakeWork, handlerVars
<1>16. CASE WaitWork
  BY <1>16 DEF WaitWork, sharedVars, handlerVars
<1>17. CASE WriterExits
  BY <1>17 DEF WriterExits, sharedVars, handlerVars
<1>18. CASE WriteSome
  BY <1>18 DEF WriteSome, sharedVars, handlerVars
<1>19. CASE WriteFails
  BY <1>19 DEF WriteFails, SignalFree
<1>20. CASE Release
  BY <1>20 DEF Release, SignalFree
<1>21. CASE SpuriousWakeup
  BY <1>21 DEF SpuriousWakeup, sharedVars
<1>22. CASE UNCHANGED vars
  BY <1>22 DEF vars
<1> QED
    BY <1>1, <1>2, <1>3, <1>4, <1>5, <1>6, <1>7, <1>8, <1>9, <1>10, <1>11, <1>12, <1>13,
     <1>14, <1>15, <1>16, <1>17, <1>18, <1>19, <1>20, <1>21, <1>22
  DEF Next, Handler, Writer

\* While the upload goes well, no step loses a buffer: each one is free,
\* queued, being written or being received into.
LEMMA ConservedStep ==
    ASSUME TypeOK, Phases, Conserved, [Next]_vars
    PROVE  Conserved'
<1> USE DEF TypeOK, Conserved
<1>1. CASE Start
  BY <1>1 DEF Start, Phases
<1>2. CASE StartFails
  BY <1>2 DEF StartFails, sharedVars, writerVars
<1>3. CASE RecvData
  BY <1>3 DEF RecvData, sharedVars, writerVars
<1>4. CASE RecvDone
  BY <1>4 DEF RecvDone, sharedVars, writerVars
<1>5. CASE RecvFails
  BY <1>5 DEF RecvFails, sharedVars, writerVars
<1>6. CASE Acquire
  BY <1>6 DEF Acquire, writerVars
<1>7. CASE AcquireWaits
  BY <1>7 DEF AcquireWaits, sharedVars, writerVars
<1>8. CASE AcquireFails
  BY <1>8 DEF AcquireFails, sharedVars, writerVars
<1>9. CASE RecvPayload
  BY <1>9 DEF RecvPayload, sharedVars, writerVars
<1>10. CASE Submit
  <2> DEFINE e == [buf |-> recvBuf, len |-> chunkLen, offset |-> received]
  <2>0. e \in QueuedWrite
    BY <1>10, LenAssumption DEF Submit, QueuedWrite
  <2>1. queue' = Append(queue, e)
    BY <1>10 DEF Submit
  <2>2. /\ Len(queue) \in Nat /\ Len(queue') = Len(queue) + 1
        /\ \A i \in 1..Len(queue) : queue'[i] = queue[i]
        /\ queue'[Len(queue) + 1] = e
    BY <2>0, <2>1, AppendFacts
  <2>3. \A i \in 1..Len(queue') : i \in 1..Len(queue) \/ i = Len(queue) + 1
    BY <2>2
  <2>4. e.buf = recvBuf /\ e.len = chunkLen /\ e.offset = received
    OBVIOUS
  <2> HIDE DEF e
  <2> QED
    BY <1>10, <2>1, <2>2, <2>3, <2>4 DEF Submit, SignalWork
<1>11. CASE SubmitFails
  BY <1>11 DEF SubmitFails, writerVars
<1>12. CASE Finish
  BY <1>12 DEF Finish, SignalWork
<1>13. CASE Join
  BY <1>13 DEF Join, sharedVars, writerVars
<1>14. CASE Reply
  BY <1>14 DEF Reply, writerVars
<1>15. CASE TakeWork
  <2>1. /\ Len(queue) \in Nat /\ Len(queue') = Len(queue) - 1
        /\ \A i \in 1..Len(queue') : queue'[i] = queue[i + 1]
        /\ task' = queue[1] /\ task' \in QueuedWrite /\ Len(queue) > 0
    BY <1>15, TailFacts DEF TakeWork
  <2>2. \A i \in 1..Len(queue') : i + 1 \in 1..Len(queue) /\ i + 1 # 1
    BY <2>1
  <2>3. 1 \in 1..Len(queue)
    BY <2>1
  <2> SUFFICES ASSUME rpc \in {"header", "acquire", "waitFree", "payload", "submit"}, ~error,
                      NEW b \in Buf
               PROVE  \/ b \in free'
                      \/ \E i \in 1..Len(queue') : queue'[i].buf = b
                      \/ task'.buf = b
                      \/ rpc \in {"payload", "submit"} /\ recvBuf = b
    BY <1>15 DEF TakeWork, handlerVars
  <2>4. CASE \E i \in 1..Len(queue) : queue[i].buf = b
    <3> PICK i \in 1..Len(queue) : queue[i].buf = b
      BY <2>4
    <3>1. CASE i = 1
      BY <2>1, <3>1
    <3>2. CASE i # 1
      <4>1. i - 1 \in 1..Len(queue') /\ queue'[i - 1] = queue[i]
        BY <2>1, <3>2
      <4> QED
        BY <4>1
    <3> QED
      BY <3>1, <3>2
  <2> QED
    BY <1>15, <2>4 DEF TakeWork, handlerVars, Phases
<1>16. CASE WaitWork
  BY <1>16 DEF WaitWork, sharedVars, handlerVars
<1>17. CASE WriterExits
  BY <1>17 DEF WriterExits, sharedVars, handlerVars
<1>18. CASE WriteSome
  BY <1>18 DEF WriteSome, sharedVars, handlerVars
<1>19. CASE WriteFails
  BY <1>19 DEF WriteFails, SignalFree
<1>20. CASE Release
  BY <1>20 DEF Release, SignalFree
<1>21. CASE SpuriousWakeup
  BY <1>21 DEF SpuriousWakeup, sharedVars
<1>22. CASE UNCHANGED vars
  BY <1>22 DEF vars
<1> QED
    BY <1>1, <1>2, <1>3, <1>4, <1>5, <1>6, <1>7, <1>8, <1>9, <1>10, <1>11, <1>12, <1>13,
     <1>14, <1>15, <1>16, <1>17, <1>18, <1>19, <1>20, <1>21, <1>22
  DEF Next, Handler, Writer

\* A thread goes to wait only when it has nothing to do, and the step that
\* gives it something to do signals it.
LEMMA WaitsStep ==
    ASSUME TypeOK, Phases, WaitsJustified, [Next]_vars
    PROVE  WaitsJustified'
<1> USE DEF TypeOK, WaitsJustified
<1>1. CASE Start
  BY <1>1 DEF Start
<1>2. CASE StartFails
  BY <1>2 DEF StartFails, sharedVars, writerVars
<1>3. CASE RecvData
  BY <1>3 DEF RecvData, sharedVars, writerVars
<1>4. CASE RecvDone
  BY <1>4 DEF RecvDone, sharedVars, writerVars
<1>5. CASE RecvFails
  BY <1>5 DEF RecvFails, sharedVars, writerVars
<1>6. CASE Acquire
  BY <1>6 DEF Acquire, writerVars
<1>7. CASE AcquireWaits
  BY <1>7 DEF AcquireWaits, sharedVars, writerVars
<1>8. CASE AcquireFails
  BY <1>8 DEF AcquireFails, sharedVars, writerVars
<1>9. CASE RecvPayload
  BY <1>9 DEF RecvPayload, sharedVars, writerVars
<1>10. CASE Submit
  <2> DEFINE e == [buf |-> recvBuf, len |-> chunkLen, offset |-> received]
  <2>0. e \in QueuedWrite
    BY <1>10, LenAssumption DEF Submit, QueuedWrite
  <2>1. queue' = Append(queue, e)
    BY <1>10 DEF Submit
  <2>2. /\ Len(queue) \in Nat /\ Len(queue') = Len(queue) + 1
        /\ \A i \in 1..Len(queue) : queue'[i] = queue[i]
        /\ queue'[Len(queue) + 1] = e
    BY <2>0, <2>1, AppendFacts
  <2>3. \A i \in 1..Len(queue') : i \in 1..Len(queue) \/ i = Len(queue) + 1
    BY <2>2
  <2>4. e.buf = recvBuf /\ e.len = chunkLen /\ e.offset = received
    OBVIOUS
  <2> HIDE DEF e
  <2> QED
    BY <1>10, <2>1, <2>2 DEF Submit, SignalWork
<1>11. CASE SubmitFails
  BY <1>11 DEF SubmitFails, writerVars
<1>12. CASE Finish
  BY <1>12 DEF Finish, SignalWork
<1>13. CASE Join
  BY <1>13 DEF Join, sharedVars, writerVars
<1>14. CASE Reply
  BY <1>14 DEF Reply, writerVars
<1>15. CASE TakeWork
  <2>1. /\ Len(queue) \in Nat /\ Len(queue') = Len(queue) - 1
        /\ \A i \in 1..Len(queue') : queue'[i] = queue[i + 1]
        /\ task' = queue[1] /\ task' \in QueuedWrite /\ Len(queue) > 0
    BY <1>15, TailFacts DEF TakeWork
  <2>2. \A i \in 1..Len(queue') : i + 1 \in 1..Len(queue) /\ i + 1 # 1
    BY <2>1
  <2>3. 1 \in 1..Len(queue)
    BY <2>1
  <2> QED
    BY <1>15, <2>1 DEF TakeWork, handlerVars
<1>16. CASE WaitWork
  BY <1>16 DEF WaitWork, sharedVars, handlerVars
<1>17. CASE WriterExits
  BY <1>17 DEF WriterExits, sharedVars, handlerVars
<1>18. CASE WriteSome
  BY <1>18 DEF WriteSome, sharedVars, handlerVars
<1>19. CASE WriteFails
  BY <1>19 DEF WriteFails, SignalFree
<1>20. CASE Release
  BY <1>20 DEF Release, SignalFree
<1>21. CASE SpuriousWakeup
  BY <1>21 DEF SpuriousWakeup, sharedVars
<1>22. CASE UNCHANGED vars
  BY <1>22 DEF vars
<1> QED
    BY <1>1, <1>2, <1>3, <1>4, <1>5, <1>6, <1>7, <1>8, <1>9, <1>10, <1>11, <1>12, <1>13,
     <1>14, <1>15, <1>16, <1>17, <1>18, <1>19, <1>20, <1>21, <1>22
  DEF Next, Handler, Writer

\* No step forgets a byte: what was received is stored, queued or being written
\* until an error is recorded.
LEMMA NothingLostStep ==
    ASSUME TypeOK, Phases, ChunksIntact, Bounds, NothingLost, [Next]_vars
    PROVE  NothingLost'
<1> USE DEF TypeOK, NothingLost
<1>1. CASE Start
  BY <1>1 DEF Start, Queued, InFlight, Phases
<1>2. CASE StartFails
  BY <1>2 DEF StartFails, sharedVars, writerVars, Queued, InFlight
<1>3. CASE RecvData
  BY <1>3 DEF RecvData, sharedVars, writerVars, Queued, InFlight
<1>4. CASE RecvDone
  BY <1>4 DEF RecvDone, sharedVars, writerVars, Queued, InFlight
<1>5. CASE RecvFails
  BY <1>5 DEF RecvFails, sharedVars, writerVars, Queued, InFlight
<1>6. CASE Acquire
  BY <1>6 DEF Acquire, writerVars, Queued, InFlight
<1>7. CASE AcquireWaits
  BY <1>7 DEF AcquireWaits, sharedVars, writerVars, Queued, InFlight
<1>8. CASE AcquireFails
  BY <1>8 DEF AcquireFails, sharedVars, writerVars, Queued, InFlight
<1>9. CASE RecvPayload
  BY <1>9 DEF RecvPayload, sharedVars, writerVars, Queued, InFlight
<1>10. CASE Submit
  <2> DEFINE e == [buf |-> recvBuf, len |-> chunkLen, offset |-> received]
  <2>0. e \in QueuedWrite
    BY <1>10, LenAssumption DEF Submit, QueuedWrite
  <2>1. queue' = Append(queue, e)
    BY <1>10 DEF Submit
  <2>2. /\ Len(queue) \in Nat /\ Len(queue') = Len(queue) + 1
        /\ \A i \in 1..Len(queue) : queue'[i] = queue[i]
        /\ queue'[Len(queue) + 1] = e
    BY <2>0, <2>1, AppendFacts
  <2>3. \A i \in 1..Len(queue') : i \in 1..Len(queue) \/ i = Len(queue) + 1
    BY <2>2
  <2>4. e.buf = recvBuf /\ e.len = chunkLen /\ e.offset = received
    OBVIOUS
  <2> HIDE DEF e
  <2> SUFFICES ASSUME NEW p \in 0..(received' - 1)
               PROVE  file'[p] = p \/ Queued(p)' \/ InFlight(p)'
    BY <1>10 DEF Submit
  <2>5. CASE p \in 0..(received - 1)
    <3>1. file' = file /\ (InFlight(p) => InFlight(p)')
      BY <1>10 DEF Submit, SignalWork, InFlight
    <3>2. ASSUME Queued(p) PROVE Queued(p)'
      <4>1. PICK i \in 1..Len(queue) : queue[i].offset <= p /\ p < queue[i].offset + queue[i].len
        BY <3>2 DEF Queued
      <4>2. i \in 1..Len(queue') /\ queue'[i] = queue[i]
        BY <2>2
      <4> QED BY <4>1, <4>2 DEF Queued
    <3>3. error' = error
      BY <1>10 DEF Submit
    <3> QED BY <1>10, <2>5, <3>1, <3>2, <3>3 DEF Submit
  <2>6. CASE p \notin 0..(received - 1)
    <3>1. received <= p /\ p < received + chunkLen
      BY <1>10, <2>6 DEF Submit
    <3>2. Len(queue) + 1 \in 1..Len(queue')
      BY <2>2
    <3> QED
      BY <2>2, <2>4, <3>1, <3>2 DEF Queued
  <2> QED
    BY <2>5, <2>6
<1>11. CASE SubmitFails
  BY <1>11 DEF SubmitFails, writerVars, Queued, InFlight
<1>12. CASE Finish
  BY <1>12 DEF Finish, SignalWork, Queued, InFlight
<1>13. CASE Join
  BY <1>13 DEF Join, sharedVars, writerVars, Queued, InFlight
<1>14. CASE Reply
  <2>1. ~error' => queue = <<>> /\ wpc = "exit" /\ ~error
    BY <1>14 DEF Reply, Phases
  <2> QED
    BY <1>14, <2>1 DEF Reply, writerVars, Queued, InFlight
<1>15. CASE TakeWork
  <2>1. /\ Len(queue) \in Nat /\ Len(queue') = Len(queue) - 1
        /\ \A i \in 1..Len(queue') : queue'[i] = queue[i + 1]
        /\ task' = queue[1] /\ task' \in QueuedWrite /\ Len(queue) > 0
    BY <1>15, TailFacts DEF TakeWork
  <2>2. \A i \in 1..Len(queue') : i + 1 \in 1..Len(queue) /\ i + 1 # 1
    BY <2>1
  <2>3. 1 \in 1..Len(queue)
    BY <2>1
  <2> SUFFICES ASSUME NEW p \in 0..(received - 1), Queued(p)
               PROVE  Queued(p)' \/ InFlight(p)'
    BY <1>15 DEF TakeWork, handlerVars, InFlight
  <2> PICK i \in 1..Len(queue) : queue[i].offset <= p /\ p < queue[i].offset + queue[i].len
    BY DEF Queued
  <2>4. CASE i = 1
    <3>1. wpc' = "write" /\ written' = 0 /\ task'.offset \in Nat
      BY <1>15, <2>1 DEF TakeWork, QueuedWrite
    <3> QED
      BY <2>1, <2>4, <3>1 DEF InFlight
  <2>5. CASE i # 1
    <3>1. i - 1 \in 1..Len(queue') /\ queue'[i - 1] = queue[i]
      BY <2>1, <2>5
    <3> QED
      BY <3>1 DEF Queued
  <2> QED
    BY <2>4, <2>5
<1>16. CASE WaitWork
  BY <1>16 DEF WaitWork, sharedVars, handlerVars, Queued, InFlight
<1>17. CASE WriterExits
  BY <1>17 DEF WriterExits, sharedVars, handlerVars, Queued, InFlight
<1>18. CASE WriteSome
  <2> PICK n \in 1..(task.len - written) :
          /\ file' = [p \in Positions |->
                        IF task.offset + written <= p /\ p < task.offset + written + n
                        THEN contents[task.buf] + (p - task.offset) ELSE file[p]]
          /\ written' = written + n
    BY <1>18 DEF WriteSome
  <2>1. /\ task.len \in Nat /\ task.offset \in Nat /\ written \in Nat
        /\ contents[task.buf] = task.offset
    BY <1>18 DEF WriteSome, ChunksIntact, QueuedWrite
  <2> SUFFICES ASSUME ~error, NEW p \in 0..(received - 1)
               PROVE  file'[p] = p \/ Queued(p)' \/ InFlight(p)'
    BY <1>18 DEF WriteSome, sharedVars, handlerVars
  <2>2. p \in Positions /\ p \in Nat
    BY LenAssumption DEF Bounds, Positions
  <2>3. CASE task.offset + written <= p /\ p < task.offset + written + n
    BY <2>1, <2>2, <2>3
  <2>4. CASE ~(task.offset + written <= p /\ p < task.offset + written + n)
    <3>1. file'[p] = file[p]
      BY <2>2, <2>4
    <3>2. Queued(p) => Queued(p)'
      BY <1>18 DEF WriteSome, sharedVars, Queued
    <3>3. InFlight(p) => InFlight(p)'
      BY <1>18, <2>1, <2>2, <2>4 DEF WriteSome, InFlight
    <3> QED
      BY <3>1, <3>2, <3>3
  <2> QED
    BY <2>3, <2>4
<1>19. CASE WriteFails
  BY <1>19 DEF WriteFails, SignalFree, Queued, InFlight
<1>20. CASE Release
  <2>1. /\ UNCHANGED <<queue, file, error, received, task, written>> /\ written = task.len
    BY <1>20 DEF Release
  <2>2. wpc = "write" => task.offset \in Nat /\ task.len \in Nat
    BY DEF QueuedWrite
  <2>3. \A p \in 0..(received - 1) : ~InFlight(p)
    BY <2>1, <2>2 DEF InFlight
  <2>4. \A p \in 0..(received - 1) : Queued(p)' = Queued(p)
    BY <2>1 DEF Queued
  <2> QED
    BY <2>1, <2>3, <2>4
<1>21. CASE SpuriousWakeup
  BY <1>21 DEF SpuriousWakeup, sharedVars, Queued, InFlight
<1>22. CASE UNCHANGED vars
  BY <1>22 DEF vars, Queued, InFlight
<1> QED
    BY <1>1, <1>2, <1>3, <1>4, <1>5, <1>6, <1>7, <1>8, <1>9, <1>10, <1>11, <1>12, <1>13,
     <1>14, <1>15, <1>16, <1>17, <1>18, <1>19, <1>20, <1>21, <1>22
  DEF Next, Handler, Writer

-----------------------------------------------------------------------------
(* The upload pipeline: the invariant, and what follows from it. *)

\* The inductive invariant holds when the upload starts.
LEMMA InvariantInit == Init => IInv
<1> SUFFICES ASSUME Init PROVE IInv
  OBVIOUS
<1>1. queue = <<>> /\ Len(queue) = 0 /\ wpc = "none" /\ rpc = "start" /\ received = 0
  BY DEF Init
<1>2. ~error /\ ~done /\ ~failed /\ reply = "none"
  BY DEF Init
<1>3. TypeOK
  BY TypeInit
<1>4. BufferOwnership /\ ChunksIntact
  BY <1>1 DEF BufferOwnership, ChunksIntact
<1>5. Phases
  BY <1>1, <1>2 DEF Phases
<1>6. Conserved /\ WaitsJustified
  BY <1>1 DEF Conserved, WaitsJustified
<1>7. Bounds
  BY <1>1, LenAssumption DEF Bounds
<1>8. NothingLost
  BY <1>1 DEF NothingLost
<1> QED
  BY <1>3, <1>4, <1>5, <1>6, <1>7, <1>8 DEF IInv

\* Every step preserves the inductive invariant, conjunct by conjunct.
LEMMA InvariantStep == IInv /\ [Next]_vars => IInv'
<1> SUFFICES ASSUME IInv, [Next]_vars PROVE IInv'
  OBVIOUS
<1> USE DEF IInv
<1>1. TypeOK'
  BY TypeStep
<1>2. Phases'
  BY PhasesStep
<1>3. BufferOwnership'
  BY OwnershipStep
<1>4. ChunksIntact'
  BY IntactStep
<1>5. Bounds'
  BY BoundsStep
<1>6. Conserved'
  BY ConservedStep
<1>7. WaitsJustified'
  BY WaitsStep
<1>8. NothingLost'
  BY NothingLostStep
<1> QED
  BY <1>1, <1>2, <1>3, <1>4, <1>5, <1>6, <1>7, <1>8

\* The strengthening of the safety properties is an invariant of the pipeline
\* (async_writer_* and the receive loops of handle_push, handle_write_range).
THEOREM Invariance == Spec => []IInv
  BY InvariantInit, InvariantStep, PTL DEF Spec

\* Every variable keeps its type; in particular a chunk is never written past
\* its length and only real buffers are queued.
THEOREM TypeCorrect == Spec => []TypeOK
<1>1. IInv => TypeOK
  BY DEF IInv
<1> QED
  BY <1>1, Invariance, PTL

\* However the two threads interleave, no buffer is in two hands: recv_all
\* never refills a buffer that is queued or being written.
THEOREM SingleOwner == Spec => []BufferOwnership
<1>1. IInv => BufferOwnership
  BY DEF IInv
<1> QED
  BY <1>1, Invariance, PTL

\* A queued chunk still holds the bytes received for its offset when the writer
\* thread gets to it.
THEOREM NoChunkOverwritten == Spec => []ChunksIntact
<1>1. IInv => ChunksIntact
  BY DEF IInv
<1> QED
  BY <1>1, Invariance, PTL

\* When the handler answers ok nothing is queued or in flight, so
\* every byte received is in the file.
LEMMA StoredWhenDrained ==
    ASSUME IInv, ~error, wpc = "exit"
    PROVE  \A p \in 0..(received - 1) : file[p] = p
<1>1. queue = <<>>
  BY DEF IInv, Phases
<1>2. \A p : ~Queued(p) /\ ~InFlight(p)
  BY <1>1 DEF Queued, InFlight
<1> QED
  BY <1>2 DEF IInv, NothingLost

\* An upload is acknowledged only when all it received is in the file: the
\* queue is drained before the thread is joined, and an error anywhere is seen.
THEOREM AcknowledgedIsStored == Spec => []OkMeansStored
<1>1. IInv => OkMeansStored
  BY StoredWhenDrained DEF IInv, Phases, OkMeansStored
<1> QED
  BY <1>1, Invariance, PTL

\* The handler and the writer thread never wait for each other.
THEOREM NeverBothWaiting == Spec => []NoMutualWait
<1>1. IInv => NoMutualWait
  <2> SUFFICES ASSUME IInv, rpc = "waitFree", wpc \in {"waitWork", "exit"}
               PROVE  FALSE
    BY DEF NoMutualWait
  <2>1. free = {} /\ ~error
    BY DEF IInv, WaitsJustified
  <2>2. CASE wpc = "exit"
    BY <2>1, <2>2 DEF IInv, Phases
  <2>3. CASE wpc = "waitWork"
    <3>1. queue = <<>> /\ Len(queue) = 0
      BY <2>3 DEF IInv, WaitsJustified
    <3>2. PICK b : b \in Buf
      BY BufAssumption
    <3> QED
      BY <2>1, <2>3, <3>1, <3>2 DEF IInv, Conserved
  <2> QED
    BY <2>2, <2>3
<1> QED
  BY <1>1, Invariance, PTL

-----------------------------------------------------------------------------
(* The upload pipeline implements the promise of an upload. *)

\* A pwrite of the writer thread is a Store step of the abstract upload: the
\* positions it adds hold the bytes of the stream that belong there.
LEMMA ChunkIsStore ==
    ASSUME IInv, WriteSome, reply = "none"
    PROVE  Promise!Store
<1> PICK n \in 1..(task.len - written) :
        file' = [p \in Positions |->
                   IF task.offset + written <= p /\ p < task.offset + written + n
                   THEN contents[task.buf] + (p - task.offset) ELSE file[p]]
  BY DEF WriteSome
<1> DEFINE S == {p \in Nat : task.offset + written <= p /\ p < task.offset + written + n}
<1>1. /\ task.len \in Nat /\ task.offset \in Nat /\ written \in Nat /\ received \in Nat
      /\ contents[task.buf] = task.offset /\ task.offset + task.len <= received
  BY DEF WriteSome, IInv, TypeOK, ChunksIntact, Bounds, QueuedWrite
<1>2. S \subseteq 0..(received - 1)
  BY <1>1
<1>3. \A p \in Positions : p \in Nat
  BY DEF Positions
<1>4. file' = [p \in Positions |-> IF p \in S THEN p ELSE file[p]]
  <2>1. \A p \in Positions :
          (IF task.offset + written <= p /\ p < task.offset + written + n
           THEN contents[task.buf] + (p - task.offset) ELSE file[p])
          = (IF p \in S THEN p ELSE file[p])
    BY <1>1, <1>3
  <2> QED
    BY <2>1
<1>5. UNCHANGED <<received, reply>>
  BY DEF WriteSome, handlerVars
<1> HIDE DEF S
<1>6. \E T \in SUBSET (0..(received - 1)) :
        file' = [p \in Promise!Positions |-> IF p \in T THEN p ELSE file[p]]
  BY <1>2, <1>4 DEF Positions, Promise!Positions
<1> QED
  BY <1>5, <1>6 DEF Promise!Store

\* Each step of the two threads is a step of Upload or leaves it unchanged.
THEOREM PipelineImplementsUpload == Spec => Implements
<1>1. Init => Promise!Init
  BY DEF Init, Promise!Init, Positions, Promise!Positions
<1>2. IInv /\ [Next]_vars => [Promise!Next]_Promise!vars
  <2> SUFFICES ASSUME IInv, [Next]_vars
               PROVE  Promise!Next \/ UNCHANGED <<received, file, reply>>
    BY DEF Promise!vars
  <2>1. CASE StartFails
    BY <2>1 DEF StartFails, IInv, Phases, Promise!Next, Promise!Fail
  <2>2. CASE Submit
    <3>1. reply = "none" /\ UNCHANGED <<file, reply>>
      BY <2>2 DEF Submit, IInv, Phases
    <3>2. received' \in received..StreamLen
      BY <2>2, LenAssumption DEF Submit, IInv, TypeOK, Bounds
    <3> QED
      BY <3>1, <3>2 DEF Promise!Next, Promise!Accept
  <2>3. CASE Reply
    <3>1. reply = "none" /\ UNCHANGED <<received, file>>
      BY <2>3 DEF Reply, IInv, Phases
    <3>2. CASE failed
      BY <2>3, <3>1, <3>2 DEF Reply, Promise!Next, Promise!Fail
    <3>3. CASE ~failed
      <4>1. \A p \in 0..(received - 1) : file[p] = p
        BY <2>3, <3>3, StoredWhenDrained DEF Reply, IInv, Phases
      <4> QED
        BY <2>3, <3>1, <3>3, <4>1 DEF Reply, Promise!Next, Promise!Succeed
    <3> QED
      BY <3>2, <3>3
  <2>4. CASE WriteSome
    <3>1. reply = "none"
      BY <2>4 DEF WriteSome, IInv, Phases
    <3> QED
      BY <2>4, <3>1, ChunkIsStore DEF Promise!Next
  <2>5. CASE UNCHANGED vars
    BY <2>5 DEF vars
  <2>6. CASE Start \/ RecvData \/ RecvDone \/ RecvFails \/ Acquire \/ AcquireWaits
             \/ AcquireFails \/ RecvPayload \/ SubmitFails \/ Finish \/ Join
    BY <2>6 DEF Start, RecvData, RecvDone, RecvFails, Acquire, AcquireWaits, AcquireFails,
       RecvPayload, SubmitFails, Finish, Join
  <2>7. CASE TakeWork \/ WaitWork \/ WriterExits \/ WriteFails \/ Release \/ SpuriousWakeup
    BY <2>7 DEF TakeWork, WaitWork, WriterExits, WriteFails, Release, SpuriousWakeup,
       handlerVars
  <2> QED
    BY <2>1, <2>2, <2>3, <2>4, <2>5, <2>6, <2>7 DEF Next, Handler, Writer
<1> QED
  BY <1>1, <1>2, Invariance, PTL DEF Spec, Implements, Promise!Spec
-----------------------------------------------------------------------------
(* Pushing and verifying: the inductive invariant. *)

HandlerPc == {"gone", "open", "receive", "finish", "answered"}
Answers == {"none", "ready", "refused", "error", "ok"}
HandlerRec ==
    [pc : HandlerPc, resume : BOOLEAN, append : BOOLEAN, version : Nat, alive : BOOLEAN,
     answer : Answers, from : Nat, arrived : Nat, done : BOOLEAN, received : Nat,
     written : Nat, error : BOOLEAN]
Remembered == {None} \cup {Known(d) : d \in Seq(Nat)}

PushTyped ==
    /\ copy \in Remembered /\ cache \in Remembered /\ inline \in Remembered
    /\ handler \in [Slot -> HandlerRec] /\ client \in Slot
    /\ single \in BOOLEAN /\ version \in Nat /\ sent \in Nat
    /\ cached \in BOOLEAN /\ short \in BOOLEAN /\ unconfirmed \in BOOLEAN /\ late \in BOOLEAN

\* What is true of a handler by itself, given up or not: it writes what it has received
\* and receives what has arrived, within the file, and says "ok" when all is written.
Bounded(h) ==
    /\ h.written <= h.received /\ h.received <= h.arrived /\ h.from + h.arrived <= Size
    /\ h.append => h.resume
    /\ ~h.append => h.from = 0
Phase(h) ==
    /\ h.pc \in {"gone", "open"} => h.arrived = 0 /\ ~h.append /\ ~h.done /\ ~h.error
                                    /\ h.answer = "none"
    /\ h.answer = "ready" <=> h.pc \in {"receive", "finish"}
    /\ h.pc = "finish" /\ ~h.error => h.done /\ h.received = h.arrived
    /\ h.answer = "error" => h.error
    /\ h.answer = "ok" => /\ h.pc = "answered" /\ ~h.error /\ h.done
                          /\ h.received = h.arrived /\ h.written = h.received
Sound(h) == Bounded(h) /\ Phase(h) /\ (h.answer \in {"ready", "ok"} => copy # None)
HandlersSound == \A c \in Slot : Sound(handler[c])

\* What the client has sent is what arrives at its own handler.
UnderWay == pc \in {"asked", "send", "confirm"}
InProgress ==
    UnderWay =>
        /\ Client.alive /\ Client.pc # "gone" /\ Client.version = version
        /\ pc = "asked" => Client.arrived = 0 /\ ~Client.done
        /\ pc # "asked" => Client.answer \notin {"none", "refused"} /\ sent <= Size
        /\ pc = "send" => ~Client.done
                          /\ (Client.pc = "receive" => Client.from + Client.arrived = sent)
        /\ pc = "confirm" /\ Client.done =>
              Client.from + Client.arrived = sent /\ (short \/ sent = Size)

\* A push that truncated the file has stored its first chunks, with nothing but chunks
\* of the same version or holes behind them, if no other handler got in between.
Partial(n) ==
    /\ copy # None /\ Len(copy[1]) <= Size
    /\ \A i \in 1..n : i <= Len(copy[1]) /\ copy[1][i] = version
    /\ \A i \in 1..Len(copy[1]) : copy[1][i] \in {0, version}
Fresh == ~Client.resume /\ ~late
Trusted == cache \in {None, Known(Whole)}
Contents ==
    /\ UnderWay /\ Fresh /\ ~Client.error /\ Client.answer \in {"ready", "ok"}
          => Partial(Client.written)
    /\ pc = "confirm" /\ Fresh /\ Client.answer = "ok" /\ ~short => Trusted

\* A push that the device has confirmed.
Arrival ==
    pc = "moved" /\ ~unconfirmed =>
        /\ Client.answer = "ok"
        /\ ~Client.resume /\ ~short => inline = Known(Whole)
        /\ Fresh /\ ~short => copy = Known(Whole) /\ Trusted

Ended ==
    verdict \in {"verified", "wrongly rejected"} =>
        pc = "end" /\ (~unconfirmed => Client.pc = "answered")

PushInv ==
    /\ PushTyped /\ HandlersSound /\ InProgress /\ Contents /\ Arrival /\ Ended
    /\ VerifiedIsStored /\ RejectedIsWrong

-----------------------------------------------------------------------------
(* Pushing and verifying: the contents of the file. *)

\* A remembered CRC is none or of some contents.
LEMMA RememberedFacts ==
    ASSUME NEW x \in Remembered
    PROVE  /\ x # None => x[1] \in Seq(Nat) /\ x = Known(x[1])
           /\ \A d : Known(d) # None /\ Known(d)[1] = d
  BY DEF Remembered, Known, None

\* The contents of a file is determined by its chunks.
LEMMA WholeIs ==
    ASSUME version \in Nat, NEW d \in Seq(Nat), Len(d) = Size,
           \A i \in 1..Size : d[i] = version
    PROVE  d = Whole
  BY SizesAssumption DEF Whole

\* And the whole file is of that many chunks.
LEMMA WholeFacts ==
    ASSUME version \in Nat
    PROVE  /\ Whole \in Seq(Nat) /\ Len(Whole) = Size /\ Whole # <<>>
           /\ \A i \in 1..Size : Whole[i] = version
  BY SizesAssumption DEF Whole

\* What one chunk written does to the contents.
LEMMA WrittenType ==
    ASSUME NEW d \in Seq(Nat), NEW h \in HandlerRec
    PROVE  Written(d, h) \in Seq(Nat)
<1>1. CASE h.append
  BY <1>1 DEF Written, HandlerRec
<1>2. CASE ~h.append
  <2>1. PICK at \in Nat : at = h.from + h.written + 1
    BY DEF HandlerRec
  <2>2. PICK last \in Nat : last = IF at > Len(d) THEN at ELSE Len(d)
    BY <2>1
  <2>3. Written(d, h) = [i \in 1..last |-> IF i = at THEN h.version
                                            ELSE IF i <= Len(d) THEN d[i] ELSE 0]
    BY <1>2, <2>1, <2>2 DEF Written
  <2>4. \A i \in 1..last : (IF i = at THEN h.version
                            ELSE IF i <= Len(d) THEN d[i] ELSE 0) \in Nat
    BY DEF HandlerRec
  <2> QED BY <2>2, <2>3, <2>4
<1> QED BY <1>1, <1>2

\* A chunk of this version at a position within the file leaves what is there of it, and
\* puts nothing else there.
LEMMA WrittenFacts ==
    ASSUME version \in Nat, NEW d \in Seq(Nat), NEW h \in HandlerRec, ~h.append, h.version = version,
           NEW at \in 1..Size, at = h.from + h.written + 1,
           Len(d) <= Size, \A i \in 1..Len(d) : d[i] \in {0, version}
    PROVE  /\ Len(Written(d, h)) <= Size /\ Len(d) <= Len(Written(d, h)) /\ at <= Len(Written(d, h))
           /\ Written(d, h)[at] = version
           /\ \A i \in 1..Len(Written(d, h)) : Written(d, h)[i] \in {0, version}
           /\ \A i \in 1..Len(d) : d[i] = version => Written(d, h)[i] = version
<1>1. PICK last \in Nat : last = IF at > Len(d) THEN at ELSE Len(d)
  BY SizesAssumption
<1>2. Written(d, h) = [i \in 1..last |-> IF i = at THEN h.version
                                          ELSE IF i <= Len(d) THEN d[i] ELSE 0]
  BY <1>1 DEF Written
<1>3. Len(Written(d, h)) = last
  BY <1>1, <1>2
<1> QED BY <1>1, <1>2, <1>3, SizesAssumption
-----------------------------------------------------------------------------
(* Pushing and verifying: the daemon. *)

\* The step of one handler: what it leaves of itself, and of the file.
HandlerStep(c, g) ==
    /\ handler' = [handler EXCEPT ![c] = g] /\ Daemon
    /\ g \in HandlerRec /\ Sound(g)'
    /\ copy' \in Remembered /\ (copy # None => copy' # None)
    /\ cache' \in Remembered /\ late' \in BOOLEAN

\* What it does to the types and to the handlers.
LEMMA HandlerStepTypes ==
    ASSUME PushInv, NEW c \in Slot, NEW g, HandlerStep(c, g)
    PROVE  PushTyped' /\ HandlersSound'
<1>1. PushTyped'
  BY DEF PushInv, PushTyped, HandlerStep, Daemon, batchVars
<1>2. HandlersSound'
  <2> SUFFICES ASSUME NEW b \in Slot PROVE Sound(handler[b])'
    BY DEF HandlersSound
  <2>1. CASE b = c
    BY <2>1 DEF HandlerStep, PushInv, PushTyped
  <2>2. CASE b # c
    <3>1. handler'[b] = handler[b] /\ Sound(handler[b])
      BY <2>2 DEF HandlerStep, PushInv, PushTyped, HandlersSound
    <3> QED BY <3>1 DEF Sound, Bounded, Phase, HandlerStep
  <2> QED BY <2>1, <2>2
<1> QED BY <1>1, <1>2

\* Another handler's step has spoiled the push, or it has changed nothing that matters.
Harmless ==
    /\ late' = late
    /\ \A n \in 0..Size : Partial(n) => Partial(n)'
    /\ copy = Known(Whole) => copy' = Known(Whole)
    /\ Trusted => Trusted'

\* A step of a handler that the client has given up.
LEMMA LateStepKept ==
    ASSUME PushInv, NEW c \in Slot, c # client, NEW g, HandlerStep(c, g), late' \/ Harmless
    PROVE  PushInv'
<1>1. PushTyped' /\ HandlersSound'
  BY HandlerStepTypes
<1>2. /\ Client' = Client
      /\ UNCHANGED <<client, inline, pc, single, verify, version, batches, sent, tries, verdict,
                     cached, short, unconfirmed>>
  BY DEF HandlerStep, PushInv, PushTyped, Client, Daemon, batchVars
<1>3. InProgress'
  BY <1>2 DEF PushInv, InProgress, UnderWay
<1>4. Client.written \in 0..Size
  BY SizesAssumption DEF PushInv, PushTyped, HandlersSound, Sound, Bounded, HandlerRec, Client
<1>5. Contents'
  BY <1>2, <1>4 DEF PushInv, Contents, UnderWay, Fresh, Harmless
<1>6. Arrival'
  BY <1>2 DEF PushInv, Arrival, Fresh, Harmless, Whole
<1>7. Ended'
  BY <1>2 DEF PushInv, Ended
<1>8. VerifiedIsStored' /\ RejectedIsWrong'
  BY <1>2 DEF PushInv, VerifiedIsStored, RejectedIsWrong, Doubtful, Stale, Harmless, Whole
<1> QED BY <1>1, <1>3, <1>5, <1>6, <1>7, <1>8 DEF PushInv

\* A step of the client's own handler: not once it has answered.
LEMMA ClientStepKept ==
    ASSUME PushInv, NEW g, HandlerStep(client, g), Client.pc # "answered", InProgress', Contents'
    PROVE  PushInv'
<1>1. PushTyped' /\ HandlersSound'
  BY HandlerStepTypes DEF PushInv, PushTyped
<1>2. /\ UNCHANGED <<client, inline, pc, single, verify, version, batches, sent, tries, verdict,
                     cached, short, unconfirmed>>
  BY DEF HandlerStep, Daemon, batchVars
<1>3. Client.answer # "ok"
  BY DEF PushInv, PushTyped, HandlersSound, Sound, Phase, Client
<1>4. Arrival'
  BY <1>2, <1>3 DEF PushInv, Arrival
<1>5. verdict \in {"verified", "wrongly rejected"} => unconfirmed
  BY DEF PushInv, Ended
<1>6. Ended' /\ VerifiedIsStored' /\ RejectedIsWrong'
  BY <1>2, <1>5 DEF PushInv, Ended, VerifiedIsStored, RejectedIsWrong, Doubtful
<1> QED BY <1>1, <1>4, <1>6 DEF PushInv
\* What is known of any handler.
LEMMA HandlerFacts ==
    ASSUME PushInv, NEW c \in Slot, NEW h, h = handler[c]
    PROVE  /\ h \in HandlerRec /\ Sound(h) /\ Bounded(h) /\ Phase(h)
           /\ copy \in Remembered /\ cache \in Remembered /\ client \in Slot
           /\ late \in BOOLEAN /\ version \in Nat
           /\ h.answer \in {"ready", "ok"} => copy # None
           /\ c = client => Client = h
  BY DEF PushInv, PushTyped, HandlersSound, Sound, Client

\* The file is truncated by the push, or by a handler that should not have got to it.
LEMMA OpenKept ==
    ASSUME PushInv, NEW c \in Slot, Open(c)
    PROVE  PushInv'
<1>1. PICK h : h = handler[c]
  OBVIOUS
<1>2. /\ h \in HandlerRec /\ Sound(h) /\ Bounded(h) /\ Phase(h)
      /\ copy \in Remembered /\ cache \in Remembered /\ client \in Slot
      /\ late \in BOOLEAN /\ version \in Nat
      /\ c = client => Client = h
  BY <1>1, HandlerFacts
<1>3. PICK append : append = (h.resume /\ Stored \in 1..(Size - 1))
  OBVIOUS
<1>4. PICK from : from = IF append THEN Stored ELSE 0
  OBVIOUS
<1>5. PICK opened : opened = [h EXCEPT !.pc = "receive", !.append = append, !.from = from,
                                       !.answer = "ready"]
  OBVIOUS
<1>6. /\ h.pc = "open"
      /\ copy' = IF append THEN copy ELSE Known(<<>>)
      /\ late' = IF Late(c) THEN TRUE ELSE late /\ h.resume
      /\ Set(c, opened) \/ (~h.alive /\ Set(c, Gone))
      /\ Daemon /\ UNCHANGED cache
  BY <1>1, <1>3, <1>4, <1>5 DEF Open
<1>7. append \in BOOLEAN /\ from \in Nat /\ from <= Size /\ (append => h.resume /\ copy # None)
  <2>1. Size \in Nat /\ h.resume \in BOOLEAN
    BY <1>2, SizesAssumption DEF HandlerRec
  <2>2. append \in BOOLEAN
    BY <1>3, <2>1
  <2>3. append => h.resume /\ Stored \in 1..(Size - 1)
    BY <1>3
  <2>4. append => copy # None
    BY <2>3 DEF Stored
  <2>5. from \in Nat /\ from <= Size
    BY <1>4, <2>1, <2>2, <2>3
  <2> QED BY <2>2, <2>3, <2>4, <2>5
<1>8. /\ opened \in HandlerRec /\ opened.pc = "receive" /\ opened.append = append
      /\ opened.from = from /\ opened.answer = "ready" /\ opened.resume = h.resume
      /\ opened.arrived = h.arrived /\ opened.received = h.received /\ opened.written = h.written
      /\ opened.done = h.done /\ opened.error = h.error /\ opened.alive = h.alive
      /\ opened.version = h.version
  BY <1>2, <1>5, <1>7 DEF HandlerRec, HandlerPc, Answers
<1>9. h.arrived = 0 /\ h.received = 0 /\ h.written = 0 /\ ~h.done /\ ~h.error /\ h.answer = "none"
  BY <1>2, <1>6 DEF Phase, Bounded, HandlerRec
<1>10. copy' \in Remembered /\ copy' # None
  <2>1. <<>> \in Seq(Nat)
    OBVIOUS
  <2> QED BY <1>2, <1>6, <1>7, <2>1 DEF Remembered, Known, None
<1>11. Sound(opened)'
  BY <1>4, <1>7, <1>8, <1>9, <1>10 DEF Sound, Bounded, Phase
<1>12. Gone \in HandlerRec /\ Sound(Gone)'
  BY SizesAssumption DEF Gone, HandlerRec, HandlerPc, Answers, Sound, Bounded, Phase
<1>13. PICK g : /\ g \in {opened, Gone} /\ handler' = [handler EXCEPT ![c] = g]
                /\ h.alive => g = opened
  BY <1>6 DEF Set
<1>14. g \in HandlerRec /\ Sound(g)'
  BY <1>8, <1>11, <1>12, <1>13
<1>15. late' \in BOOLEAN
  BY <1>2, <1>6 DEF HandlerRec
<1>16. HandlerStep(c, g)
  BY <1>2, <1>6, <1>10, <1>13, <1>14, <1>15 DEF HandlerStep
<1>17. CASE c # client
  BY <1>6, <1>16, <1>17, LateStepKept DEF Late
<1>18. CASE c = client
  <2>1. UnderWay => Client' = opened /\ pc = "asked"
    BY <1>1, <1>2, <1>9, <1>13, <1>18, <1>6
       DEF PushInv, PushTyped, InProgress, UnderWay, Client, Daemon
  <2>2. InProgress'
    BY <1>2, <1>6, <1>8, <1>9, <1>18, <2>1
       DEF PushInv, InProgress, UnderWay, Daemon, batchVars
  <2>3. UnderWay' /\ Fresh' => Partial(0)'
    <3> SUFFICES ASSUME UnderWay', Fresh' PROVE Partial(0)'
      OBVIOUS
    <3>1. copy' = Known(<<>>)
      BY <1>6, <1>7, <1>8, <2>1 DEF Fresh, UnderWay, Daemon
    <3> QED BY <3>1, SizesAssumption DEF Partial, Known, None
  <2>4. Contents'
    BY <1>6, <1>8, <1>9, <2>1, <2>3 DEF Contents, UnderWay, Daemon
  <2> QED BY <1>2, <1>6, <1>16, <1>18, <2>2, <2>4, ClientStepKept
<1> QED BY <1>17, <1>18

\* A path that cannot be opened.
LEMMA OpenFailsKept ==
    ASSUME PushInv, NEW c \in Slot, OpenFails(c)
    PROVE  PushInv'
<1>1. PICK h : h = handler[c]
  OBVIOUS
<1>2. /\ h \in HandlerRec /\ Sound(h) /\ Bounded(h) /\ Phase(h)
      /\ copy \in Remembered /\ cache \in Remembered /\ client \in Slot
      /\ late \in BOOLEAN /\ version \in Nat
      /\ c = client => Client = h
  BY <1>1, HandlerFacts
<1>3. PICK g : g = IF h.alive THEN [h EXCEPT !.pc = "answered", !.answer = "refused"] ELSE Gone
  OBVIOUS
<1>4. h.pc = "open" /\ Set(c, g) /\ Daemon /\ UNCHANGED <<copy, cache, late>>
  BY <1>1, <1>3 DEF OpenFails
<1>5. h.arrived = 0 /\ h.received = 0 /\ h.written = 0 /\ ~h.done /\ ~h.error /\ h.answer = "none"
  BY <1>2, <1>4 DEF Phase, Bounded, HandlerRec
<1>6. g \in HandlerRec /\ Sound(g)'
  <2>1. CASE h.alive
    <3>1. /\ g \in HandlerRec /\ g.pc = "answered" /\ g.answer = "refused"
          /\ g.append = h.append /\ g.from = h.from /\ g.resume = h.resume
          /\ g.arrived = h.arrived /\ g.received = h.received /\ g.written = h.written
      BY <1>2, <1>3, <2>1 DEF HandlerRec, HandlerPc, Answers
    <3> QED BY <1>2, <3>1 DEF Sound, Bounded, Phase
  <2>2. CASE ~h.alive
    BY <1>3, <2>2, SizesAssumption DEF Gone, HandlerRec, HandlerPc, Answers, Sound, Bounded, Phase
  <2> QED BY <2>1, <2>2
<1>7. HandlerStep(c, g)
  BY <1>2, <1>4, <1>6 DEF HandlerStep, Set
<1>8. CASE c # client
  <2>1. Harmless
    BY <1>4 DEF Harmless, Partial, Trusted, Daemon, batchVars, Whole
  <2> QED BY <1>7, <1>8, <2>1, LateStepKept
<1>9. CASE c = client
  <2>1. UnderWay => /\ pc = "asked" /\ Client' = [h EXCEPT !.pc = "answered", !.answer = "refused"]
                    /\ h.alive
    BY <1>1, <1>2, <1>3, <1>4, <1>5, <1>9
       DEF PushInv, PushTyped, InProgress, UnderWay, Client, Daemon, Set
  <2>2. UnderWay => /\ Client'.alive /\ Client'.pc = "answered" /\ Client'.answer = "refused"
                    /\ Client'.version = h.version /\ Client'.arrived = 0 /\ ~Client'.done
    BY <1>2, <1>5, <2>1 DEF HandlerRec
  <2>3. InProgress'
    BY <1>2, <1>4, <1>9, <2>1, <2>2 DEF PushInv, InProgress, UnderWay, Daemon, batchVars
  <2>4. Contents'
    BY <1>4, <2>1, <2>2 DEF Contents, UnderWay, Daemon
  <2> QED BY <1>2, <1>4, <1>7, <1>9, <2>3, <2>4, ClientStepKept
<1> QED BY <1>8, <1>9
\* A step of a handler within its stream: it stays alive, where it is and of its version.
SameStream(h, g) ==
    /\ g.resume = h.resume /\ g.append = h.append /\ g.version = h.version /\ g.alive = h.alive
    /\ g.from = h.from /\ g.arrived = h.arrived /\ g.done = h.done /\ g.answer = h.answer
    /\ h.answer = "ready" /\ g.pc \in {"receive", "finish"} /\ (g.pc = "receive" => h.pc = "receive")

\* Such a step of the client's handler says no more of the push than it did.
LEMMA StreamStepKept ==
    ASSUME PushInv, NEW g, HandlerStep(client, g), SameStream(Client, g), late' = late,
           UnderWay /\ Fresh /\ ~g.error => ~Client.error /\ (Partial(Client.written) => Partial(g.written)')
    PROVE  PushInv'
<1>1. client \in Slot /\ Client = handler[client] /\ handler \in [Slot -> HandlerRec]
  BY DEF PushInv, PushTyped, Client
<1>2. UNCHANGED <<client, pc, version, sent, short>>
  BY DEF HandlerStep, Daemon, batchVars
<1>3. Client' = g /\ Client \in HandlerRec
  BY <1>1, <1>2 DEF HandlerStep, Client
<1>4. Phase(Client)
  BY <1>1 DEF PushInv, HandlersSound, Sound
<1>5. InProgress'
  BY <1>2, <1>3 DEF PushInv, InProgress, UnderWay, SameStream
<1>6. Contents'
  BY <1>2, <1>3 DEF PushInv, Contents, UnderWay, Fresh, SameStream
<1>7. Client.pc # "answered"
  BY <1>4 DEF Phase, SameStream
<1> QED BY <1>5, <1>6, <1>7, ClientStepKept

\* A chunk is received.
LEMMA ReceiveKept ==
    ASSUME PushInv, NEW c \in Slot, Receive(c)
    PROVE  PushInv'
<1>1. PICK h : h = handler[c]
  OBVIOUS
<1>2. /\ h \in HandlerRec /\ Sound(h) /\ Bounded(h) /\ Phase(h)
      /\ copy \in Remembered /\ cache \in Remembered /\ client \in Slot
      /\ late \in BOOLEAN /\ version \in Nat
      /\ c = client => Client = h
  BY <1>1, HandlerFacts
<1>3. PICK g : g = [h EXCEPT !.received = @ + 1]
  OBVIOUS
<1>4. h.pc = "receive" /\ ~h.error /\ h.received < h.arrived /\ Set(c, g)
      /\ Daemon /\ UNCHANGED <<copy, cache, late>>
  BY <1>1, <1>3 DEF Receive
<1>5. /\ g \in HandlerRec /\ g.received = h.received + 1 /\ g.written = h.written
      /\ g.pc = h.pc /\ g.error = h.error
      /\ g.resume = h.resume /\ g.append = h.append /\ g.version = h.version /\ g.alive = h.alive
      /\ g.from = h.from /\ g.arrived = h.arrived /\ g.done = h.done /\ g.answer = h.answer
  BY <1>2, <1>3 DEF HandlerRec
<1>6. Sound(g)' /\ SameStream(h, g)
  BY <1>2, <1>4, <1>5 DEF Sound, Bounded, Phase, SameStream, HandlerRec
<1>7. HandlerStep(c, g)
  BY <1>2, <1>4, <1>5, <1>6 DEF HandlerStep, Set
<1>8. Harmless
  BY <1>4 DEF Harmless, Partial, Trusted, Daemon, batchVars, Whole
<1>9. CASE c # client
  BY <1>7, <1>8, <1>9, LateStepKept
<1>10. CASE c = client
  <2>1. Partial(Client.written) => Partial(g.written)'
    BY <1>2, <1>4, <1>5, <1>10 DEF Partial, Daemon, batchVars
  <2> QED BY <1>2, <1>4, <1>5, <1>6, <1>7, <1>10, <2>1, StreamStepKept
<1> QED BY <1>9, <1>10

\* What is in the queue cannot be written.
LEMMA WriteErrorKept ==
    ASSUME PushInv, NEW c \in Slot, WriteError(c)
    PROVE  PushInv'
<1>1. PICK h : h = handler[c]
  OBVIOUS
<1>2. /\ h \in HandlerRec /\ Sound(h) /\ Bounded(h) /\ Phase(h)
      /\ copy \in Remembered /\ cache \in Remembered /\ client \in Slot
      /\ late \in BOOLEAN /\ version \in Nat
      /\ c = client => Client = h
  BY <1>1, HandlerFacts
<1>3. PICK g : g = [h EXCEPT !.written = h.received, !.error = TRUE]
  OBVIOUS
<1>4. h.pc \in {"receive", "finish"} /\ Set(c, g)
      /\ Daemon /\ UNCHANGED <<copy, cache, late>>
  BY <1>1, <1>3 DEF WriteError
<1>5. /\ g \in HandlerRec /\ g.received = h.received /\ g.written = h.received
      /\ g.pc = h.pc /\ g.error = TRUE
      /\ g.resume = h.resume /\ g.append = h.append /\ g.version = h.version /\ g.alive = h.alive
      /\ g.from = h.from /\ g.arrived = h.arrived /\ g.done = h.done /\ g.answer = h.answer
  BY <1>2, <1>3 DEF HandlerRec
<1>6. Sound(g)' /\ SameStream(h, g)
  BY <1>2, <1>4, <1>5 DEF Sound, Bounded, Phase, SameStream, HandlerRec
<1>7. HandlerStep(c, g)
  BY <1>2, <1>4, <1>5, <1>6 DEF HandlerStep, Set
<1>8. Harmless
  BY <1>4 DEF Harmless, Partial, Trusted, Daemon, batchVars, Whole
<1>9. CASE c # client
  BY <1>7, <1>8, <1>9, LateStepKept
<1>10. CASE c = client
  BY <1>2, <1>4, <1>5, <1>6, <1>7, <1>10, StreamStepKept
<1> QED BY <1>9, <1>10

\* The stream has been received to its end, or not.
LEMMA StreamEndsKept ==
    ASSUME PushInv, NEW c \in Slot, StreamEnds(c)
    PROVE  PushInv'
<1>1. PICK h : h = handler[c]
  OBVIOUS
<1>2. /\ h \in HandlerRec /\ Sound(h) /\ Bounded(h) /\ Phase(h)
      /\ copy \in Remembered /\ cache \in Remembered /\ client \in Slot
      /\ late \in BOOLEAN /\ version \in Nat
      /\ c = client => Client = h
  BY <1>1, HandlerFacts
<1>3. PICK g : /\ Set(c, g)
               /\ \/ h.done /\ h.received = h.arrived /\ g = [h EXCEPT !.pc = "finish"]
                  \/ (h.error \/ ~h.alive) /\ g = [h EXCEPT !.pc = "finish", !.error = TRUE]
  BY <1>1 DEF StreamEnds
<1>4. h.pc = "receive" /\ Daemon /\ UNCHANGED <<copy, cache, late>>
  BY <1>1 DEF StreamEnds
<1>5. /\ g \in HandlerRec /\ g.received = h.received /\ g.written = h.written
      /\ g.pc = "finish" /\ (g.error \/ g.error = h.error)
      /\ (~g.error => h.done /\ h.received = h.arrived) /\ (g.error => h.error \/ ~h.alive \/ h.done)
      /\ g.resume = h.resume /\ g.append = h.append /\ g.version = h.version /\ g.alive = h.alive
      /\ g.from = h.from /\ g.arrived = h.arrived /\ g.done = h.done /\ g.answer = h.answer
  BY <1>2, <1>3 DEF HandlerRec, HandlerPc
<1>6. Sound(g)' /\ SameStream(h, g)
  BY <1>2, <1>4, <1>5 DEF Sound, Bounded, Phase, SameStream, HandlerRec
<1>7. HandlerStep(c, g)
  BY <1>2, <1>3, <1>4, <1>5, <1>6 DEF HandlerStep, Set
<1>8. Harmless
  BY <1>4 DEF Harmless, Partial, Trusted, Daemon, batchVars, Whole
<1>9. CASE c # client
  BY <1>7, <1>8, <1>9, LateStepKept
<1>10. CASE c = client
  <2>1. Partial(Client.written) => Partial(g.written)'
    BY <1>2, <1>4, <1>5, <1>10 DEF Partial, Daemon, batchVars
  <2> QED BY <1>2, <1>4, <1>5, <1>6, <1>7, <1>10, <2>1, StreamStepKept
<1> QED BY <1>9, <1>10

\* A chunk written by the client's handler is the next one; one written by another
\* handler is counted, or it is what the file should hold there.
LEMMA WriteKept ==
    ASSUME PushInv, NEW c \in Slot, Write(c)
    PROVE  PushInv'
<1>1. PICK h : h = handler[c]
  OBVIOUS
<1>2. /\ h \in HandlerRec /\ Sound(h) /\ Bounded(h) /\ Phase(h)
      /\ copy \in Remembered /\ cache \in Remembered /\ client \in Slot
      /\ late \in BOOLEAN /\ version \in Nat
      /\ h.answer \in {"ready", "ok"} => copy # None
      /\ c = client => Client = h
  BY <1>1, HandlerFacts
<1>3. PICK g : g = [h EXCEPT !.written = @ + 1]
  OBVIOUS
<1>4. /\ h.pc \in {"receive", "finish"} /\ Waiting(h) > 0 /\ Set(c, g)
      /\ copy' = Known(Written(copy[1], h))
      /\ late' = (late \/ (Late(c) /\ (single \/ h.append \/ h.version # version)))
      /\ Daemon /\ UNCHANGED cache
  BY <1>1, <1>3 DEF Write
<1>5. /\ g \in HandlerRec /\ g.received = h.received /\ g.written = h.written + 1
      /\ g.pc = h.pc /\ g.error = h.error
      /\ g.resume = h.resume /\ g.append = h.append /\ g.version = h.version /\ g.alive = h.alive
      /\ g.from = h.from /\ g.arrived = h.arrived /\ g.done = h.done /\ g.answer = h.answer
  BY <1>2, <1>3 DEF HandlerRec
<1>6. h.written + 1 <= h.received
  BY <1>2, <1>4 DEF Waiting, HandlerRec
<1>7. PICK d \in Seq(Nat) : copy[1] = d /\ copy = Known(d) /\ copy # None
  BY <1>2, <1>4, RememberedFacts DEF Phase
<1>8. PICK e \in Seq(Nat) : e = Written(d, h) /\ copy' = Known(e) /\ copy' # None /\ copy'[1] = e
                            /\ copy' \in Remembered
  BY <1>2, <1>4, <1>7, WrittenType DEF Remembered, Known, None
<1>9. Sound(g)' /\ SameStream(h, g)
  BY <1>2, <1>4, <1>5, <1>6, <1>8 DEF Sound, Bounded, Phase, SameStream, HandlerRec
<1>10. late' \in BOOLEAN
  BY <1>2, <1>4
<1>11. HandlerStep(c, g)
  BY <1>2, <1>4, <1>5, <1>8, <1>9, <1>10 DEF HandlerStep, Set
<1>12. PICK at \in Nat : at = h.from + h.written + 1
  BY <1>2 DEF HandlerRec
<1>13. Size \in Nat /\ (~h.append => at = h.written + 1 /\ at \in 1..Size)
  BY <1>2, <1>6, <1>12, SizesAssumption DEF Bounded, HandlerRec
<1>14. UNCHANGED version
  BY <1>4 DEF Daemon, batchVars
<1>15. ASSUME ~h.append, h.version = version, Len(d) <= Size, \A i \in 1..Len(d) : d[i] \in {0, version}
       PROVE  /\ Len(e) <= Size /\ Len(d) <= Len(e) /\ at <= Len(e) /\ e[at] = version
              /\ \A i \in 1..Len(e) : e[i] \in {0, version}
              /\ \A i \in 1..Len(d) : d[i] = version => e[i] = version
  BY <1>2, <1>8, <1>12, <1>13, <1>15, WrittenFacts
<1>16. CASE c # client
  <2>1. CASE late'
    BY <1>11, <1>16, <2>1, LateStepKept
  <2>2. CASE ~late'
    <3>1. ~h.append /\ h.version = version /\ late' = late
      BY <1>2, <1>4, <1>16, <2>2 DEF Late
    <3>2. ASSUME NEW n \in 0..Size, Partial(n) PROVE Partial(n)'
      <4>1. /\ Len(d) <= Size /\ \A i \in 1..Len(d) : d[i] \in {0, version}
            /\ \A i \in 1..n : i <= Len(d) /\ d[i] = version
        BY <1>7, <3>2 DEF Partial
      <4>2. /\ Len(e) <= Size /\ Len(d) <= Len(e)
            /\ \A i \in 1..Len(e) : e[i] \in {0, version}
            /\ \A i \in 1..Len(d) : d[i] = version => e[i] = version
        BY <1>15, <3>1, <4>1
      <4>3. ASSUME NEW i \in 1..n PROVE i <= Len(e) /\ e[i] = version
        BY <4>1, <4>2, <4>3
      <4> QED BY <1>8, <1>14, <4>2, <4>3 DEF Partial
    <3>3. ASSUME copy = Known(Whole) PROVE copy' = Known(Whole)
      <4>1. d = Whole /\ Len(d) = Size /\ \A i \in 1..Size : d[i] = version
        BY <1>2, <1>7, <3>3, WholeFacts DEF Known
      <4>2. /\ Len(e) <= Size /\ Len(d) <= Len(e)
            /\ \A i \in 1..Len(d) : d[i] = version => e[i] = version
        BY <1>15, <3>1, <4>1
      <4>3. Len(e) = Size /\ \A i \in 1..Size : e[i] = version
        BY <1>13, <4>1, <4>2
      <4>4. e = Whole
        BY <1>2, <4>3, WholeIs
      <4> QED BY <1>8, <4>4
    <3>4. Trusted => Trusted'
      BY <1>4, <1>14 DEF Trusted, Whole
    <3>5. Harmless
      <4>1. copy = Known(Whole) => copy' = Known(Whole)'
        BY <1>14, <3>3 DEF Known, Whole
      <4> QED BY <3>1, <3>2, <3>4, <3>3, <4>1 DEF Harmless
    <3> QED BY <1>11, <1>16, <3>5, LateStepKept
  <2> QED BY <1>10, <2>1, <2>2
<1>17. CASE c = client
  <2>1. late' = late
    BY <1>2, <1>4, <1>17 DEF Late
  <2>2. ASSUME UnderWay, Fresh, Partial(h.written) PROVE Partial(g.written)'
    <3>1. ~h.append /\ h.version = version
      BY <1>2, <1>17, <2>2 DEF Bounded, Fresh, PushInv, InProgress
    <3>2. /\ Len(d) <= Size /\ \A i \in 1..Len(d) : d[i] \in {0, version}
          /\ \A i \in 1..h.written : i <= Len(d) /\ d[i] = version
      BY <1>7, <2>2 DEF Partial
    <3>3. /\ Len(e) <= Size /\ Len(d) <= Len(e) /\ at <= Len(e) /\ e[at] = version
          /\ \A i \in 1..Len(e) : e[i] \in {0, version}
          /\ \A i \in 1..Len(d) : d[i] = version => e[i] = version
      BY <1>15, <3>1, <3>2
    <3>4. ASSUME NEW i \in 1..g.written PROVE i <= Len(e) /\ e[i] = version
      <4>1. i = at \/ i \in 1..h.written
        BY <1>2, <1>5, <1>13, <3>1 DEF HandlerRec
      <4> QED BY <3>2, <3>3, <4>1
    <3> QED BY <1>8, <1>14, <3>3, <3>4 DEF Partial
  <2> QED BY <1>2, <1>5, <1>9, <1>11, <1>17, <2>1, <2>2, StreamStepKept
<1> QED BY <1>16, <1>17
\* An answer, and what the handler leaves in the cache.
LEMMA FinishPushKept ==
    ASSUME PushInv, NEW c \in Slot, FinishPush(c)
    PROVE  PushInv'
<1>1. PICK h : h = handler[c]
  OBVIOUS
<1>2. /\ h \in HandlerRec /\ Sound(h) /\ Bounded(h) /\ Phase(h)
      /\ copy \in Remembered /\ cache \in Remembered /\ client \in Slot
      /\ late \in BOOLEAN /\ version \in Nat
      /\ h.answer \in {"ready", "ok"} => copy # None
      /\ c = client => Client = h
  BY <1>1, HandlerFacts
<1>3. PICK g : g = IF h.alive
                   THEN [h EXCEPT !.pc = "answered", !.answer = IF h.error THEN "error" ELSE "ok"]
                   ELSE Gone
  OBVIOUS
<1>4. /\ h.pc = "finish" /\ Waiting(h) = 0 /\ Set(c, g)
      /\ cache' = Remember(h)
      /\ late' = (late \/ (Late(c) /\ Remember(h) \notin {cache, None, Known(Whole)}))
      /\ Daemon /\ UNCHANGED copy
  BY <1>1, <1>3 DEF FinishPush
<1>5. h.written = h.received /\ h.answer = "ready" /\ copy # None
      /\ (~h.error => h.done /\ h.received = h.arrived)
  BY <1>2, <1>4 DEF Waiting, HandlerRec, Bounded, Phase
<1>6. h.alive => /\ g \in HandlerRec /\ g.received = h.received /\ g.written = h.written
                 /\ g.pc = "answered" /\ g.error = h.error
                 /\ g.answer = (IF h.error THEN "error" ELSE "ok")
                 /\ g.resume = h.resume /\ g.append = h.append /\ g.version = h.version
                 /\ g.alive /\ g.from = h.from /\ g.arrived = h.arrived /\ g.done = h.done
  BY <1>2, <1>3 DEF HandlerRec, HandlerPc, Answers
<1>7. g \in HandlerRec /\ Sound(g)'
  <2>1. CASE h.alive
    <3>1. g \in HandlerRec /\ Bounded(g) /\ Phase(g)
      BY <1>2, <1>5, <1>6, <2>1 DEF Bounded, Phase
    <3> QED BY <1>4, <1>5, <3>1 DEF Sound, Bounded, Phase
  <2>2. CASE ~h.alive
    BY <1>3, <2>2, SizesAssumption DEF Gone, HandlerRec, HandlerPc, Answers, Sound, Bounded, Phase
  <2> QED BY <2>1, <2>2
<1>8. cache' \in Remembered
  <2>1. [i \in 1..h.received |-> h.version] \in Seq(Nat)
    BY <1>2 DEF HandlerRec
  <2>2. Remember(h) \in {cache, None, Known([i \in 1..h.received |-> h.version])}
    BY DEF Remember
  <2> QED BY <1>2, <1>4, <2>1, <2>2 DEF Remembered
<1>9. HandlerStep(c, g)
  BY <1>2, <1>4, <1>7, <1>8 DEF HandlerStep, Set
<1>10. UNCHANGED <<client, pc, version, sent, short>>
  BY <1>4 DEF Daemon, batchVars
<1>11. CASE c # client
  <2>1. late' \/ (late' = late /\ cache' \in {cache, None, Known(Whole)})
    BY <1>2, <1>4, <1>11 DEF Late
  <2>2. Known(Whole)' = Known(Whole)
    BY <1>10 DEF Known, Whole
  <2>3. late' \/ Harmless
    BY <1>4, <1>10, <2>1, <2>2 DEF Harmless, Partial, Trusted
  <2> QED BY <1>9, <1>11, <2>3, LateStepKept
<1>12. CASE c = client
  <2>1. late' = late /\ Client' = g
    BY <1>2, <1>4, <1>10, <1>12 DEF Late, Set, Client, PushInv, PushTyped
  <2>2. UnderWay => h.alive
    BY <1>2, <1>12 DEF PushInv, InProgress
  <2>3. InProgress'
    BY <1>2, <1>6, <1>10, <1>12, <2>1, <2>2 DEF PushInv, InProgress, UnderWay
  <2>4. ASSUME UnderWay, Fresh, ~h.error PROVE Partial(g.written)'
    <3>1. Partial(h.written)
      BY <1>2, <1>5, <1>12, <2>4 DEF PushInv, Contents, Fresh
    <3> QED BY <1>4, <1>6, <1>10, <2>2, <2>4, <3>1 DEF Partial
  <2>5. ASSUME pc = "confirm", Fresh, ~h.error, ~short PROVE Trusted'
    <3>1. UnderWay /\ Client = h
      BY <1>2, <1>12, <2>5 DEF UnderWay
    <3>2. h.from + h.arrived = sent /\ sent = Size /\ h.from = 0 /\ h.version = version
      BY <1>2, <1>5, <2>5, <3>1 DEF PushInv, InProgress, Bounded, Fresh
    <3>3. h.received = Size
      BY <1>2, <1>5, <2>5, <3>2, SizesAssumption DEF HandlerRec
    <3>4. cache' = Known([i \in 1..Size |-> version])
      BY <1>4, <2>5, <3>1, <3>2, <3>3 DEF Remember, Fresh
    <3> QED BY <1>10, <3>4 DEF Trusted, Whole, Known
  <2>6. Contents'
    BY <1>2, <1>6, <1>10, <1>12, <2>1, <2>2, <2>4, <2>5 DEF Contents, UnderWay, Fresh
  <2> QED BY <1>2, <1>4, <1>9, <1>12, <2>3, <2>6, ClientStepKept
<1> QED BY <1>11, <1>12

-----------------------------------------------------------------------------
(* Pushing and verifying: the client. *)

\* A step of the batch that ends the attempt, for now or for good.
LEMMA NothingUnderWay ==
    ASSUME ~UnderWay'
    PROVE  InProgress' /\ Contents'
  BY DEF InProgress, Contents, UnderWay

\* A step of the client that leaves the daemon and the last verdict alone.
ClientOnly ==
    /\ UNCHANGED <<copy, cache, late, single, version, verdict, cached>>
    /\ inline' \in Remembered /\ sent' \in Nat /\ short' \in BOOLEAN /\ unconfirmed' \in BOOLEAN
    /\ client' \in Slot /\ handler' \in [Slot -> HandlerRec]
    /\ \A c \in Slot : Sound(handler'[c])
    /\ pc \in {"push", "asked", "send", "confirm"}

\* What is left to show of such a step.
LEMMA ClientOnlyKept ==
    ASSUME PushInv, ClientOnly, InProgress', Contents', Arrival'
    PROVE  PushInv'
<1>1. PushTyped'
  BY DEF PushInv, PushTyped, ClientOnly
<1>2. HandlersSound'
  BY DEF ClientOnly, HandlersSound, Sound, Bounded, Phase
<1>3. verdict \notin {"verified", "wrongly rejected"} /\ verdict' = verdict
  BY DEF PushInv, Ended, ClientOnly
<1>4. Ended' /\ VerifiedIsStored' /\ RejectedIsWrong'
  BY <1>3 DEF Ended, VerifiedIsStored, RejectedIsWrong
<1> QED BY <1>1, <1>2, <1>4 DEF PushInv

\* A connection closed leaves a handler that goes on, or none.
LEMMA HangUpFacts ==
    ASSUME PushInv
    PROVE  /\ HangUp \in [Slot -> HandlerRec]
           /\ \A c \in Slot : Sound(HangUp[c])
<1>1. handler \in [Slot -> HandlerRec] /\ client \in Slot /\ Sound(Client) /\ Client \in HandlerRec
      /\ Client = handler[client]
  BY DEF PushInv, PushTyped, HandlersSound, Client
<1>2. Closed(Client) \in HandlerRec /\ Sound(Closed(Client))
  <2>1. CASE Client.pc \in {"gone", "answered"}
    BY <2>1, SizesAssumption
       DEF Closed, Gone, HandlerRec, HandlerPc, Answers, Sound, Bounded, Phase
  <2>2. CASE Client.pc \notin {"gone", "answered"}
    <3>1. PICK g : g = [Client EXCEPT !.alive = FALSE]
      OBVIOUS
    <3>2. /\ g \in HandlerRec /\ g.received = Client.received /\ g.written = Client.written
          /\ g.pc = Client.pc /\ g.error = Client.error /\ g.answer = Client.answer
          /\ g.resume = Client.resume /\ g.append = Client.append
          /\ g.from = Client.from /\ g.arrived = Client.arrived /\ g.done = Client.done
      BY <1>1, <3>1 DEF HandlerRec
    <3>3. Sound(g)
      BY <1>1, <3>2 DEF Sound, Bounded, Phase
    <3> QED BY <2>2, <3>1, <3>2, <3>3 DEF Closed
  <2> QED BY <2>1, <2>2
<1>3. HangUp = [handler EXCEPT ![client] = Closed(Client)]
  BY <1>1 DEF HangUp
<1> QED BY <1>1, <1>2, <1>3 DEF PushInv, HandlersSound

\* A new attempt has a handler of its own.
LEMMA BeginKept ==
    ASSUME PushInv, Begin
    PROVE  PushInv'
<1>1. /\ pc = "push" /\ pc' = "asked" /\ client' \in Slot /\ short' = FALSE
      /\ UNCHANGED <<copy, cache, late, single, version, verdict, cached, inline, sent, unconfirmed>>
  BY DEF Begin, Go, Batch, batchVars
<1>2. PICK g : g = Ask(single /\ tries > 0) /\ handler' = [HangUp EXCEPT ![client'] = g]
  BY DEF Begin
<1>3. (single /\ tries > 0) \in BOOLEAN /\ version \in Nat
  BY DEF PushInv, PushTyped
<1>4. /\ g \in HandlerRec /\ g.alive /\ g.pc = "open" /\ g.version = version /\ g.arrived = 0
      /\ ~g.done /\ g.answer = "none" /\ g.received = 0 /\ g.written = 0 /\ g.from = 0
      /\ ~g.append /\ ~g.error
  BY <1>2, <1>3 DEF Ask, HandlerRec, HandlerPc, Answers
<1>5. Sound(g)
  BY <1>4, SizesAssumption DEF Sound, Bounded, Phase
<1>6. /\ handler' \in [Slot -> HandlerRec] /\ \A c \in Slot : Sound(handler'[c])
      /\ Client' = g
  BY <1>1, <1>2, <1>4, <1>5, HangUpFacts DEF Client
<1>7. ClientOnly
  BY <1>1, <1>6 DEF ClientOnly, PushInv, PushTyped
<1>8. InProgress' /\ Contents' /\ Arrival'
  BY <1>1, <1>4, <1>6 DEF InProgress, Contents, Arrival, UnderWay
<1> QED BY <1>7, <1>8, ClientOnlyKept
\* The device is ready: its handler starts where the file ends, or at its beginning.
LEMMA ReadyKept ==
    ASSUME PushInv, Ready
    PROVE  PushInv'
<1>1. /\ pc = "asked" /\ pc' = "send" /\ Client.answer = "ready" /\ sent' = Client.from
      /\ inline' = IF Client.resume THEN inline ELSE None
      /\ UNCHANGED <<copy, handler, client, cache, late, single, version, verdict, cached, short,
                     unconfirmed>>
  BY DEF Ready, Hears, Go, Batch, batchVars
<1>2. Client' = Client /\ Client \in HandlerRec /\ Bounded(Client) /\ PushTyped
  BY <1>1 DEF Client, PushInv, PushTyped, HandlersSound, Sound
<1>3. UnderWay /\ UnderWay'
  BY <1>1 DEF UnderWay
<1>4. ClientOnly
  BY <1>1, <1>2 DEF ClientOnly, PushInv, PushTyped, HandlersSound, HandlerRec, Remembered, Client
<1>5. InProgress'
  <2>1. Client.arrived = 0 /\ ~Client.done /\ Client.alive /\ Client.pc # "gone"
        /\ Client.version = version
    BY <1>1, <1>3 DEF PushInv, InProgress
  <2>2. Client.from + Client.arrived = sent' /\ sent' <= Size
    BY <1>1, <1>2, <2>1, SizesAssumption DEF Bounded, HandlerRec
  <2> QED BY <1>1, <1>2, <2>1, <2>2 DEF InProgress
<1>6. Contents'
  BY <1>1, <1>2, <1>3 DEF PushInv, Contents, Fresh, Partial
<1>7. Arrival'
  BY <1>1 DEF Arrival
<1> QED BY <1>4, <1>5, <1>6, <1>7, ClientOnlyKept

\* An attempt that has ended without being confirmed leaves nothing to show.
LEMMA EndedAttempt ==
    ASSUME PushInv, pc \in {"asked", "send", "confirm"},
           pc' \in {"failed", "lost"} \/ (pc' = "moved" /\ unconfirmed'),
           handler' \in {handler, HangUp}, sent' = 0,
           inline' \in Remembered, unconfirmed' \in BOOLEAN,
           UNCHANGED <<copy, client, cache, late, single, version, verdict, cached, short>>
    PROVE  PushInv'
<1>1. ClientOnly
  BY HangUpFacts DEF ClientOnly, PushInv, PushTyped, HandlersSound
<1>2. InProgress' /\ Contents' /\ Arrival'
  BY DEF InProgress, Contents, Arrival, UnderWay
<1> QED BY <1>1, <1>2, ClientOnlyKept

\* So with the attempts that fail, or that nobody confirms.
LEMMA FailedKept ==
    ASSUME PushInv, Refused \/ Denied \/ Lost \/ LostUnconfirmed
    PROVE  PushInv'
<1>1. /\ inline \in Remembered /\ unconfirmed \in BOOLEAN /\ version \in Nat /\ sent \in Nat
  BY DEF PushInv, PushTyped
<1>2. CASE Refused
  BY <1>1, <1>2, EndedAttempt DEF Refused, Return, Go, Batch, batchVars
<1>3. CASE Denied
  <2>1. PICK to \in {"failed", "lost"} : Return(to)
    BY <1>3 DEF Denied
  <2> QED BY <1>1, <1>3, <2>1, EndedAttempt DEF Denied, Return, Go, Batch, batchVars
<1>4. CASE Lost
  BY <1>1, <1>4, EndedAttempt DEF Lost, Return, Go, Batch, batchVars
<1>5. CASE LostUnconfirmed
  <2>1. inline' \in Remembered
    <3>1. [i \in 1..sent |-> version] \in Seq(Nat)
      BY <1>1
    <3> QED BY <1>1, <1>5, <3>1 DEF LostUnconfirmed, Succeed, Remembered
  <2> QED BY <1>5, <2>1, EndedAttempt DEF LostUnconfirmed, Succeed, Return, Go, Batch, batchVars
<1> QED BY <1>2, <1>3, <1>4, <1>5

\* A step of the sending client adds to what its handler has, or to nothing.
SendStep(g) ==
    /\ Client.pc = "receive" => handler' = [handler EXCEPT ![client] = g]
    /\ Client.pc # "receive" => handler' = handler
    /\ g \in HandlerRec /\ Bounded(g)
    /\ g.resume = Client.resume /\ g.version = Client.version /\ g.alive = Client.alive
    /\ g.from = Client.from /\ g.answer = Client.answer /\ g.pc = Client.pc
    /\ g.written = Client.written /\ g.error = Client.error

\* What becomes of the handlers and of the client's own.
LEMMA SendStepFacts ==
    ASSUME PushInv, pc = "send", NEW g, SendStep(g), UNCHANGED client
    PROVE  /\ handler' \in [Slot -> HandlerRec] /\ \A c \in Slot : Sound(handler'[c])
           /\ Client' = (IF Client.pc = "receive" THEN g ELSE Client)
<1>1. client \in Slot /\ handler \in [Slot -> HandlerRec] /\ Client = handler[client]
      /\ Sound(Client) /\ \A c \in Slot : Sound(handler[c])
  BY DEF PushInv, PushTyped, HandlersSound, Client
<1>2. Client.pc = "receive" => Sound(g)
  BY <1>1 DEF SendStep, Sound, Phase
<1> QED BY <1>1, <1>2 DEF SendStep, Client

\* A chunk is sent.
LEMMA SendKept ==
    ASSUME PushInv, Send
    PROVE  PushInv'
<1>1. /\ pc = "send" /\ pc' = "send" /\ sent < Size /\ sent' = sent + 1
      /\ handler' = IF Client.pc = "receive" THEN [handler EXCEPT ![client].arrived = @ + 1]
                    ELSE handler
      /\ UNCHANGED <<copy, client, cache, inline, late, single, version, verdict, cached, short,
                     unconfirmed>>
  BY DEF Send, Batch, batchVars
<1>2. /\ client \in Slot /\ Client \in HandlerRec /\ Bounded(Client) /\ Client = handler[client]
      /\ handler \in [Slot -> HandlerRec] /\ sent \in Nat /\ Size \in Nat
  BY SizesAssumption DEF PushInv, PushTyped, HandlersSound, Sound, Client
<1>3. /\ Client.alive /\ Client.pc # "gone" /\ Client.version = version /\ ~Client.done
      /\ Client.answer \notin {"none", "refused"}
      /\ Client.pc = "receive" => Client.from + Client.arrived = sent
  BY <1>1 DEF PushInv, InProgress, UnderWay
<1>4. PICK g : g = IF Client.pc = "receive" THEN [Client EXCEPT !.arrived = @ + 1] ELSE Client
  OBVIOUS
<1>5. /\ g \in HandlerRec /\ Bounded(g) /\ g.done = Client.done
      /\ g.resume = Client.resume /\ g.version = Client.version /\ g.alive = Client.alive
      /\ g.from = Client.from /\ g.answer = Client.answer /\ g.pc = Client.pc
      /\ g.written = Client.written /\ g.error = Client.error
      /\ Client.pc = "receive" => g.arrived = Client.arrived + 1
  <2>1. CASE Client.pc = "receive"
    <3>1. /\ g \in HandlerRec /\ g.arrived = Client.arrived + 1 /\ g.received = Client.received
          /\ g.resume = Client.resume /\ g.version = Client.version /\ g.alive = Client.alive
          /\ g.from = Client.from /\ g.answer = Client.answer /\ g.pc = Client.pc
          /\ g.written = Client.written /\ g.error = Client.error /\ g.done = Client.done
          /\ g.append = Client.append
      BY <1>2, <1>4, <2>1 DEF HandlerRec
    <3>2. Client.from + Client.arrived + 1 <= Size
      BY <1>1, <1>2, <1>3, <2>1 DEF HandlerRec
    <3>3. Bounded(g)
      BY <1>2, <3>1, <3>2 DEF Bounded, HandlerRec
    <3> QED BY <3>1, <3>3
  <2>2. CASE Client.pc # "receive"
    BY <1>2, <1>4, <2>2
  <2> QED BY <2>1, <2>2
<1>6. SendStep(g)
  BY <1>1, <1>2, <1>4, <1>5 DEF SendStep
<1>7. /\ handler' \in [Slot -> HandlerRec] /\ \A c \in Slot : Sound(handler'[c])
      /\ Client' = g
  BY <1>1, <1>4, <1>6, SendStepFacts
<1>8. ClientOnly
  BY <1>1, <1>2, <1>7 DEF ClientOnly, PushInv, PushTyped
<1>9. InProgress'
  <2>1. sent' <= Size /\ (g.pc = "receive" => g.from + g.arrived = sent')
    BY <1>1, <1>2, <1>3, <1>5 DEF HandlerRec
  <2> QED BY <1>1, <1>3, <1>5, <1>7, <2>1 DEF InProgress
<1>10. Contents' /\ Arrival'
  BY <1>1, <1>5, <1>7 DEF PushInv, Contents, Arrival, UnderWay, Fresh, Partial
<1> QED BY <1>8, <1>9, <1>10, ClientOnlyKept

\* All is sent that there is to send.
LEMMA DoneKept ==
    ASSUME PushInv, Done
    PROVE  PushInv'
<1>1. /\ pc = "send" /\ pc' = "confirm" /\ short' = (short \/ sent < Size)
      /\ handler' = IF Client.pc = "receive" THEN [handler EXCEPT ![client].done = TRUE]
                    ELSE handler
      /\ UNCHANGED <<copy, client, cache, inline, late, single, version, verdict, cached, sent,
                     unconfirmed>>
  BY DEF Done, Go, Batch, batchVars
<1>2. /\ client \in Slot /\ Client \in HandlerRec /\ Bounded(Client) /\ Client = handler[client]
      /\ Phase(Client)
      /\ handler \in [Slot -> HandlerRec] /\ sent \in Nat /\ Size \in Nat /\ short \in BOOLEAN
  BY SizesAssumption DEF PushInv, PushTyped, HandlersSound, Sound, Client
<1>3. /\ Client.alive /\ Client.pc # "gone" /\ Client.version = version /\ ~Client.done
      /\ Client.answer \notin {"none", "refused"} /\ sent <= Size
      /\ Client.pc = "receive" => Client.from + Client.arrived = sent
  BY <1>1 DEF PushInv, InProgress, UnderWay
<1>4. PICK g : g = IF Client.pc = "receive" THEN [Client EXCEPT !.done = TRUE] ELSE Client
  OBVIOUS
<1>5. /\ g \in HandlerRec /\ Bounded(g) /\ g.arrived = Client.arrived
      /\ g.resume = Client.resume /\ g.version = Client.version /\ g.alive = Client.alive
      /\ g.from = Client.from /\ g.answer = Client.answer /\ g.pc = Client.pc
      /\ g.written = Client.written /\ g.error = Client.error
      /\ g.done => Client.pc = "receive"
  BY <1>2, <1>3, <1>4 DEF HandlerRec, Bounded
<1>6. SendStep(g)
  BY <1>1, <1>2, <1>4, <1>5 DEF SendStep
<1>7. /\ handler' \in [Slot -> HandlerRec] /\ \A c \in Slot : Sound(handler'[c])
      /\ Client' = g
  BY <1>1, <1>4, <1>6, SendStepFacts
<1>8. ClientOnly
  BY <1>1, <1>2, <1>7 DEF ClientOnly, PushInv, PushTyped
<1>9. InProgress'
  <2>1. g.done => g.from + g.arrived = sent /\ (short' \/ sent = Size)
    <3>1. g.done => g.from + g.arrived = sent
      BY <1>3, <1>5
    <3>2. sent < Size \/ sent = Size
      BY <1>2, <1>3
    <3> QED BY <1>1, <3>1, <3>2
  <2> QED BY <1>1, <1>3, <1>5, <1>7, <2>1 DEF InProgress
<1>10. g.answer # "ok"
  BY <1>2, <1>3, <1>5 DEF Phase
<1>11. Contents' /\ Arrival'
  BY <1>1, <1>5, <1>7, <1>10 DEF PushInv, Contents, Arrival, UnderWay, Fresh, Partial
<1> QED BY <1>8, <1>9, <1>11, ClientOnlyKept

\* A push that has been confirmed has arrived, whatever another handler did unseen.
LEMMA ConfirmedKept ==
    ASSUME PushInv, Confirmed
    PROVE  PushInv'
<1>1. /\ pc = "confirm" /\ pc' = "moved" /\ Client.answer = "ok" /\ sent' = 0
      /\ inline' = IF Client.resume THEN inline ELSE Known([i \in 1..sent |-> version])
      /\ UNCHANGED <<copy, handler, client, cache, late, single, version, verdict, cached, short,
                     unconfirmed>>
  BY DEF Confirmed, Hears, Succeed, Return, Go, Batch, batchVars
<1>2. /\ client \in Slot /\ Client \in HandlerRec /\ Bounded(Client) /\ Phase(Client)
      /\ Client' = Client /\ sent \in Nat /\ version \in Nat /\ Size \in Nat
      /\ inline \in Remembered /\ copy \in Remembered
  BY <1>1, SizesAssumption DEF PushInv, PushTyped, HandlersSound, Sound, Client
<1>3. inline' \in Remembered
  <2>1. [i \in 1..sent |-> version] \in Seq(Nat)
    BY <1>2
  <2> QED BY <1>1, <1>2, <2>1 DEF Remembered
<1>4. ClientOnly
  BY <1>1, <1>3 DEF ClientOnly, PushInv, PushTyped, HandlersSound
<1>5. UnderWay /\ ~UnderWay'
  BY <1>1 DEF UnderWay
<1>6. /\ Client.done /\ ~Client.error /\ Client.written = Client.arrived
      /\ Client.from + Client.arrived = sent /\ (short \/ sent = Size)
  BY <1>1, <1>2, <1>5 DEF Phase, PushInv, InProgress
<1>7. ASSUME ~Client.resume, ~short
      PROVE  Client.written = Size /\ inline' = Known(Whole)
  <2>1. sent = Size /\ Client.from = 0
    BY <1>2, <1>6, <1>7 DEF Bounded
  <2> QED BY <1>1, <1>2, <1>6, <1>7, <2>1 DEF HandlerRec, Known, Whole
<1>8. ASSUME Fresh, ~short
      PROVE  copy = Known(Whole) /\ Trusted
  <2>1. Partial(Size) /\ Trusted
    BY <1>1, <1>5, <1>6, <1>7, <1>8 DEF PushInv, Contents, Fresh
  <2>2. PICK d \in Seq(Nat) : copy[1] = d /\ copy = Known(d)
    BY <1>2, <2>1, RememberedFacts DEF Partial
  <2>3. Len(d) <= Size /\ \A i \in 1..Size : i <= Len(d) /\ d[i] = version
    BY <2>1, <2>2 DEF Partial
  <2>4. Len(d) = Size
    BY <1>2, <2>3, SizesAssumption
  <2>5. d = Whole
    BY <1>2, <2>3, <2>4, WholeIs
  <2> QED BY <2>1, <2>2, <2>5
<1>9. Known(Whole)' = Known(Whole)
  BY <1>1 DEF Known, Whole
<1>10. Arrival'
  BY <1>1, <1>2, <1>7, <1>8, <1>9 DEF Arrival, Fresh, Trusted
<1> QED BY <1>4, <1>5, <1>10, NothingUnderWay, ClientOnlyKept
-----------------------------------------------------------------------------
(* Pushing and verifying: the batch. *)

\* Where there is no handler, there is nothing to be wrong about.
LEMMA GoneFacts == Gone \in HandlerRec /\ Sound(Gone)
<1>1. Gone \in HandlerRec
  BY DEF Gone, HandlerRec, HandlerPc, Answers
<1>2. Bounded(Gone) /\ Phase(Gone) /\ Gone.answer = "none"
  BY SizesAssumption DEF Gone, Bounded, Phase
<1> QED BY <1>1, <1>2 DEF Sound

\* A step of the batch that says nothing of the file.
LEMMA SilentBatch ==
    ASSUME PushInv, pc' \in {"push", "end"}, verdict' \notin {"verified", "wrongly rejected"},
           \/ UNCHANGED <<handler, cache>>
           \/ handler' = [c \in Slot |-> Gone] /\ cache' = None,
           single' \in BOOLEAN, version' \in Nat, cached' \in BOOLEAN, short' \in BOOLEAN,
           unconfirmed' \in BOOLEAN,
           UNCHANGED <<copy, client, inline, sent, late>>
    PROVE  PushInv'
<1>1. Gone \in HandlerRec /\ Sound(Gone)
  BY GoneFacts
<1>2. handler' \in [Slot -> HandlerRec] /\ \A c \in Slot : Sound(handler'[c])
  BY <1>1 DEF PushInv, PushTyped, HandlersSound
<1>3. PushTyped'
  <2>1. cache' \in Remembered
    BY DEF PushInv, PushTyped, Remembered
  <2> QED BY <1>2, <2>1 DEF PushInv, PushTyped
<1>4. HandlersSound'
  BY <1>2 DEF HandlersSound, Sound, Bounded, Phase
<1>5. InProgress' /\ Contents' /\ Arrival'
  BY DEF InProgress, Contents, Arrival, UnderWay
<1>6. Ended' /\ VerifiedIsStored' /\ RejectedIsWrong'
  BY DEF Ended, VerifiedIsStored, RejectedIsWrong
<1> QED BY <1>3, <1>4, <1>5, <1>6 DEF PushInv

\* Retrying, giving up, doing without a verification, and the next batch.
LEMMA SilentBatchSteps ==
    ASSUME PushInv, Retry \/ GiveUp \/ Skip \/ NoAnswer \/ NextBatch
    PROVE  PushInv'
<1>1. /\ single \in BOOLEAN /\ version \in Nat /\ cached \in BOOLEAN /\ short \in BOOLEAN
      /\ unconfirmed \in BOOLEAN /\ version + 1 \in Nat
  BY DEF PushInv, PushTyped
<1>2. CASE Retry
  <2>1. verdict \notin {"verified", "wrongly rejected"}
    BY <1>2 DEF Retry, PushInv, Ended
  <2>2. \/ UNCHANGED <<handler, cache>>
        \/ handler' = [c \in Slot |-> Gone] /\ cache' = None
    BY <1>2 DEF Retry
  <2> QED BY <1>1, <1>2, <2>1, <2>2, SilentBatch DEF Retry, Go, batchVars, history
<1>3. CASE GiveUp
  BY <1>1, <1>3, SilentBatch DEF GiveUp, Decide, Go, Judged, batchVars
<1>4. CASE Skip
  BY <1>1, <1>4, SilentBatch DEF Skip, Decide, Go, Judged, batchVars
<1>5. CASE NoAnswer
  BY <1>1, <1>5, SilentBatch DEF NoAnswer, Decide, Go, Judged, batchVars
<1>6. CASE NextBatch
  <2>1. version' \in Nat
    BY <1>1, <1>6 DEF NextBatch
  <2> QED BY <1>1, <1>6, <2>1, SilentBatch DEF NextBatch, Go
<1> QED BY <1>2, <1>3, <1>4, <1>5, <1>6

\* A verification leaves the handlers and the file alone.
LEMMA VerdictKept ==
    ASSUME PushInv, pc = "moved", pc' = "end", cache' \in Remembered, cached' \in BOOLEAN,
           verdict' = "verified" => copy = Known(Whole) \/ Doubtful',
           verdict' = "wrongly rejected" => Doubtful',
           UNCHANGED <<copy, handler, client, inline, single, version, sent, short, unconfirmed,
                       late>>
    PROVE  PushInv'
<1>1. PushTyped' /\ HandlersSound'
  BY DEF PushInv, PushTyped, HandlersSound, Sound, Bounded, Phase
<1>2. InProgress' /\ Contents' /\ Arrival'
  BY DEF InProgress, Contents, Arrival, UnderWay
<1>3. ~unconfirmed => Client.answer = "ok"
  BY DEF PushInv, Arrival
<1>4. Client' = Client /\ Phase(Client)
  BY DEF PushInv, PushTyped, HandlersSound, Sound, Client
<1>5. Ended'
  BY <1>3, <1>4 DEF Ended, Phase
<1>6. VerifiedIsStored' /\ RejectedIsWrong'
  BY DEF VerifiedIsStored, RejectedIsWrong, Known, Whole
<1> QED BY <1>1, <1>2, <1>5, <1>6 DEF PushInv

\* The daemon answers with the CRC it remembers: of this push, unless it was resumed.
LEMMA FromCacheKept ==
    ASSUME PushInv, FromCache
    PROVE  PushInv'
<1>1. /\ pc = "moved" /\ pc' = "end" /\ cache # None /\ cache' = None /\ cached' = TRUE
      /\ verdict' = Judgement(cache[1])
      /\ UNCHANGED <<copy, handler, client, inline, single, version, sent, short, unconfirmed, late>>
  BY DEF FromCache, Verifies, Decide, Go, Judged, batchVars
<1>2. PushTyped /\ Arrival /\ Client' = Client
  BY <1>1 DEF PushInv, Client
<1>3. ~Doubtful' => ~Client.resume /\ ~late /\ ~short /\ ~unconfirmed
  BY <1>1, <1>2 DEF Doubtful, Stale
<1>4. ASSUME ~Doubtful' PROVE copy = Known(Whole) /\ verdict' # "wrongly rejected"
  <2>1. /\ inline = Known(Whole) /\ copy = Known(Whole) /\ cache \in {None, Known(Whole)}
    BY <1>1, <1>2, <1>3, <1>4 DEF Arrival, Fresh, Trusted
  <2>2. cache[1] = Whole /\ Local = Whole
    BY <1>1, <2>1 DEF Local, Known, None
  <2> QED BY <1>1, <2>1, <2>2 DEF Judgement
<1>5. cache' \in Remembered
  BY <1>1 DEF Remembered
<1> QED BY <1>1, <1>4, <1>5, VerdictKept

\* The daemon reads the file, and the client's CRC is of this push or there is none.
LEMMA FromFileKept ==
    ASSUME PushInv, FromFile
    PROVE  PushInv'
<1>1. /\ pc = "moved" /\ pc' = "end"
      /\ verdict' = Judgement(IF copy = None THEN None ELSE copy[1])
      /\ UNCHANGED <<copy, handler, client, inline, single, version, sent, short, unconfirmed, late,
                     cache, cached>>
  BY DEF FromFile, Verifies, Decide, Go, Judged, batchVars
<1>2. PushTyped /\ Arrival /\ Client' = Client
  BY <1>1 DEF PushInv, Client
<1>3. ~Doubtful' => ~late /\ ~short /\ ~unconfirmed /\ (Client.resume => inline = None)
  BY <1>1, <1>2 DEF Doubtful, Stale
<1>4. ASSUME ~Doubtful'
      PROVE  /\ verdict' = "verified" => copy = Known(Whole)
             /\ verdict' # "wrongly rejected"
  <2>1. Local = Whole
    <3>1. inline \in {None, Known(Whole)}
      BY <1>1, <1>2, <1>3, <1>4 DEF Arrival
    <3> QED BY <3>1 DEF Local, Known, None
  <2>2. version \in Nat /\ copy \in Remembered
    BY <1>2 DEF PushTyped
  <2>3. Whole # None
    BY <2>2, WholeFacts DEF None
  <2>4. CASE copy = None
    <3>1. verdict' = "rejected"
      <4>1. copy # Known(Whole)
        BY <2>4 DEF None, Known
      <4> QED BY <1>1, <2>1, <2>3, <2>4, <4>1 DEF Judgement
    <3> QED BY <3>1
  <2>5. CASE copy # None
    <3>1. copy = Known(copy[1]) /\ Known(Whole)[1] = Whole
      BY <2>2, <2>5, RememberedFacts
    <3>2. verdict' = IF copy[1] = Whole THEN "verified"
                     ELSE IF copy = Known(Whole) THEN "wrongly rejected" ELSE "rejected"
      BY <1>1, <2>1, <2>5 DEF Judgement
    <3>3. CASE copy[1] = Whole
      BY <3>1, <3>2, <3>3
    <3>4. CASE copy[1] # Whole
      BY <3>1, <3>2, <3>4
    <3> QED BY <3>3, <3>4
  <2> QED BY <2>4, <2>5
<1>5. cache' \in Remembered /\ cached' \in BOOLEAN
  BY <1>1, <1>2 DEF PushTyped
<1> QED BY <1>1, <1>4, <1>5, VerdictKept

\* At first there is neither a file nor a handler.
LEMMA PushInvInit == PushInit => PushInv
<1> SUFFICES ASSUME PushInit PROVE PushInv
  OBVIOUS
<1>1. Gone \in HandlerRec /\ Sound(Gone)
  BY GoneFacts
<1>2. PushTyped
  BY <1>1 DEF PushInit, PushTyped, Remembered
<1>3. HandlersSound
  BY <1>1 DEF PushInit, HandlersSound
<1>4. InProgress /\ Contents /\ Arrival /\ Ended /\ VerifiedIsStored /\ RejectedIsWrong
  BY DEF PushInit, InProgress, Contents, Arrival, Ended, UnderWay, VerifiedIsStored, RejectedIsWrong
<1> QED BY <1>2, <1>3, <1>4 DEF PushInv

\* Every step keeps it.
LEMMA PushInvNext == PushInv /\ [PushNext]_pushVars => PushInv'
<1> SUFFICES ASSUME PushInv, [PushNext]_pushVars PROVE PushInv'
  OBVIOUS
<1>1. CASE \E c \in Slot : Handle(c)
  BY <1>1, OpenKept, OpenFailsKept, ReceiveKept, WriteKept, WriteErrorKept, StreamEndsKept,
     FinishPushKept DEF Handle
<1>2. CASE Move
  BY <1>2, BeginKept, ReadyKept, FailedKept, SendKept, DoneKept, ConfirmedKept DEF Move
<1>3. CASE Judge \/ NextBatch
  BY <1>3, SilentBatchSteps, FromCacheKept, FromFileKept DEF Judge
<1>4. CASE UNCHANGED pushVars
  <2>1. UNCHANGED <<copy, handler, client, cache, inline, pc, single, version, sent, verdict,
                    cached, short, unconfirmed, late>>
    BY <1>4 DEF pushVars, batchVars, history
  <2>2. PushTyped' /\ HandlersSound' /\ Client' = Client
    BY <2>1 DEF PushInv, PushTyped, HandlersSound, Sound, Bounded, Phase, Client
  <2>3. InProgress' /\ Contents' /\ Arrival' /\ Ended'
    BY <2>1, <2>2 DEF PushInv, InProgress, Contents, Arrival, Ended, UnderWay, Fresh, Partial,
                      Trusted, Whole
  <2>4. VerifiedIsStored' /\ RejectedIsWrong'
    BY <2>1, <2>2 DEF PushInv, VerifiedIsStored, RejectedIsWrong, Doubtful, Stale, Whole
  <2> QED BY <2>2, <2>3, <2>4 DEF PushInv
<1> QED BY <1>1, <1>2, <1>3, <1>4 DEF PushNext

\* The invariant of the file, its handlers, the two remembered CRCs and the verdict.
THEOREM PushInvariance == PushSpec => []PushInv
<1>1. PushInit => PushInv
  BY PushInvInit
<1>2. PushInv /\ [PushNext]_pushVars => PushInv'
  BY PushInvNext
<1> QED BY <1>1, <1>2, PTL DEF PushSpec

\* What is reported verified is on the device, for any number of handlers given up that
\* still write, of attempts, of batches and of chunks, but for the named exceptions.
THEOREM VerifiedHasArrived == PushSpec => []VerifiedIsStored
<1>1. PushInv => VerifiedIsStored
  BY DEF PushInv
<1> QED BY <1>1, PushInvariance, PTL

\* And no intact file is reported damaged, with the same exceptions.
THEOREM DamagedIsDamaged == PushSpec => []RejectedIsWrong
<1>1. PushInv => RejectedIsWrong
  BY DEF PushInv
<1> QED BY <1>1, PushInvariance, PTL

=============================================================================
