---------------------------- MODULE AsyncWriter ----------------------------
(***************************************************************************)
(* The receive/write pipeline of the device daemon: the handler thread of  *)
(* CMD_PUSH receives RSP_DATA chunks into buffers taken from a pool, and a *)
(* writer thread pwrite()s them (afm-server.cpp, struct AsyncWriter and    *)
(* handle_push).  handle_write_range runs the same loop at a file offset   *)
(* other than 0.                                                           *)
(*                                                                         *)
(* Each pthread mutex section is one step.  A thread blocked in            *)
(* pthread_cond_wait is at "waitWork" or "waitFree"; a signal moves it     *)
(* back to the point where it tests its condition again, and so may a      *)
(* spurious wakeup.                                                        *)
(***************************************************************************)
EXTENDS Naturals, Sequences

CONSTANTS
    Buf,        \* the buffers of the pool (depth 6 in handle_push)
    StreamLen,  \* bound on the bytes the client sends
    MaxChunk,   \* bound on the payload of one RSP_DATA (BUF_SIZE)
    Unwritten,  \* content of a file position nothing was written to
    NoBuf       \* value of a buffer pointer that holds no buffer

ASSUME BufAssumption == Buf # {} /\ NoBuf \notin Buf
ASSUME LenAssumption == StreamLen \in Nat /\ MaxChunk \in Nat \ {0}
ASSUME UnwrittenAssumption == Unwritten \notin Nat

VARIABLES
    queue,      \* AsyncWriter.queue: chunks handed to the writer thread
    free,       \* AsyncWriter.free_buffers; the buffers are alike, so a set
    done,       \* AsyncWriter.done
    error,      \* AsyncWriter.error
    contents,   \* [Buf -> stream position of the first byte it holds]
    file,       \* [Positions -> stream position written there, or Unwritten]
    wpc,        \* where the writer thread is
    task,       \* the chunk it took
    written,    \* bytes of it already in the file
    rpc,        \* where the handler thread is
    recvBuf,    \* the buffer it acquired
    chunkLen,   \* payload length of the header it read
    received,   \* bytes handed to the writer thread
    failed,     \* handle_push's local "error"
    reply       \* the final response: "none", "ok", "error"

writerVars  == <<wpc, task, written>>
handlerVars == <<rpc, recvBuf, chunkLen, received, failed, reply>>
sharedVars  == <<queue, free, done, error>>
vars == <<queue, free, done, error, contents, file, wpc, task, written,
          rpc, recvBuf, chunkLen, received, failed, reply>>

Positions == 0..(StreamLen - 1)
QueuedWrite == [buf : Buf, len : 1..MaxChunk, offset : Nat]
NoTask == [buf |-> NoBuf, len |-> 0, offset |-> 0]

Init ==
    /\ queue = <<>> /\ free = {} /\ done = FALSE /\ error = FALSE
    /\ contents = [b \in Buf |-> Unwritten]
    /\ file = [p \in Positions |-> Unwritten]
    /\ wpc = "none" /\ task = NoTask /\ written = 0
    /\ rpc = "start" /\ recvBuf = NoBuf /\ chunkLen = 0
    /\ received = 0 /\ failed = FALSE /\ reply = "none"

\* pthread_cond_signal / broadcast: at most one thread waits on each condition.
SignalWork == wpc' = IF wpc = "waitWork" THEN "lock" ELSE wpc
SignalFree == rpc' = IF rpc = "waitFree" THEN "acquire" ELSE rpc

-----------------------------------------------------------------------------
(* The handler thread. *)

\* async_writer_start: all buffers allocated and the thread created.
Start ==
    /\ rpc = "start"
    /\ free' = Buf
    /\ wpc' = "lock"
    /\ rpc' = "header"
    /\ UNCHANGED <<queue, done, error, contents, file, task, written,
                   recvBuf, chunkLen, received, failed, reply>>

\* malloc or pthread_create failed: "Failed to start writer".
StartFails ==
    /\ rpc = "start"
    /\ reply' = "error"
    /\ rpc' = "replied"
    /\ UNCHANGED <<sharedVars, contents, file, writerVars,
                   recvBuf, chunkLen, received, failed>>

RecvData ==
    /\ rpc = "header"
    /\ \E len \in 1..MaxChunk :
          /\ received + len <= StreamLen
          /\ chunkLen' = len
    /\ rpc' = "acquire"
    /\ UNCHANGED <<sharedVars, contents, file, writerVars,
                   recvBuf, received, failed, reply>>

RecvDone ==
    /\ rpc = "header"
    /\ rpc' = "finish"
    /\ UNCHANGED <<sharedVars, contents, file, writerVars,
                   recvBuf, chunkLen, received, failed, reply>>

\* The connection is lost in a header or a payload, or the header is not a
\* well-formed RSP_DATA.
RecvFails ==
    /\ rpc \in {"header", "payload"}
    /\ failed' = TRUE
    /\ rpc' = "finish"
    /\ UNCHANGED <<sharedVars, contents, file, writerVars,
                   recvBuf, chunkLen, received, reply>>

Acquire ==
    /\ rpc = "acquire" /\ free # {} /\ ~error
    /\ \E b \in free : recvBuf' = b /\ free' = free \ {b}
    /\ rpc' = "payload"
    /\ UNCHANGED <<queue, done, error, contents, file, writerVars,
                   chunkLen, received, failed, reply>>

AcquireWaits ==
    /\ rpc = "acquire" /\ free = {} /\ ~error
    /\ rpc' = "waitFree"
    /\ UNCHANGED <<sharedVars, contents, file, writerVars,
                   recvBuf, chunkLen, received, failed, reply>>

AcquireFails ==
    /\ rpc = "acquire" /\ error
    /\ failed' = TRUE
    /\ rpc' = "finish"
    /\ UNCHANGED <<sharedVars, contents, file, writerVars,
                   recvBuf, chunkLen, received, reply>>

\* recv_all fills the buffer with the next bytes of the stream.
RecvPayload ==
    /\ rpc = "payload"
    /\ contents' = [contents EXCEPT ![recvBuf] = received]
    /\ rpc' = "submit"
    /\ UNCHANGED <<sharedVars, file, writerVars,
                   recvBuf, chunkLen, received, failed, reply>>

\* Mutant of Submit: the offset is advanced before the chunk is queued.
SubmitAdvancedOffset ==
    /\ rpc = "submit" /\ ~error
    /\ queue' = Append(queue, [buf |-> recvBuf, len |-> chunkLen,
                              offset |-> received + chunkLen])
    /\ SignalWork
    /\ recvBuf' = NoBuf
    /\ received' = received + chunkLen
    /\ rpc' = "header"
    /\ UNCHANGED <<free, done, error, contents, file, task, written,
                   chunkLen, failed, reply>>

Submit ==
    /\ rpc = "submit" /\ ~error
    /\ queue' = Append(queue, [buf |-> recvBuf, len |-> chunkLen, offset |-> received])
    /\ SignalWork
    /\ recvBuf' = NoBuf
    /\ received' = received + chunkLen
    /\ rpc' = "header"
    /\ UNCHANGED <<free, done, error, contents, file, task, written,
                   chunkLen, failed, reply>>

SubmitFails ==
    /\ rpc = "submit" /\ error
    /\ free' = free \cup {recvBuf}
    /\ recvBuf' = NoBuf
    /\ failed' = TRUE
    /\ rpc' = "finish"
    /\ UNCHANGED <<queue, done, error, contents, file, writerVars,
                   chunkLen, received, reply>>

Finish ==
    /\ rpc = "finish"
    /\ done' = TRUE
    /\ SignalWork
    /\ rpc' = "join"
    /\ UNCHANGED <<queue, free, error, contents, file, task, written,
                   recvBuf, chunkLen, received, failed, reply>>

\* Mutant of Join: the writer's error is not merged into the handler's.
JoinForgetsError ==
    /\ rpc = "join" /\ wpc = "exit"
    /\ rpc' = "reply"
    /\ UNCHANGED <<sharedVars, contents, file, writerVars,
                   recvBuf, chunkLen, received, failed, reply>>

Join ==
    /\ rpc = "join" /\ wpc = "exit"
    /\ failed' = (failed \/ error)
    /\ rpc' = "reply"
    /\ UNCHANGED <<sharedVars, contents, file, writerVars,
                   recvBuf, chunkLen, received, reply>>

\* async_writer_destroy frees every buffer, then the file is closed and the
\* final response sent.
Reply ==
    /\ rpc = "reply"
    /\ queue' = <<>> /\ free' = {}
    /\ reply' = IF failed THEN "error" ELSE "ok"
    /\ rpc' = "replied"
    /\ UNCHANGED <<done, error, contents, file, writerVars,
                   recvBuf, chunkLen, received, failed>>

-----------------------------------------------------------------------------
(* The writer thread. *)

\* Mutant of TakeWork: the buffer goes back to the pool before it is written.
TakeWorkReleasesEarly ==
    /\ wpc = "lock" /\ queue # <<>> /\ ~error
    /\ task' = Head(queue)
    /\ queue' = Tail(queue)
    /\ free' = free \cup {Head(queue).buf}
    /\ written' = 0
    /\ wpc' = "write"
    /\ UNCHANGED <<done, error, contents, file, handlerVars>>

TakeWork ==
    /\ wpc = "lock" /\ queue # <<>> /\ ~error
    /\ task' = Head(queue)
    /\ queue' = Tail(queue)
    /\ written' = 0
    /\ wpc' = "write"
    /\ UNCHANGED <<free, done, error, contents, file, handlerVars>>

WaitWork ==
    /\ wpc = "lock" /\ queue = <<>> /\ ~done /\ ~error
    /\ wpc' = "waitWork"
    /\ UNCHANGED <<sharedVars, contents, file, task, written, handlerVars>>

\* Mutant of WriterExits: "done" ends the thread with chunks still queued.
WriterExitsWhenDone ==
    /\ wpc = "lock" /\ (done \/ error)
    /\ wpc' = "exit"
    /\ UNCHANGED <<sharedVars, contents, file, task, written, handlerVars>>

WriterExits ==
    /\ wpc = "lock" /\ ((done /\ queue = <<>>) \/ error)
    /\ wpc' = "exit"
    /\ UNCHANGED <<sharedVars, contents, file, task, written, handlerVars>>

\* One pwrite() may store fewer bytes than asked for.
WriteSome ==
    /\ wpc = "write" /\ written < task.len
    /\ \E n \in 1..(task.len - written) :
          LET first == task.offset + written
              Hit(p) == first <= p /\ p < first + n
          IN /\ file' = [p \in Positions |->
                           IF Hit(p) THEN contents[task.buf] + (p - task.offset) ELSE file[p]]
             /\ written' = written + n
    /\ UNCHANGED <<sharedVars, contents, wpc, task, handlerVars>>

\* Mutant of WriteFails: a handler waiting for a buffer is not woken.
WriteFailsSilently ==
    /\ wpc = "write" /\ written < task.len
    /\ error' = TRUE
    /\ wpc' = "exit"
    /\ UNCHANGED <<queue, free, done, contents, file, task, written, handlerVars>>

WriteFails ==
    /\ wpc = "write" /\ written < task.len
    /\ error' = TRUE
    /\ SignalFree
    /\ wpc' = "exit"
    /\ UNCHANGED <<queue, free, done, contents, file, task, written,
                   recvBuf, chunkLen, received, failed, reply>>

Release ==
    /\ wpc = "write" /\ written = task.len
    /\ free' = free \cup {task.buf}
    /\ SignalFree
    /\ wpc' = "lock"
    /\ UNCHANGED <<queue, done, error, contents, file, task, written,
                   recvBuf, chunkLen, received, failed, reply>>

\* POSIX allows pthread_cond_wait to return without a signal.
SpuriousWakeup ==
    /\ \/ wpc = "waitWork" /\ wpc' = "lock" /\ UNCHANGED rpc
       \/ rpc = "waitFree" /\ rpc' = "acquire" /\ UNCHANGED wpc
    /\ UNCHANGED <<sharedVars, contents, file, task, written,
                   recvBuf, chunkLen, received, failed, reply>>

-----------------------------------------------------------------------------
Handler ==
    \/ Start \/ StartFails \/ RecvData \/ RecvDone \/ RecvFails
    \/ Acquire \/ AcquireWaits \/ AcquireFails \/ RecvPayload
    \/ Submit \/ SubmitFails \/ Finish \/ Join \/ Reply

Writer == TakeWork \/ WaitWork \/ WriterExits \/ WriteSome \/ WriteFails \/ Release

Next == Handler \/ Writer \/ SpuriousWakeup

\* Both threads keep running.  That the handler leaves recv_all is the
\* client's doing: it sends the next message or the connection breaks.
Fairness == WF_vars(Handler) /\ WF_vars(Writer)

Spec == Init /\ [][Next]_vars /\ Fairness

-----------------------------------------------------------------------------
TypeOK ==
    /\ queue \in Seq(QueuedWrite)
    /\ free \subseteq Buf
    /\ done \in BOOLEAN /\ error \in BOOLEAN
    /\ contents \in [Buf -> Nat \cup {Unwritten}]
    /\ file \in [Positions -> Nat \cup {Unwritten}]
    /\ wpc \in {"none", "lock", "waitWork", "write", "exit"}
    /\ task \in QueuedWrite \cup {NoTask}
    /\ wpc = "write" => task \in QueuedWrite
    /\ written \in 0..task.len
    /\ rpc \in {"start", "header", "acquire", "waitFree", "payload", "submit",
                "finish", "join", "reply", "replied"}
    /\ recvBuf \in Buf \cup {NoBuf}
    /\ rpc \in {"payload", "submit"} => recvBuf \in Buf
    /\ chunkLen \in 0..MaxChunk
    /\ rpc \in {"acquire", "waitFree", "payload", "submit"} => chunkLen > 0
    /\ received \in Nat
    /\ failed \in BOOLEAN
    /\ reply \in {"none", "ok", "error"}

\* A buffer has one owner at a time: the pool, the handler, the queue or the
\* writer thread.  The handler's recv_all overwrites its buffer, so a buffer
\* in two hands would be rewritten while it is being written to the file.
BufferOwnership ==
    /\ \A i, j \in 1..Len(queue) : queue[i].buf = queue[j].buf => i = j
    /\ \A i \in 1..Len(queue) : queue[i].buf \notin free
    /\ rpc \in {"payload", "submit"} =>
          recvBuf \notin free /\ \A i \in 1..Len(queue) : queue[i].buf # recvBuf
    /\ wpc = "write" =>
          /\ task.buf \notin free
          /\ \A i \in 1..Len(queue) : queue[i].buf # task.buf
          /\ rpc \in {"payload", "submit"} => recvBuf # task.buf

\* The bytes of a chunk the writer has yet to store are still the ones the
\* handler received for that offset.
ChunksIntact ==
    /\ \A i \in 1..Len(queue) : contents[queue[i].buf] = queue[i].offset
    /\ wpc = "write" => contents[task.buf] = task.offset

\* RSP_OK is sent only when every received byte is in the file, at its place.
OkMeansStored ==
    reply = "ok" => \A p \in 0..(received - 1) : file[p] = p

\* The two threads never wait for each other: a handler waiting for a free
\* buffer always has a writer thread at work that will return one or fail.
NoMutualWait == ~(rpc = "waitFree" /\ wpc \in {"waitWork", "exit"})

\* Every upload is answered: whatever fails, the handler leaves its wait, joins
\* the writer thread and sends the final response.
Answered == <>(rpc = "replied")

\* The pipeline implements the promise of an upload.
Promise == INSTANCE Upload WITH received <- received, file <- file, reply <- reply
Implements == Promise!Spec
=============================================================================
