----------------------------- MODULE PushVerify -----------------------------
(***************************************************************************)
(* Pushing a file to the device again and again, and what its verification *)
(* is worth.  The daemon has a thread per connection, so when the client   *)
(* gives a connection up its handler goes on with what it has, beside the  *)
(* handler of the next attempt.  A verification compares two remembered    *)
(* CRCs where it can: the daemon's of the last push, good for one question,*)
(* and the client's of its last transfer.                                  *)
(*                                                                         *)
(* Each batch copies the same local file to the same path.  A parallel     *)
(* batch pushes it anew over a new connection; a single-channel batch      *)
(* resumes, after it has restarted the server if the connection was lost.  *)
(* The contents of a file is the sequence of its chunks, a chunk being the *)
(* version of the local file it is from (0 for a hole), and stands for its *)
(* CRC as well.                                                            *)
(***************************************************************************)
EXTENDS Naturals, Sequences

CONSTANTS
    Size,           \* the chunks of the local file
    Depth,          \* AsyncWriter's buffers (6 in the code)
    MaxTries,       \* attempts of a batch (3 and 10 in the code)
    MaxBatches,     \* bound: batches
    Slot            \* the connections there can be handlers of at once

ASSUME SizesAssumption == {Size, Depth, MaxTries, MaxBatches} \subseteq Nat \ {0} /\ Slot # {}

VARIABLES
    copy,           \* the file on the device
    handler,        \* the daemon's handlers, one per connection
    client,         \* the connection of the latest attempt; the others are given up
    cache,          \* g_cached_crc of this path; None: not valid, or of another
    inline,         \* m_inlineCrc with m_inlineCrcPath
    pc,             \* where the batch is
    single,         \* it is a single-channel batch
    verify,         \* m_prefs.enableCrcVerification
    version,        \* the local file's
    sent,           \* chunks of it handed to the connection
    tries, batches,
    verdict,        \* what the verification said, and whether the file was right
    cached,         \* history: the daemon answered with its remembered CRC
    short,          \* history: the local file could not be read to its end
    unconfirmed,    \* history: the push ended without the device's answer
    late            \* history: a handler given up has spoiled the file after all

batchVars == <<single, verify, version, batches>>
history == <<cached, short, unconfirmed, late>>
pushVars == <<copy, handler, client, cache, inline, pc, batchVars, sent, tries, verdict, history>>

None == <<>>
Known(crc) == <<crc>>
Whole == [i \in 1..Size |-> version]

Gone ==
    [pc |-> "gone", resume |-> FALSE, append |-> FALSE, version |-> 0, alive |-> FALSE,
     answer |-> "none", from |-> 0, arrived |-> 0, done |-> FALSE, received |-> 0,
     written |-> 0, error |-> FALSE]
Ask(resume) ==
    [pc |-> "open", resume |-> resume, append |-> FALSE, version |-> version, alive |-> TRUE,
     answer |-> "none", from |-> 0, arrived |-> 0, done |-> FALSE, received |-> 0,
     written |-> 0, error |-> FALSE]

Client == handler[client]
Hears(answer) == Client.alive /\ Client.answer = answer

PushInit ==
    /\ copy = None /\ handler = [c \in Slot |-> Gone] /\ client \in Slot
    /\ cache = None /\ inline = None
    /\ pc = "end" /\ single = FALSE /\ verify = FALSE /\ version = 1
    /\ sent = 0 /\ tries = 0 /\ batches = 0 /\ verdict = "none"
    /\ cached = FALSE /\ short = FALSE /\ unconfirmed = FALSE /\ late = FALSE

-----------------------------------------------------------------------------
(* The daemon: handle_push, handle_resume_push. *)

Daemon == UNCHANGED <<client, inline, pc, batchVars, sent, tries, verdict, cached, short, unconfirmed>>
Set(c, h) == handler' = [handler EXCEPT ![c] = h]
Late(c) == c # client

Stored == IF copy = None THEN 0 ELSE Len(copy[1])

\* open(O_TRUNC), or, to resume behind what is there, open(O_APPEND).  The answer
\* may fail, if the client has gone, and then the handler returns.
Open(c) ==
    LET h == handler[c]
        append == h.resume /\ Stored \in 1..(Size - 1)
        from == IF append THEN Stored ELSE 0
        opened == [h EXCEPT !.pc = "receive", !.append = append, !.from = from, !.answer = "ready"]
    IN /\ h.pc = "open"
       /\ copy' = IF append THEN copy ELSE Known(<<>>)
       /\ late' = IF Late(c) THEN TRUE ELSE late /\ h.resume
       /\ \/ Set(c, opened)
          \/ ~h.alive /\ Set(c, Gone)
       /\ Daemon /\ UNCHANGED cache

OpenFails(c) ==
    /\ handler[c].pc = "open"
    /\ Set(c, IF handler[c].alive THEN [handler[c] EXCEPT !.pc = "answered", !.answer = "refused"] ELSE Gone)
    /\ Daemon /\ UNCHANGED <<copy, cache, late>>

\* The chunks received and not yet written wait for the writer in their order.
Waiting(h) == h.received - h.written
Receive(c) ==
    LET h == handler[c] IN
    /\ h.pc = "receive" /\ ~h.error /\ h.received < h.arrived
    /\ Waiting(h) < IF h.resume THEN 1 ELSE Depth
    /\ Set(c, [h EXCEPT !.received = @ + 1])
    /\ Daemon /\ UNCHANGED <<copy, cache, late>>

\* A pwrite at a position leaves a hole in front of it, but with O_APPEND it goes to
\* the end.
Written(data, h) ==
    IF h.append THEN Append(data, h.version)
    ELSE LET at == h.from + h.written + 1
             last == IF at > Len(data) THEN at ELSE Len(data)
         IN [i \in 1..last |-> IF i = at THEN h.version ELSE IF i <= Len(data) THEN data[i] ELSE 0]

Write(c) ==
    LET h == handler[c] IN
    /\ h.pc \in {"receive", "finish"} /\ Waiting(h) > 0
    /\ copy' = Known(Written(copy[1], h))
    /\ late' = (late \/ (Late(c) /\ (single \/ h.append \/ h.version # version)))
    /\ Set(c, [h EXCEPT !.written = @ + 1])
    /\ Daemon /\ UNCHANGED cache

WriteError(c) ==
    LET h == handler[c] IN
    /\ h.pc \in {"receive", "finish"} /\ Waiting(h) > 0
    /\ Set(c, [h EXCEPT !.written = h.received, !.error = TRUE])
    /\ Daemon /\ UNCHANGED <<copy, cache, late>>

\* RSP_DONE, or the connection ends, or the writer has failed.
StreamEnds(c) ==
    LET h == handler[c] IN
    /\ h.pc = "receive"
    /\ \/ h.done /\ h.received = h.arrived /\ Set(c, [h EXCEPT !.pc = "finish"])
       \/ (h.error \/ ~h.alive) /\ Set(c, [h EXCEPT !.pc = "finish", !.error = TRUE])
    /\ Daemon /\ UNCHANGED <<copy, cache, late>>

\* Mutant of Remember: a CRC that is valid still, of the push before, is left alone.
RememberOnce(h) ==
    IF h.resume \/ (~h.error /\ cache # None) THEN cache
    ELSE IF h.error THEN None ELSE Known([i \in 1..h.received |-> h.version])

\* What the handler leaves in the cache.
Remember(h) ==
    IF h.resume THEN cache
    ELSE IF h.error THEN None ELSE Known([i \in 1..h.received |-> h.version])

\* Mutant of FinishPush: what the writer thread reports is not looked at.
FinishPushForgets(c) ==
    LET h == [handler[c] EXCEPT !.error = FALSE] IN
    /\ h.pc = "finish" /\ Waiting(h) = 0
    /\ cache' = Remember(h)
    /\ Set(c, IF h.alive THEN [h EXCEPT !.pc = "answered", !.answer = "ok"] ELSE Gone)
    /\ late' = (late \/ (Late(c) /\ Remember(h) \notin {cache, None, Known(Whole)}))
    /\ Daemon /\ UNCHANGED copy

FinishPush(c) ==
    LET h == handler[c] IN
    /\ h.pc = "finish" /\ Waiting(h) = 0
    /\ cache' = Remember(h)
    /\ Set(c, IF h.alive
              THEN [h EXCEPT !.pc = "answered", !.answer = IF h.error THEN "error" ELSE "ok"]
              ELSE Gone)
    /\ late' = (late \/ (Late(c) /\ Remember(h) \notin {cache, None, Known(Whole)}))
    /\ Daemon /\ UNCHANGED copy

Handle(c) ==
    Open(c) \/ OpenFails(c) \/ Receive(c) \/ Write(c) \/ WriteError(c) \/ StreamEnds(c) \/ FinishPush(c)

-----------------------------------------------------------------------------
(* The client: pushFile and resumePushFile. *)

Batch == UNCHANGED <<batchVars, verdict, cached, late>>
Go(to) == pc' = to
Return(to) == Go(to) /\ sent' = 0

\* The connection is closed: its handler finds out when it has read what arrived.
Closed(h) == IF h.pc \in {"gone", "answered"} THEN Gone ELSE [h EXCEPT !.alive = FALSE]
HangUp == [handler EXCEPT ![client] = Closed(@)]

Begin ==
    /\ pc = "push"
    /\ client' \in {c \in Slot : HangUp[c] = Gone}
    /\ handler' = [HangUp EXCEPT ![client'] = Ask(single /\ tries > 0)]
    /\ tries' = tries + 1 /\ Go("asked") /\ short' = FALSE
    /\ Batch /\ UNCHANGED <<copy, cache, inline, sent, unconfirmed>>

\* A push forgets the CRC of the transfer before, a resumed one does not.
Ready ==
    /\ pc = "asked" /\ Hears("ready")
    /\ inline' = IF Client.resume THEN inline ELSE None
    /\ sent' = Client.from /\ Go("send")
    /\ Batch /\ UNCHANGED <<copy, handler, client, cache, tries, short, unconfirmed>>

Refused ==
    /\ pc = "asked" /\ Hears("refused")
    /\ Return("failed")
    /\ Batch /\ UNCHANGED <<copy, handler, client, cache, inline, tries, short, unconfirmed>>

Send ==
    /\ pc = "send" /\ sent < Size
    /\ sent' = sent + 1
    /\ handler' = IF Client.pc = "receive" THEN [handler EXCEPT ![client].arrived = @ + 1] ELSE handler
    /\ Batch /\ UNCHANGED <<copy, client, cache, inline, pc, tries, short, unconfirmed>>

\* All is sent, or the local file yields no more, which a push takes for its end
\* once a chunk has been sent, and a resumed one at once.
Done ==
    /\ pc = "send" /\ (sent > 0 \/ Client.resume)
    /\ short' = (short \/ sent < Size)
    /\ handler' = IF Client.pc = "receive" THEN [handler EXCEPT ![client].done = TRUE] ELSE handler
    /\ Go("confirm")
    /\ Batch /\ UNCHANGED <<copy, client, cache, inline, sent, tries, unconfirmed>>

\* Success, once the stream has been sent, unless the device says otherwise.
Succeed ==
    /\ inline' = IF Client.resume THEN inline ELSE Known([i \in 1..sent |-> version])
    /\ Return("moved")

Confirmed ==
    /\ pc = "confirm" /\ Hears("ok")
    /\ Succeed
    /\ Batch /\ UNCHANGED <<copy, handler, client, cache, tries, short, unconfirmed>>

\* Chunks the handler has not read would be taken for requests: the connection
\* counts as lost.
Denied ==
    /\ pc = "confirm" /\ Hears("error")
    /\ Return(IF single /\ Client.received = Client.arrived THEN "failed" ELSE "lost")
    /\ Batch /\ UNCHANGED <<copy, handler, client, cache, inline, tries, short, unconfirmed>>

\* The connection breaks or an answer is ten seconds late.
Lost ==
    /\ pc \in {"asked", "send"}
    /\ handler' = HangUp /\ Return("lost")
    /\ Batch /\ UNCHANGED <<copy, client, cache, inline, tries, short, unconfirmed>>

LostUnconfirmed ==
    /\ pc = "confirm"
    /\ handler' = HangUp /\ unconfirmed' = TRUE
    /\ Succeed
    /\ Batch /\ UNCHANGED <<copy, client, cache, tries, short>>

-----------------------------------------------------------------------------
(* The batch. *)

Decide(v) == verdict' = v /\ Go("end")
Judged == UNCHANGED <<copy, handler, client, inline, batchVars, sent, tries, short, unconfirmed, late>>

\* A single-channel batch that has lost the connection restarts the server, and
\* with it ends every handler and the cache.
Retry ==
    /\ pc \in {"failed", "lost"} /\ tries < MaxTries
    /\ IF single /\ pc = "lost" THEN handler' = [c \in Slot |-> Gone] /\ cache' = None
       ELSE UNCHANGED <<handler, cache>>
    /\ Go("push")
    /\ UNCHANGED <<copy, client, inline, batchVars, sent, tries, verdict, history>>

\* The attempts are used up, or the device has refused the path.
GiveUp ==
    /\ \/ pc \in {"failed", "lost"} /\ tries = MaxTries
       \/ pc = "failed" /\ ~single
    /\ Decide("failed") /\ Judged /\ UNCHANGED <<cache, cached>>

\* A single-channel batch verifies over the connection it has pushed over.
Skip ==
    /\ pc = "moved" /\ (~verify \/ (single /\ unconfirmed))
    /\ Decide("unverified") /\ Judged /\ UNCHANGED <<cache, cached>>

\* verifyFileCrc: the client's own CRC is the remembered one, of whatever version.
Local == IF inline = None THEN Whole ELSE inline[1]
Judgement(remote) ==
    IF remote = Local THEN "verified" ELSE IF copy = Known(Whole) THEN "wrongly rejected" ELSE "rejected"

Verifies == pc = "moved" /\ verify /\ ~(single /\ unconfirmed)

\* handle_crc32.
FromCache ==
    /\ Verifies /\ cache # None
    /\ cache' = None /\ cached' = TRUE
    /\ Decide(Judgement(cache[1])) /\ Judged

FromFile ==
    /\ Verifies /\ cache = None
    /\ Decide(Judgement(IF copy = None THEN None ELSE copy[1])) /\ Judged /\ UNCHANGED <<cache, cached>>

\* The question or its answer is lost.
NoAnswer == Verifies /\ Decide("failed") /\ Judged /\ UNCHANGED <<cache, cached>>

\* Another batch, of any kind; the local file may have been edited.
NextBatch ==
    /\ pc = "end" /\ batches < MaxBatches
    /\ batches' = batches + 1 /\ version' \in {version, version + 1}
    /\ single' \in BOOLEAN /\ verify' \in BOOLEAN
    /\ tries' = 0 /\ verdict' = "none" /\ cached' = FALSE /\ short' = FALSE /\ unconfirmed' = FALSE
    /\ Go("push")
    /\ UNCHANGED <<copy, handler, client, cache, inline, sent, late>>

-----------------------------------------------------------------------------
Move == Begin \/ Ready \/ Refused \/ Send \/ Done \/ Confirmed \/ Denied \/ Lost \/ LostUnconfirmed
Judge == Retry \/ GiveUp \/ Skip \/ FromCache \/ FromFile \/ NoAnswer
PushNext == (\E c \in Slot : Handle(c)) \/ Move \/ Judge \/ NextBatch

PushSpec == PushInit /\ [][PushNext]_pushVars

-----------------------------------------------------------------------------
(* Properties *)

\* verifyFileCrc after a resumed push, which leaves the client with the CRC of an
\* earlier transfer (and the daemon too).
Stale == Client.resume /\ (inline # None \/ cached)

\* What a verification cannot tell, or tells wrongly, in this code.
Doubtful == short \/ late \/ unconfirmed \/ Stale

\* A file reported verified is on the device as it is on the PC, over every
\* interleaving of the push with the handlers of pushes given up, unless the local
\* file could not be read to its end, an older handler got to the file or the cache
\* behind this push, or the push was never confirmed and a cached CRC answers for it.
\* (What a cached CRC is worth: handle_push sets and clears it, handle_crc32 uses it.)
VerifiedIsStored == verdict = "verified" => copy = Known(Whole) \/ Doubtful

\* A file that arrived intact is not reported damaged, with the same exceptions: no
\* CRC, of the device or the client, is left from a push that the last one replaced.
RejectedIsWrong == verdict = "wrongly rejected" => Doubtful

\* "Verify file integrity (CRC32) after transfer" (app.cpp:9020), "Computes CRC32 on
\* both sides after each file" (9022): a file reported verified is the whole of the
\* local one.  The code takes the CRC of what it could read (pushFile, the inline
\* CRC), so a local file that cannot be read to its end is cut short and verified:
\* the code does not keep it, see the README.
VerifiedIsWhole ==
    verdict = "verified" /\ ~late /\ ~unconfirmed /\ ~Stale => copy = Known(Whole)

=============================================================================
