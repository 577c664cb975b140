----------------------------- MODULE DokanDrive -----------------------------
(***************************************************************************)
(* The device mounted as a Windows drive: the Dokan callbacks of one       *)
(* mount, their write buffers, their cache of the directory listing and    *)
(* their read-ahead cache.  Callbacks of different programs run on         *)
(* different threads (SingleThread = FALSE); each section under a mutex of *)
(* DokanContext is one step, and so is each command to the device; what a  *)
(* callback does without a mutex before one of them counts to it, but for  *)
(* FsWriteFile, whose path is taken long before its command.               *)
(*                                                                         *)
(* One directory is modelled.  A file is a sequence of blocks.  Every write *)
(* carries one block, numbered by the writes, so no two are alike; Old is  *)
(* what a block held before, Zero stands where nothing was written.        *)
(* Every command to the device may fail: the connection is shared with the *)
(* application and may be lost at any time.                                *)
(***************************************************************************)
EXTENDS Integers, Sequences, FiniteSets, SequencesExt

CONSTANTS
    Program,        \* the Windows programs that use the drive, one open file each
    Path,           \* the names in the directory
    Old, Zero,      \* what a block holds that no write put there
    Absent,         \* there is no such file
    FlushSize,      \* WriteBuffer::FLUSH_SIZE, in blocks
    ReadAhead,      \* READ_AHEAD_SIZE, in blocks
    MaxCaches,      \* MAX_READ_CACHES
    MaxLength,      \* bound: blocks in a file
    MaxWrites,      \* bound: how many blocks the programs write
    MaxCalls,       \* bound: how many times they open, look and fetch
    MaxFaults       \* bound: how many commands to the device fail

ASSUME SizesAssumption ==
    /\ FlushSize \in Nat \ {0} /\ ReadAhead \in Nat \ {0} /\ MaxCaches \in Nat \ {0}
    /\ MaxLength \in Nat \ {0} /\ MaxWrites \in Nat /\ MaxCalls \in Nat /\ MaxFaults \in Nat

Byte == 1..MaxWrites \cup {Old, Zero}

ASSUME NamesAssumption ==
    /\ Absent \notin Path /\ Absent \notin Seq(Byte)
    /\ Old \notin Nat /\ Zero \notin Nat \cup {Old}

VARIABLES
    device,     \* the files on the device, per path
    buffers,    \* writeBuffers: a function from the paths that have one
    listing,    \* dirCache of the directory: a set of one listing, or of none
    caches,     \* readCaches, the least recently used first
    pc,         \* per program: between calls ("out", "in") or inside one
    handle,     \* the file it has open and what CreateFile was asked for
    taken,      \* the write buffer its Cleanup has taken out of the map
    given,      \* the path, offset and block its WriteFile was called with
    fetched,    \* what its ReadFile has just received from the device
    calls, writes, faults,      \* the bounded counters
    acked,      \* history: per path, what WriteFile last acknowledged for a block
    harmed      \* history: the paths of which the code gives data up, see Harm

vars == <<device, buffers, listing, caches, pc, handle, taken, given, fetched,
          calls, writes, faults, acked, harmed>>

Kind == {"read", "open", "create", "overwrite", "overwriteIf"}
NoHandle == [path |-> Absent, write |-> FALSE, new |-> FALSE, doomed |-> FALSE]
Nothing == [path |-> Absent, off |-> 0, data |-> <<>>]
NewBuffer == [off |-> 0, data |-> <<>>, sequential |-> TRUE]

Init ==
    /\ device \in [Path -> {Absent, <<Old>>}]
    /\ listing = {} /\ buffers = <<>> /\ caches = <<>>
    /\ pc = [u \in Program |-> "out"]
    /\ handle = [u \in Program |-> NoHandle]
    /\ taken = [u \in Program |-> Nothing]
    /\ given = [u \in Program |-> Nothing]
    /\ fetched = [u \in Program |-> Nothing]
    /\ calls = 0 /\ writes = 0 /\ faults = 0
    /\ acked = [p \in Path |-> <<>>]
    /\ harmed = {}

-----------------------------------------------------------------------------
(* Files and the commands to the device. *)

With(f, x, v) == [y \in DOMAIN f \cup {x} |-> IF y = x THEN v ELSE f[y]]
Without(f, x) == [y \in DOMAIN f \ {x} |-> f[y]]

Exists(p) == device[p] # Absent
Content(file) == IF file = Absent THEN <<>> ELSE file

\* Data put into a file at an offset; a gap behind the end reads as zero.
Splice(file, off, data) ==
    LET old == Content(file)
        end == off + Len(data)
    IN [i \in 1..(IF end > Len(old) THEN end ELSE Len(old)) |->
           IF i \in off+1..end THEN data[i - off]
           ELSE IF i <= Len(old) THEN old[i] ELSE Zero]

\* A command is confirmed, or it fails within the bound.
Confirmed == UNCHANGED faults
Fails == faults < MaxFaults /\ faults' = faults + 1

\* What writeRange can make of a file: all is stored and confirmed, or it is
\* not confirmed and any beginning of it is stored.
WriteRange(file, off, data) ==
    {[file |-> Splice(file, off, data), ok |-> TRUE]}
    \cup {[file |-> file, ok |-> FALSE]}
    \cup {[file |-> Splice(file, off, SubSeq(data, 1, n)), ok |-> FALSE] : n \in 0..Len(data)}

Outcome(result) == IF result.ok THEN Confirmed ELSE Fails

\* getDir: the cached listing, a new one, or, when the request fails, an empty
\* one that is cached like any other.
Listings == [names : SUBSET Path, failed : BOOLEAN]
Answers == IF listing # {} THEN listing
           ELSE {[names |-> {p \in Path : Exists(p)}, failed |-> FALSE],
                 [names |-> {}, failed |-> TRUE]}
Look(seen) ==
    /\ seen \in Answers
    /\ listing' = {seen}
    /\ IF listing = {} /\ seen.failed THEN Fails ELSE Confirmed

\* The listing is five seconds old.
Expire ==
    /\ listing # {} /\ listing' = {}
    /\ UNCHANGED <<device, buffers, caches, pc, handle, taken, given, fetched, calls, writes, faults, acked, harmed>>

\* FsGetFileInformation, FsFindFiles: they look, and change nothing else; with
\* a cached listing they change nothing at all.
GetInformation(u) ==
    /\ pc[u] \in {"out", "in"} /\ listing = {} /\ calls < MaxCalls
    /\ \E seen \in Answers : Look(seen)
    /\ calls' = calls + 1
    /\ UNCHANGED <<device, buffers, caches, pc, handle, taken, given, fetched, writes, acked, harmed>>

\* Mutant: a full buffer is kept until it is more than full.
NeedsFlushLate(b) == Len(b.data) > FlushSize \/ ~b.sequential

-----------------------------------------------------------------------------
(* WriteBuffer. *)

NeedsFlush(b) == Len(b.data) >= FlushSize \/ ~b.sequential

\* flushWriteBuffer: the data goes out, whatever becomes of it, and "sequential"
\* stays as it is.
Flushed(b) == [b EXCEPT !.data = <<>>]
Flushing(b, file) ==
    IF b.data = <<>> THEN {[file |-> file, ok |-> TRUE]} ELSE WriteRange(file, b.off, b.data)

Start(b, off) == IF b.data = <<>> THEN off ELSE b.off
Continues(b, off) == off = Start(b, off) + Len(b.data)
Inside(b, off, data) ==
    /\ off >= Start(b, off)
    /\ off + Len(data) <= Start(b, off) + Len(b.data)

\* WriteBuffer::write.  A range that neither continues the buffer nor lies
\* inside it takes its place, and what the buffer held is gone.
Written(b, off, data) ==
    IF Continues(b, off)
    THEN [b EXCEPT !.off = Start(b, off), !.data = @ \o data]
    ELSE IF Inside(b, off, data)
    THEN [b EXCEPT !.data = Splice(@, off - b.off, data)]
    ELSE [off |-> off, data |-> data, sequential |-> FALSE]

Discards(b, off, data) ==
    b.data # <<>> /\ ~Continues(b, off) /\ ~Inside(b, off, data)

Buffered(p) == p \in DOMAIN buffers /\ buffers[p].data # <<>>
OnItsWay(p) == \E u \in Program : taken[u].path = p /\ taken[u].data # <<>>

\* The paths on which acknowledged data may be lost from this step on.
Harm(p, if) == harmed' = IF if THEN harmed \cup {p} ELSE harmed

-----------------------------------------------------------------------------
(* FsCreateFile. *)

Open(u, p, kind, seen) ==
    /\ pc[u] = "out" /\ calls < MaxCalls
    /\ Look(seen)
    /\ calls' = calls + 1
    /\ LET found == p \in seen.names
           refused == ~found /\ kind \notin {"create", "overwriteIf"}
           truncates == ~found \/ kind \in {"overwrite", "overwriteIf"}
       IN /\ pc' = [pc EXCEPT ![u] = IF refused THEN "out"
                                     ELSE IF kind = "read" THEN "in"
                                     ELSE IF truncates THEN "create" ELSE "register"]
          /\ handle' = IF refused THEN handle
                       ELSE [handle EXCEPT ![u] = [path |-> p, write |-> kind # "read",
                                                    new |-> kind = "create" /\ ~found, doomed |-> FALSE]]
    /\ UNCHANGED <<device, buffers, caches, taken, given, fetched, writes, acked, harmed>>

\* createFile; its result is not looked at.  Overwriting gives the old data up;
\* FILE_CREATE does not mean to, and truncates a file the listing lacked.
Create(u) ==
    LET p == handle[u].path
        kept == handle[u].new
    IN
    /\ pc[u] = "create"
    /\ \/ device' = [device EXCEPT ![p] = <<>>] /\ Confirmed
       \/ device' \in {device, [device EXCEPT ![p] = <<>>]} /\ Fails
    /\ acked' = IF kept THEN acked ELSE [acked EXCEPT ![p] = <<>>]
    /\ Harm(p, kept /\ Exists(p))
    /\ handle' = [handle EXCEPT ![u].new = FALSE]
    /\ pc' = [pc EXCEPT ![u] = "created"]
    /\ UNCHANGED <<listing, buffers, caches, taken, given, fetched, calls, writes>>

\* Leaves a lock section that forgets the cached listing.
Invalidate(u, from, to) ==
    /\ pc[u] = from
    /\ listing' = {}
    /\ pc' = [pc EXCEPT ![u] = to]

Created(u) ==
    /\ Invalidate(u, "created", "register")
    /\ UNCHANGED <<device, buffers, caches, handle, taken, given, fetched, calls, writes, faults, acked, harmed>>

\* A new buffer takes the place of the one another handle of the path may have.
Register(u) ==
    LET p == handle[u].path IN
    /\ pc[u] = "register"
    /\ buffers' = With(buffers, p, NewBuffer)
    /\ Harm(p, Buffered(p))
    /\ pc' = [pc EXCEPT ![u] = "in"]
    /\ UNCHANGED <<device, listing, caches, handle, taken, given, fetched, calls, writes, faults, acked>>

-----------------------------------------------------------------------------
(* FsWriteFile.  The path is that of the moment it is called. *)

Acknowledge(p, off, d) == acked' = [acked EXCEPT ![p] = With(@, off + 1, d)]

Write(u, off) ==
    /\ pc[u] = "in" /\ handle[u].write
    /\ writes < MaxWrites /\ writes' = writes + 1
    /\ given' = [given EXCEPT ![u] = [path |-> handle[u].path, off |-> off, data |-> <<writes'>>]]
    /\ pc' = [pc EXCEPT ![u] = "write"]
    /\ UNCHANGED <<device, buffers, listing, caches, handle, taken, fetched, calls, faults, acked, harmed>>

Returns(u) ==
    /\ pc' = [pc EXCEPT ![u] = "in"]
    /\ given' = [given EXCEPT ![u] = Nothing]

\* Under writeMutex, with up to two flushes; always acknowledged.
WriteBuffered(u) ==
    LET p == given[u].path
        off == given[u].off
        b == buffers[p]
        emptied == IF NeedsFlush(b) THEN Flushed(b) ELSE b
        written == Written(emptied, off, given[u].data)
    IN
    /\ pc[u] = "write" /\ p \in DOMAIN buffers
    /\ \E first \in IF NeedsFlush(b) THEN Flushing(b, device[p]) ELSE Flushing(NewBuffer, device[p]) :
       \E last \in IF NeedsFlush(written) THEN Flushing(written, first.file)
                   ELSE Flushing(NewBuffer, first.file) :
          /\ device' = [device EXCEPT ![p] = last.file]
          /\ Outcome([ok |-> first.ok /\ last.ok])
          /\ Harm(p, Discards(emptied, off, given[u].data) \/ ~first.ok \/ ~last.ok \/ OnItsWay(p))
    /\ buffers' = [buffers EXCEPT ![p] = IF NeedsFlush(written) THEN Flushed(written) ELSE written]
    /\ Acknowledge(p, off, Head(given[u].data))
    /\ Returns(u)
    /\ UNCHANGED <<listing, caches, handle, taken, fetched, calls, writes>>

\* The buffer went with the Cleanup of another handle.
NoBuffer(u) ==
    /\ pc[u] = "write" /\ given[u].path \notin DOMAIN buffers
    /\ pc' = [pc EXCEPT ![u] = "direct"]
    /\ UNCHANGED <<device, buffers, listing, caches, handle, taken, given, fetched,
                   calls, writes, faults, acked, harmed>>

\* Straight to the device, without the mutex: meanwhile another program may have
\* opened the file and buffered data of its own, which will be sent behind this.
WriteDirect(u) ==
    LET p == given[u].path IN
    /\ pc[u] = "direct"
    /\ \E result \in WriteRange(device[p], given[u].off, given[u].data) :
          /\ device' = [device EXCEPT ![p] = result.file]
          /\ Outcome(result)
          /\ IF result.ok THEN Acknowledge(p, given[u].off, Head(given[u].data)) ELSE UNCHANGED acked
          /\ Harm(p, ~result.ok \/ OnItsWay(p) \/ Buffered(p))
    /\ Returns(u)
    /\ UNCHANGED <<buffers, listing, caches, handle, taken, fetched, calls, writes>>

-----------------------------------------------------------------------------
(* FsReadFile: one block is asked for. *)

Holds(chunk, p, off) == chunk.path = p /\ off \in chunk.off..(chunk.off + Len(chunk.data) - 1)
Slots == 1..Len(caches)
\* The chunk of a path, and the cache without it.
Cached(p) == {i \in Slots : caches[i].path = p}
Others(p) == IF Cached(p) = {} THEN caches ELSE RemoveAt(caches, CHOOSE i \in Cached(p) : TRUE)

ReadHit(u, off) ==
    /\ pc[u] = "in"
    /\ \E i \in Slots :
          /\ Holds(caches[i], handle[u].path, off)
          /\ caches' = Append(RemoveAt(caches, i), caches[i])
    /\ UNCHANGED <<device, buffers, listing, pc, handle, taken, given, fetched, calls, writes, faults, acked, harmed>>

\* A lost connection ends the answer early; what has come is taken.
Fetch(u, off) ==
    LET p == handle[u].path
        file == Content(device[p])
        have == SubSeq(file, off + 1, IF off + ReadAhead < Len(file) THEN off + ReadAhead ELSE Len(file))
    IN
    /\ pc[u] = "in" /\ calls < MaxCalls
    /\ \A i \in Slots : ~Holds(caches[i], p, off)
    /\ \E n \in 0..Len(have) :
          /\ IF n = Len(have) THEN Confirmed ELSE Fails
          /\ n > 0        \* otherwise end of file, and nothing is kept
          /\ fetched' = [fetched EXCEPT ![u] = [path |-> p, off |-> off, data |-> SubSeq(have, 1, n)]]
    /\ calls' = calls + 1
    /\ pc' = [pc EXCEPT ![u] = "store"]
    /\ UNCHANGED <<device, buffers, listing, caches, handle, taken, given, writes, acked, harmed>>

\* cacheRead: the chunk takes the place of the one of its path, or of the
\* least recently used.
Store(u) ==
    LET others == Others(fetched[u].path)
        room == IF Len(others) = Len(caches) /\ Len(caches) >= MaxCaches THEN Tail(caches) ELSE others
    IN
    /\ pc[u] = "store"
    /\ caches' = Append(room, fetched[u])
    /\ fetched' = [fetched EXCEPT ![u] = Nothing]
    /\ pc' = [pc EXCEPT ![u] = "in"]
    /\ UNCHANGED <<device, buffers, listing, handle, taken, given, calls, writes, faults, acked, harmed>>

-----------------------------------------------------------------------------
(* FsDeleteFile, FsCleanup. *)

SetDelete(u, seen) ==
    /\ pc[u] = "in" /\ ~handle[u].doomed
    /\ Look(seen) /\ handle[u].path \in seen.names
    /\ handle' = [handle EXCEPT ![u].doomed = TRUE]
    /\ UNCHANGED <<device, buffers, caches, pc, taken, given, fetched, calls, writes, acked, harmed>>

\* Mutant: a handle that only reads removes the buffer without sending it.
CleanupDrops(u) ==
    LET p == handle[u].path IN
    /\ pc[u] = "in"
    /\ IF Buffered(p) /\ handle[u].write
       THEN /\ taken' = [taken EXCEPT ![u] = [path |-> p, off |-> buffers[p].off, data |-> buffers[p].data]]
            /\ pc' = [pc EXCEPT ![u] = "flush"]
       ELSE UNCHANGED taken /\ pc' = [pc EXCEPT ![u] = "closing"]
    /\ buffers' = Without(buffers, p)
    /\ UNCHANGED <<device, listing, caches, handle, given, fetched, calls, writes, faults, acked, harmed>>

\* Mutant: a file about to be deleted is not flushed, and its buffer stays.
CleanupLeaves(u) ==
    LET p == handle[u].path IN
    /\ pc[u] = "in"
    /\ IF Buffered(p) /\ ~handle[u].doomed
       THEN /\ taken' = [taken EXCEPT ![u] = [path |-> p, off |-> buffers[p].off, data |-> buffers[p].data]]
            /\ pc' = [pc EXCEPT ![u] = "flush"] /\ buffers' = Without(buffers, p)
       ELSE UNCHANGED <<taken, buffers>> /\ pc' = [pc EXCEPT ![u] = "closing"]
    /\ UNCHANGED <<device, listing, caches, handle, given, fetched, calls, writes, faults, acked, harmed>>

\* Whoever closes takes the buffer of the path, whether it is its own or not.
Cleanup(u) ==
    LET p == handle[u].path IN
    /\ pc[u] = "in"
    /\ IF Buffered(p)
       THEN /\ taken' = [taken EXCEPT ![u] = [path |-> p, off |-> buffers[p].off, data |-> buffers[p].data]]
            /\ pc' = [pc EXCEPT ![u] = "flush"]
       ELSE UNCHANGED taken /\ pc' = [pc EXCEPT ![u] = "closing"]
    /\ buffers' = Without(buffers, p)
    /\ UNCHANGED <<device, listing, caches, handle, given, fetched, calls, writes, faults, acked, harmed>>

\* Outside the lock; the result is not looked at.
Flush(u) ==
    LET p == taken[u].path IN
    /\ pc[u] = "flush"
    /\ \E result \in WriteRange(device[p], taken[u].off, taken[u].data) :
          /\ device' = [device EXCEPT ![p] = result.file]
          /\ Outcome(result)
          /\ Harm(p, ~result.ok)
    /\ taken' = [taken EXCEPT ![u] = Nothing]
    /\ pc' = [pc EXCEPT ![u] = "closing"]
    /\ UNCHANGED <<buffers, listing, caches, handle, given, fetched, calls, writes, acked>>

Closed(u) ==
    /\ Invalidate(u, "closing", IF handle[u].doomed THEN "delete" ELSE "out")
    /\ handle' = IF handle[u].doomed THEN handle ELSE [handle EXCEPT ![u] = NoHandle]
    /\ UNCHANGED <<device, buffers, caches, taken, given, fetched, calls, writes, faults, acked, harmed>>

\* Mutant: only the flush is followed by forgetting the listing.
DeletedQuietly(u) ==
    /\ pc[u] = "deleted" /\ pc' = [pc EXCEPT ![u] = "out"]
    /\ handle' = [handle EXCEPT ![u] = NoHandle]
    /\ UNCHANGED <<device, buffers, listing, caches, taken, given, fetched, calls, writes, faults, acked, harmed>>

\* deleteFile; its result is not looked at.
Delete(u) ==
    LET p == handle[u].path IN
    /\ pc[u] = "delete"
    /\ \/ device' = [device EXCEPT ![p] = Absent] /\ Confirmed
       \/ device' \in {device, [device EXCEPT ![p] = Absent]} /\ Fails
    /\ acked' = [acked EXCEPT ![p] = <<>>]
    /\ pc' = [pc EXCEPT ![u] = "deleted"]
    /\ UNCHANGED <<listing, buffers, caches, handle, taken, given, fetched, calls, writes, harmed>>

Deleted(u) ==
    /\ Invalidate(u, "deleted", "out")
    /\ handle' = [handle EXCEPT ![u] = NoHandle]
    /\ UNCHANGED <<device, buffers, caches, taken, given, fetched, calls, writes, faults, acked, harmed>>

-----------------------------------------------------------------------------
(* FsMoveFile.  Windows gives the open handles of the file their new name; *)
(* it renames none that is being opened.                                   *)

Opening(p) == \E u \in Program : handle[u].path = p /\ pc[u] \in {"create", "created", "register"}
Between == {"in", "renamed", "store", "write", "direct"}
Called(p) == \E u \in Program : given[u].path = p
Moved(p, q) == [device EXCEPT ![p] = Absent, ![q] = device[p]]

Rename(u, q) ==
    LET p == handle[u].path IN
    /\ pc[u] = "in" /\ p # q /\ ~Opening(p)
    /\ Exists(p) /\ ~Exists(q)
    /\ device' = Moved(p, q)
    /\ acked' = [acked EXCEPT ![p] = <<>>, ![q] = acked[p]]
    /\ \/ /\ Confirmed
          /\ handle' = [v \in Program |-> IF pc[v] \in Between /\ handle[v].path = p
                                          THEN [handle[v] EXCEPT !.path = q] ELSE handle[v]]
          /\ pc' = [pc EXCEPT ![u] = "renamed"]
          /\ harmed' = IF \E x \in {p, q} : Buffered(x) \/ OnItsWay(x) \/ Called(x) \/ x \in harmed
                       THEN harmed \cup {p, q} ELSE harmed
       \/ \* done, but the answer is lost: the program is told it was not
          /\ Fails
          /\ harmed' = harmed \cup {p, q}
          /\ UNCHANGED <<handle, pc>>
    /\ UNCHANGED <<buffers, listing, caches, taken, given, fetched, calls, writes>>

Renamed(u) ==
    /\ Invalidate(u, "renamed", "in")
    /\ UNCHANGED <<device, buffers, caches, handle, taken, given, fetched, calls, writes, faults, acked, harmed>>

-----------------------------------------------------------------------------
Opens(u) == \E p \in Path, kind \in Kind, seen \in Answers : Open(u, p, kind, seen)
Writes(u) ==
    (\E off \in 0..MaxLength-1 : Write(u, off)) \/ WriteBuffered(u) \/ NoBuffer(u) \/ WriteDirect(u)
Reads(u) == \E off \in 0..MaxLength-1 : ReadHit(u, off) \/ Fetch(u, off)

Step(u) ==
    \/ Opens(u) \/ Create(u) \/ Created(u) \/ Register(u)
    \/ Writes(u) \/ Reads(u) \/ Store(u)
    \/ \E seen \in Answers : SetDelete(u, seen)
    \/ Cleanup(u) \/ Flush(u) \/ Closed(u) \/ Delete(u) \/ Deleted(u)
    \/ (\E q \in Path : Rename(u, q)) \/ Renamed(u)
    \/ GetInformation(u)

Next == Expire \/ \E u \in Program : Step(u)

Spec == Init /\ [][Next]_vars

-----------------------------------------------------------------------------
(* Properties. *)

Chunk == [path : Path \cup {Absent}, off : 0..MaxLength, data : Seq(Byte)]

\* Every variable has its type; there is one read-ahead chunk per path and at
\* most MaxCaches of them; and between two calls a buffer with data is
\* sequential and shorter than FLUSH_SIZE, because FsWriteFile flushes at once
\* what needs flushing: its first test of needsFlush never succeeds.
DeviceType == device \in [Path -> Seq(Byte) \cup {Absent}]
BufferType ==
    /\ DOMAIN buffers \subseteq Path
    /\ \A p \in DOMAIN buffers :
          /\ buffers[p] \in [off : 0..MaxLength, data : Seq(Byte), sequential : BOOLEAN]
          /\ buffers[p].data # <<>> => buffers[p].sequential /\ Len(buffers[p].data) < FlushSize
ListingType == listing = {} \/ \E seen \in Listings : listing = {seen}
CacheType ==
    /\ caches \in Seq(Chunk) /\ Len(caches) <= MaxCaches
    /\ \A i, j \in Slots : caches[i].path = caches[j].path => i = j
ProgramType ==
    /\ pc \in [Program -> {"out", "create", "created", "register", "in", "store", "write", "direct",
                           "flush", "closing", "delete", "deleted", "renamed"}]
    /\ handle \in [Program -> [path : Path \cup {Absent}, write : BOOLEAN, new : BOOLEAN, doomed : BOOLEAN]]
ChunkType ==
    taken \in [Program -> Chunk] /\ given \in [Program -> Chunk] /\ fetched \in [Program -> Chunk]
CountType ==
    /\ calls \in 0..MaxCalls /\ writes \in 0..MaxWrites /\ faults \in 0..MaxFaults
    /\ harmed \subseteq Path

TypeOK ==
    /\ DeviceType /\ BufferType /\ ListingType /\ CacheType
    /\ ProgramType /\ ChunkType /\ CountType

\* Where block i of a path is found first: in the buffer, on its way to the
\* device in somebody's Cleanup, or in the file.
Covers(b, i) == i \in b.off+1..b.off+Len(b.data)
Senders(p, i) == {u \in Program : taken[u].path = p /\ Covers(taken[u], i)}
Shows(p, i, d) ==
    IF p \in DOMAIN buffers /\ Covers(buffers[p], i) THEN buffers[p].data[i - buffers[p].off] = d
    ELSE IF Senders(p, i) # {} THEN \A u \in Senders(p, i) : taken[u].data[i - taken[u].off] = d
    ELSE i \in DOMAIN Content(device[p]) /\ device[p][i] = d

\* What WriteFile has acknowledged is what the file will hold: it is in the
\* buffer, on its way, or on the device, with nothing older in front of it.
\* Excepted are the paths in "harmed", see the README: a write behind a gap, a
\* command that fails, a second open for writing, a file renamed while a write
\* of it is called or its data is on its way, one written while its data is on
\* its way, a write past the map behind which another program has buffered,
\* FILE_CREATE of a file the listing lacks.
NothingLost == \A p \in Path \ harmed : \A i \in DOMAIN acked[p] : Shows(p, i, acked[p][i])

\* When the last program has closed its file, no data stays behind in a
\* buffer: every way out of a call leads through Cleanup.
NothingLeftBehind ==
    (\A u \in Program : pc[u] = "out") => \A p \in Path \ harmed : ~Buffered(p)

\* A cached listing is true, but for files somebody has open for writing: a
\* command that changes the directory is followed by a step that forgets the
\* listing, and no request for a listing can have been answered before the
\* command and be stored after that step.
Window(u) == pc[u] \in {"created", "closing", "deleted", "renamed"}
Writing(p) == \E u \in Program : handle[u].path = p /\ handle[u].write
ListingCurrent ==
    \A seen \in listing : ~seen.failed /\ (\A u \in Program : ~Window(u))
        => \A p \in Path \ harmed : ~Writing(p) => (p \in seen.names <=> Exists(p))

\* device_dokan.cpp:359: "the file on device will be the right size after
\* writes".  A write in front of the buffered data replaces it, and the end of
\* the file never reaches the device.  The code does not keep it, see the README.
RightSize ==
    (\A u \in Program : pc[u] = "out")
        => \A p \in Path : \A i \in DOMAIN acked[p] : i <= Len(Content(device[p]))
=============================================================================
