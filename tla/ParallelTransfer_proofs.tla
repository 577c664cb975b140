----------------------- MODULE ParallelTransfer_proofs -----------------------
(***************************************************************************)
(* What a batch over several channels keeps, for every plan, every number  *)
(* of workers, every block length and every number of retries.             *)
(***************************************************************************)
EXTENDS ParallelTransfer, CoverageLog_proofs

-----------------------------------------------------------------------------
(* The inductive invariant. *)

\* Two owned blocks of one file: only a split file has more than one, and then
\* they have no chunk in common.
Apart(a, b) ==
    a.file = b.file =>
       Kind(a.file) = "split" /\ (a.off + a.len <= b.off \/ b.off + b.len <= a.off)
Extent(b) == b.off..(b.off + b.len - 1)

\* A block that is still to be moved: a part of its file, none of it recorded.
Due(b) ==
    /\ b \in BlockType
    /\ ~coverage[b.file].skipped /\ ~IsComplete(coverage[b.file])
    /\ b.off + b.len <= Size(b.file)
    /\ IF Kind(b.file) = "split" THEN b.len > 0
       ELSE b.off = 0 /\ b.len = Size(b.file) /\ ~coverage[b.file].failed
    /\ ~coverage[b.file].failed => Extent(b) \cap CoveredBytes(coverage[b.file]) = {}

Holding == {w \in Worker : wpc[w] \in Busy}

Owned ==
    /\ \A i \in DOMAIN queue : Due(queue[i])
    /\ \A w \in Holding : Due(blk[w])
    /\ \A i, j \in DOMAIN queue : i # j => Apart(queue[i], queue[j])
    /\ \A i \in DOMAIN queue : \A w \in Holding : Apart(queue[i], blk[w])
    /\ \A v, w \in Holding : v # w => Apart(blk[v], blk[w])

\* Every chunk of a file that is neither skipped nor given up has an owner.
Quiet == pc = "run" /\ ~stopRequested /\ ~shutdown /\ ~localFailed
Kept(f, x) ==
    \/ x \in CoveredBytes(coverage[f])
    \/ \E i \in DOMAIN queue : queue[i].file = f /\ x \in Extent(queue[i])
    \/ \E w \in Holding : blk[w].file = f /\ x \in Extent(blk[w])
AllKept ==
    Quiet => \A f \in Files : ~coverage[f].skipped /\ ~coverage[f].failed =>
                \A x \in Bytes(f) : Kept(f, x)

Recorded ==
    /\ \A f \in Files : Sound(coverage[f])
    /\ \A f \in completed : IsComplete(coverage[f])

AllAt(where) == \A w \in Worker : wpc[w] = where
Untouched(f) ==
    /\ CoveredBytes(coverage[f]) = {} /\ ~coverage[f].failed /\ ~IsComplete(coverage[f])
    /\ dest[f].is # "new"
Phases ==
    /\ pc \in {"resolve", "asked"} =>
          /\ AllAt("idle") /\ queue = <<>> /\ completed = {} /\ ~localFailed
          /\ \A f \in Files : Untouched(f)
    /\ pc = "asked" => next <= Len(Plan) /\ next \in existing
    /\ pc \in {"resolve", "asked", "run"} => verified = 0
    /\ pc = "run" => \A w \in Worker : wpc[w] # "idle"
    /\ pc \in {"verify", "outcome", "clean"} => AllAt("exit")
    /\ pc = "ended" => AllAt("idle") \/ AllAt("exit")
    /\ state = "Completed" => pc \in {"clean", "ended"}

\* A refused destination is not recorded as complete, and nobody is to move it.
Refused(f) ==
    /\ ~coverage[f].skipped /\ ~IsComplete(coverage[f])
    /\ \A i \in DOMAIN queue : queue[i].file # f
    /\ \A w \in Holding : blk[w].file # f
RefusedStays == localFailed => \E f \in Files : Refused(f)

\* When every destination is created and every chunk that is counted has come,
\* what is recorded is in the file.
Sure == IsPull /\ ~CreateMayFail
Moved(w) == blk[w].off..(blk[w].off + pos[w] - 1)
InFile(f) ==
    /\ Kind(f) = "split" /\ ~coverage[f].skipped => dest[f].is = "new"
    /\ ~coverage[f].failed => CoveredBytes(coverage[f]) \subseteq dest[f].data
    /\ IsComplete(coverage[f]) => dest[f].is = "new"
InFiles ==
    pc \in {"run", "verify", "outcome", "clean"} =>
       \A f \in Files : Kind(f) # "dir" => InFile(f)
InHand(w) ==
    /\ wpc[w] = "open" => pos[w] = 0
    /\ wpc[w] = "xfer" =>
          dest[blk[w].file].is = "new" /\ Moved(w) \subseteq dest[blk[w].file].data
Arrived == Sure => InFiles /\ (\A w \in Worker : InHand(w)) /\ CleansUp

\* Verification has passed the items up to here.
Checked ==
    /\ pc = "verify" \/ (pc = "outcome" /\ Verify /\ state # "Failed" /\ ~stopRequested) =>
          \A f \in Files : f <= verified /\ ToVerify(f) /\ ~crcFailed => CrcMatches(f)
    /\ pc = "outcome" /\ Verify /\ state # "Failed" /\ ~stopRequested => verified = Len(Plan)

Certain == Sure \/ (~IsPull /\ Verify)
Outcomes == Certain => CompletedMeansDelivered

\* While the application is not being closed, the batch thread has seen every old
\* file before the workers start.

OldKnown ==
    /\ \A f \in Files : dest[f].is = "old" => Kind(f) # "dir"
    /\ IsPull /\ ~MayShutDown =>
          /\ ~shutdown
          /\ \A f \in Files : dest[f].is = "old" /\ f < next => f \in existing
          /\ pc \in {"run", "verify", "outcome", "clean"} => next = Len(Plan) + 1

IInv == /\ TypeOK /\ Recorded /\ Phases /\ Owned /\ AllKept /\ RefusedStays
        /\ Arrived /\ Checked /\ Outcomes /\ OldKnown

-----------------------------------------------------------------------------
(* Sequences that enumerate a set, and the blocks of a plan. *)

\* An enumeration of a finite set has each of its members once.
LEMMA Enumerates ==
    ASSUME NEW S, IsFiniteSet(S), NEW t \in SetToSeqs(S)
    PROVE  /\ t \in Seq(S) /\ DOMAIN t = 1..Len(t) /\ Len(t) \in Nat
           /\ \A i, j \in DOMAIN t : i # j => t[i] # t[j]
           /\ \A x \in S : \E i \in DOMAIN t : t[i] = x
<1> DEFINE n == Cardinality(S)
           D == 1..n
<1>1. n \in Nat
  BY FS_CardinalityType
<1>2. t \in [D -> S] /\ \A i, j \in D : i # j => t[i] # t[j]
  BY DEF SetToSeqs
<1>3. IsFiniteSet(D) /\ Cardinality(D) = n
  <2> HIDE DEF n
  <2>1. /\ IsFiniteSet(1..n)
        /\ Cardinality(1..n) = IF 1 > n THEN 0 ELSE n - 1 + 1
    BY <1>1, 1 \in Int, n \in Int, FS_Interval
  <2> QED BY <1>1, <2>1
<1> HIDE DEF n
<1>4. t \in Seq(S) /\ DOMAIN t = 1..Len(t) /\ Len(t) = n
  BY <1>1, <1>2
<1> HIDE DEF D
<1>5. t \in Injection(D, S)
  BY <1>2 DEF Injection, IsInjective
<1>6. t \in Surjection(D, S)
  BY <1>3, <1>5, FS_Injection DEF n
<1> QED BY <1>1, <1>2, <1>4, <1>6 DEF Surjection

\* Taking the blocks of a file off the queue (failFile): the others stay, in other
\* places, and none comes twice.
LEMMA WithoutFacts ==
    ASSUME NEW T, NEW q \in Seq(T), NEW f, NEW r \in Without(q, f)
    PROVE  /\ r \in Seq(T)
           /\ \E s \in [DOMAIN r -> DOMAIN q] :
                 /\ \A i \in DOMAIN r : r[i] = q[s[i]] /\ q[s[i]].file # f
                 /\ \A i, j \in DOMAIN r : i # j => s[i] # s[j]
                 /\ \A k \in DOMAIN q : q[k].file # f => \E i \in DOMAIN r : s[i] = k
<1> DEFINE K == {i \in DOMAIN q : q[i].file # f}
<1>1. PICK s \in SetToSeqs(K) : r = [i \in DOMAIN s |-> q[s[i]]]
  BY DEF Without
<1>2. IsFiniteSet(K)
  <2>1. IsFiniteSet(DOMAIN q)
    BY FS_Interval, Len(q) \in Nat, 1 \in Int, DOMAIN q = 1..Len(q)
  <2> QED BY <2>1, FS_Subset
<1>3. \A k : k \in K <=> k \in DOMAIN q /\ q[k].file # f
  OBVIOUS
<1>4. \A k \in K : q[k] \in T
  OBVIOUS
<1> HIDE DEF K
<1>5. /\ s \in Seq(K) /\ DOMAIN s = 1..Len(s) /\ Len(s) \in Nat
      /\ \A i, j \in DOMAIN s : i # j => s[i] # s[j]
      /\ \A x \in K : \E i \in DOMAIN s : s[i] = x
  BY <1>1, <1>2, Enumerates
<1>6. DOMAIN r = DOMAIN s /\ \A i \in DOMAIN s : s[i] \in K /\ r[i] = q[s[i]]
  BY <1>1, <1>5
<1>7. r \in Seq(T)
  BY <1>1, <1>4, <1>5, <1>6
<1>8. s \in [DOMAIN r -> DOMAIN q]
  BY <1>3, <1>5, <1>6
<1>9. /\ \A i \in DOMAIN r : r[i] = q[s[i]] /\ q[s[i]].file # f
      /\ \A i, j \in DOMAIN r : i # j => s[i] # s[j]
      /\ \A k \in DOMAIN q : q[k].file # f => \E i \in DOMAIN r : s[i] = k
  BY <1>3, <1>5, <1>6
<1> QED BY <1>7, <1>8, <1>9

\* The sizes of the plan are numbers of chunks.
LEMMA SizesAreNat ==
    /\ \A f \in Files : Size(f) \in Nat /\ Kind(f) \in {"dir", "whole", "split"}
    /\ Len(Plan) \in Nat
<1> DEFINE Item == [kind : {"dir", "whole", "split"}, size : Nat]
<1>1. Plan \in Seq(Item)
  BY PlanAssumption
<1>2. \A e \in Item : e.size \in Nat /\ e.kind \in {"dir", "whole", "split"}
  OBVIOUS
<1> HIDE DEF Item
<1> QED BY <1>1, <1>2 DEF Files, Size, Kind

\* A block cut from a file lies in it; only a split file has more than one.
LEMMA BlockAtType ==
    ASSUME NEW f \in Files, NEW o \in BlockStarts(f)
    PROVE  LET b == BlockAt(f, o)
           IN  /\ b \in BlockType /\ b.file = f /\ b.off = o
               /\ b.off + b.len <= Size(f)
               /\ IF Kind(f) = "split" THEN b.len > 0 ELSE b.off = 0 /\ b.len = Size(f)
<1>1. Size(f) \in Nat /\ BlockLen \in Nat \ {0} /\ 0 \in 0..(MaxTries - 1)
  BY SizesAreNat, BoundsAssumption
<1>2. CASE Kind(f) = "split"
  <2>1. o \in 0..(Size(f) - 1)
    BY <1>2 DEF BlockStarts, Bytes
  <2> QED BY <1>1, <1>2, <2>1 DEF BlockAt, Block, BlockType
<1>3. CASE Kind(f) # "split"
  <2>1. o = 0
    BY <1>3 DEF BlockStarts
  <2> QED BY <1>1, <1>3, <2>1 DEF BlockAt, Block, BlockType
<1> QED BY <1>2, <1>3

\* Two blocks of a file start at multiples of the block length and do not overlap.
LEMMA BlocksApart ==
    ASSUME NEW f \in Files, NEW o \in BlockStarts(f), NEW p \in BlockStarts(f), o # p
    PROVE  Apart(BlockAt(f, o), BlockAt(f, p))
<1>1. Kind(f) = "split"
  BY DEF BlockStarts
<1>2. /\ Size(f) \in Nat /\ BlockLen \in Nat \ {0}
      /\ o \in 0..(Size(f) - 1) /\ o % BlockLen = 0
      /\ p \in 0..(Size(f) - 1) /\ p % BlockLen = 0
  BY <1>1, SizesAreNat, BoundsAssumption DEF BlockStarts, Bytes
<1>3. ASSUME NEW a \in Nat, NEW b \in Nat, a < b, a % BlockLen = 0, b % BlockLen = 0
      PROVE  a + BlockLen <= b
  <2> DEFINE m == a \div BlockLen
             k == b \div BlockLen
  <2>1. m \in Int /\ k \in Int /\ a = BlockLen * m /\ b = BlockLen * k
    BY <1>2, <1>3
  <2> HIDE DEF m, k
  <2>2. m < k
    <3>1. CASE k <= m
      <4>1. BlockLen * k <= BlockLen * m
        BY <1>2, <2>1, <3>1
      <4> QED BY <1>3, <2>1, <4>1
    <3> QED BY <2>1, <3>1
  <2>3. BlockLen * (m + 1) <= BlockLen * k
    BY <1>2, <2>1, <2>2
  <2>4. BlockLen * (m + 1) = BlockLen * m + BlockLen
    BY <1>2, <2>1
  <2> QED BY <2>1, <2>3, <2>4
<1>4. /\ BlockAt(f, o).off = o /\ BlockAt(f, o).len <= BlockLen
      /\ BlockAt(f, p).off = p /\ BlockAt(f, p).len <= BlockLen
      /\ BlockAt(f, o).len \in Int /\ BlockAt(f, p).len \in Int
      /\ BlockAt(f, o).file = f
  BY <1>1, <1>2 DEF BlockAt, Block
<1>5. o + BlockLen <= p \/ p + BlockLen <= o
  BY <1>2, <1>3
<1> QED BY <1>1, <1>2, <1>4, <1>5 DEF Apart

\* The blocks of a file leave none of its chunks out.
LEMMA BlocksCover ==
    ASSUME NEW f \in Files, NEW x \in Bytes(f)
    PROVE  \E o \in BlockStarts(f) : x \in Extent(BlockAt(f, o))
<1>1. x \in Nat /\ Size(f) \in Nat /\ x < Size(f) /\ BlockLen \in Nat \ {0}
  BY SizesAreNat, BoundsAssumption DEF Bytes
<1>2. CASE Kind(f) = "split"
  <2> DEFINE r == x % BlockLen
             o == x - r
  <2>1. r \in 0..(BlockLen - 1)
    BY <1>1
  <2>2. r <= x /\ o % BlockLen = 0
    BY <1>1
  <2> HIDE DEF r
  <2>3. o \in Nat /\ o <= x /\ x < o + BlockLen
    BY <1>1, <2>1, <2>2
  <2>4. o \in BlockStarts(f)
    BY <1>1, <1>2, <2>2, <2>3 DEF BlockStarts, Bytes
  <2>5. BlockAt(f, o) = Block(f, o, IF Size(f) - o > BlockLen THEN BlockLen ELSE Size(f) - o)
    BY <1>2 DEF BlockAt
  <2> HIDE DEF o
  <2>6. x \in Extent(BlockAt(f, o))
    BY <1>1, <2>3, <2>5 DEF Extent, Block
  <2> QED BY <2>4, <2>6
<1>3. CASE Kind(f) # "split"
  <2>1. 0 \in BlockStarts(f)
    BY <1>3 DEF BlockStarts
  <2>2. x \in Extent(BlockAt(f, 0))
    BY <1>1, <1>3 DEF Extent, BlockAt, Block
  <2> QED BY <2>1, <2>2
<1> QED BY <1>2, <1>3

\* The batch has finitely many blocks.
LEMMA BlocksFinite == IsFiniteSet(Blocks)
<1> DEFINE Chosen == {g \in Files : ~coverage[g].skipped}
           of == [f \in Chosen |-> {BlockAt(f, o) : o \in BlockStarts(f)}]
           All == {of[g] : g \in Chosen}
<1>1. IsFiniteSet(Chosen)
  <2>1. IsFiniteSet(1..Len(Plan))
    BY SizesAreNat, 1 \in Int, Len(Plan) \in Int, FS_Interval
  <2> QED BY <2>1, FS_Subset DEF Files
<1>2. ASSUME NEW h \in Chosen PROVE IsFiniteSet(of[h])
  <2> DEFINE at == [o \in BlockStarts(h) |-> BlockAt(h, o)]
  <2>1. at \in Surjection(BlockStarts(h), of[h])
    BY DEF Surjection
  <2>2. IsFiniteSet(Bytes(h)) /\ IsFiniteSet({0})
    <3>1. Size(h) - 1 \in Int
      BY SizesAreNat
    <3>2. IsFiniteSet(0..(Size(h) - 1))
      BY <3>1, 0 \in Int, FS_Interval
    <3> QED BY <3>2, FS_Singleton DEF Bytes
  <2>3. IsFiniteSet(BlockStarts(h))
    BY <2>2, FS_Subset DEF BlockStarts
  <2> QED BY <2>1, <2>3, FS_Surjection
<1>3. of \in Surjection(Chosen, All)
  BY DEF Surjection
<1>4. Blocks = UNION {{BlockAt(f, o) : o \in BlockStarts(f)} : f \in Chosen}
  BY Zenon DEF Blocks
<1>5. \A S \in All : IsFiniteSet(S)
  BY <1>2
<1> HIDE DEF Chosen
<1>7. UNION All = Blocks
  BY <1>4
<1> HIDE DEF All, of, Chosen
<1>6. IsFiniteSet(All)
  BY <1>1, <1>3, FS_Surjection
<1> QED BY <1>5, <1>6, <1>7, FS_UNION

-----------------------------------------------------------------------------
(* What a step of a worker does to the blocks. *)

Moves(w, where) ==
    wpc' = [wpc EXCEPT ![w] = wpc'[w]] /\ wpc'[w] \in where

\* The worker holds the same block as before, or none.
Keeps(w) ==
    /\ UNCHANGED <<queue, coverage, completed, blk, localFailed>>
    /\ \/ wpc[w] \in Busy /\ Moves(w, Busy)
       \/ wpc[w] \in {"top", "reconnect"} /\ Moves(w, {"top", "reconnect", "exit"})

\* It gives its block up, and the block is dropped, lost with its file, given back
\* to the queue or recorded.
Releases(w) ==
    /\ wpc[w] \in Busy /\ Moves(w, {"top", "reconnect", "exit"})
    /\ blk' = [blk EXCEPT ![w] = NoBlock]
    /\ UNCHANGED localFailed
Drops(w) ==
    /\ Releases(w) /\ UNCHANGED <<queue, coverage, completed>>
    /\ stopRequested \/ shutdown \/ coverage[blk[w].file].failed
Fails(w) == Releases(w) /\ FailFile(blk[w].file)
Returns(w) ==
    /\ Releases(w) /\ UNCHANGED <<coverage, completed>>
    /\ blk[w].tries + 1 < MaxTries
    /\ queue' = Append(queue, [blk[w] EXCEPT !.tries = @ + 1])
Records(w) ==
    LET b == blk[w]
        after == RecordRange(coverage[b.file], b.off, b.len)
    IN /\ Releases(w) /\ UNCHANGED queue
       /\ Accepts(coverage[b.file], b.off, b.len)
       /\ coverage' = [coverage EXCEPT ![b.file] = after]
       /\ completed' = IF IsComplete(after) THEN completed \cup {b.file} ELSE completed

\* The code has no other way to handle a block.
LEMMA WorkerMoves ==
    ASSUME TypeOK, Recorded, Owned, NEW w \in Worker, WorkerStep(w) \/ Trouble(w)
    PROVE  \/ Keeps(w) \/ DropFailed(w) \/ Grab(w) \/ Drops(w) \/ Fails(w) \/ Returns(w)
           \/ Records(w) \/ LocalError(w)
<1>0. /\ wpc \in [Worker -> Busy \cup {"idle", "top", "reconnect", "exit"}]
      /\ DOMAIN blk = Worker /\ DOMAIN pos = Worker
      /\ wpc[w] \notin Busy => blk[w] = NoBlock
      /\ blk \in [Worker -> BlockType \cup {NoBlock}]
  BY DEF TypeOK, WorkerType
<1>1. CASE WorkerExits(w) \/ Reconnect(w) \/ StopReconnecting(w)
  <2>1. blk' = blk
    BY <1>0, <1>1 DEF WorkerExits, EndBlock, Reconnect, StopReconnecting, Busy
  <2>2. wpc[w] \in {"top", "reconnect"} /\ Moves(w, {"top", "reconnect", "exit"})
    BY <1>0, <1>1 DEF WorkerExits, EndBlock, Reconnect, StopReconnecting, Moves
  <2> QED BY <1>1, <2>1, <2>2 DEF Keeps, WorkerExits, Reconnect, StopReconnecting, workVars,
       choiceVars
<1>2. CASE Upgrade(w) \/ Open(w) \/ Move(w) \/ Pausing(w)
  BY <1>0, <1>2 DEF Keeps, Moves, Upgrade, Open, Move, Pausing, Busy, workVars, choiceVars,
     workerVars
<1>3. CASE MakeDirectory(w)
  <2>1. Due(blk[w]) /\ Kind(blk[w].file) = "dir" /\ wpc[w] \in Busy
    BY <1>3 DEF MakeDirectory, Owned, Holding, Busy
  <2>2. /\ Releases(w)
    BY <1>0, <1>3, <2>1 DEF MakeDirectory, EndBlock, Releases, Moves, choiceVars
  <2> DEFINE f == blk[w].file
             c == coverage[f]
  <2>3. f \in Files /\ Size(f) = 0 /\ blk[w].off = 0 /\ blk[w].len = 0
    BY <2>1, PlanAssumption DEF Due, BlockType
  <2>4. c.size = 0 /\ ~c.failed /\ ~c.skipped
    BY <2>1, <2>3 DEF Due, TypeOK, WorkType
  <2>5. Accepts(c, 0, 0)
    BY <2>4 DEF Accepts, InRange
  <2>6. RecordRange(c, 0, 0) = NoteEmpty(c)
    BY <2>5 DEF RecordRange
  <2>7. IsComplete(NoteEmpty(c))
    BY <2>4 DEF NoteEmpty, Coverage, IsComplete
  <2>8. CASE FailFile(f)
    BY <2>2, <2>8 DEF Fails
  <2>9. CASE /\ coverage' = [coverage EXCEPT ![f] = RecordRange(@, 0, 0)]
             /\ completed' = completed \cup {f}
             /\ UNCHANGED queue
    BY <2>2, <2>3, <2>5, <2>6, <2>7, <2>9 DEF Records
  <2> QED BY <1>3, <2>8, <2>9 DEF MakeDirectory
<1>4. CASE Finish(w)
  <2>1. wpc[w] \in Busy /\ Releases(w)
    BY <1>0, <1>4 DEF Finish, MovedAll, EndBlock, Releases, Moves, Busy, choiceVars
  <2> DEFINE b == blk[w]
             c == coverage[b.file]
  <2>2. CASE c.failed
    BY <1>4, <2>1, <2>2 DEF Finish, Drops
  <2>3. CASE ~c.failed /\ Accepts(c, b.off, b.len)
    BY <1>4, <2>1, <2>3 DEF Finish, Records
  <2>4. CASE ~c.failed /\ ~Accepts(c, b.off, b.len)
    BY <1>4, <2>1, <2>4 DEF Finish, Fails
  <2> QED BY <2>2, <2>3, <2>4
<1>5. CASE Interrupted(w)
  <2>1. wpc[w] \in Busy /\ Releases(w)
    BY <1>0, <1>5 DEF Interrupted, EndBlock, Releases, Moves, Busy, choiceVars
  <2> QED BY <1>5, <2>1 DEF Interrupted, Drops, workVars
<1>6. CASE LoseLink(w) \/ CannotMove(w)
  <2>1. wpc[w] \in Busy /\ GiveBack(w) /\ UNCHANGED localFailed
    BY <1>6 DEF LoseLink, CannotMove, Busy, choiceVars
  <2>2. Releases(w)
    BY <1>0, <2>1 DEF GiveBack, EndBlock, Releases, Moves
  <2>3. blk[w] \in BlockType
    BY <2>1 DEF TypeOK, WorkerType
  <2> DEFINE b == [blk[w] EXCEPT !.tries = @ + 1]
  <2>4. b.tries = blk[w].tries + 1 /\ b.file = blk[w].file /\ b.tries \in Int /\ MaxTries \in Int
    BY <2>3, BoundsAssumption DEF BlockType
  <2>5. CASE b.tries >= MaxTries
    BY <2>1, <2>2, <2>4, <2>5 DEF GiveBack, Fails
  <2>6. CASE ~(b.tries >= MaxTries)
    BY <2>1, <2>2, <2>4, <2>6 DEF GiveBack, Returns
  <2> QED BY <2>5, <2>6
<1>7. CASE FileError(w)
  <2>1. wpc[w] \in Busy /\ Releases(w)
    BY <1>0, <1>7 DEF FileError, EndBlock, Releases, Moves, Busy, choiceVars
  <2> QED BY <1>7, <2>1 DEF FileError, Fails
<1> QED BY <1>1, <1>2, <1>3, <1>4, <1>5, <1>6, <1>7 DEF WorkerStep, Trouble

-----------------------------------------------------------------------------
(* What the operations do to the coverage of one file. *)

\* Giving a file up, or skipping it, leaves its record as it was and never complete.
LEMMA GivenUpFacts ==
    ASSUME NEW c, Sound(c), NEW d \in {FailCoverage(c), SkipCoverage(c)}
    PROVE  /\ Sound(d) /\ d.size = c.size /\ CoveredBytes(d) = CoveredBytes(c)
           /\ ~IsComplete(d)
           /\ d = FailCoverage(c) => d.skipped = c.skipped /\ d.failed
           /\ d = SkipCoverage(c) => d.failed = c.failed /\ d.skipped
<1>1. d.ranges = c.ranges /\ d.size = c.size /\ (d.failed \/ d.skipped)
  BY DEF FailCoverage, SkipCoverage, Coverage
<1>2. Sound(d)
  BY SameRanges DEF FailCoverage, SkipCoverage
<1>3. CoveredBytes(d) = CoveredBytes(c)
  BY <1>1 DEF CoveredBytes, Starts
<1>4. ~IsComplete(d)
  BY <1>1 DEF IsComplete
<1>5. d = FailCoverage(c) => d.skipped = c.skipped /\ d.failed
  BY DEF FailCoverage, Coverage
<1>6. d = SkipCoverage(c) => d.failed = c.failed /\ d.skipped
  BY DEF SkipCoverage, Coverage
<1> QED BY <1>1, <1>2, <1>3, <1>4, <1>5, <1>6

\* Recording a block none of which is recorded adds exactly that block.
LEMMA RecordFacts ==
    ASSUME NEW c, Sound(c), NEW o \in Nat, NEW l \in Nat, Accepts(c, o, l),
           (o..(o + l - 1)) \cap CoveredBytes(c) = {}
    PROVE  LET d == RecordRange(c, o, l)
           IN  /\ Sound(d) /\ d.size = c.size
               /\ d.failed = c.failed /\ d.skipped = c.skipped
               /\ CoveredBytes(d) = CoveredBytes(c) \cup (o..(o + l - 1))
<1> DEFINE d == RecordRange(c, o, l)
<1>1. CASE l = 0
  <2>1. o..(o + l - 1) = {}
    BY <1>1
  <2>2. d = Coverage(c.size, c.ranges, c.bytes, TRUE, c.failed, c.skipped)
    <3>1. Accepts(c, o, 0)
      BY <1>1
    <3> QED BY <1>1, <3>1 DEF RecordRange, NoteEmpty
  <2>3. Sound(d)
    BY <2>2, SameRanges
  <2>4. /\ d.size = c.size /\ d.ranges = c.ranges
        /\ d.failed = c.failed /\ d.skipped = c.skipped
    BY <2>2 DEF Coverage
  <2> HIDE DEF d
  <2>5. CoveredBytes(d) = CoveredBytes(c)
    BY <2>4 DEF CoveredBytes, Starts
  <2> QED BY <2>1, <2>3, <2>4, <2>5 DEF d
<1>2. CASE l > 0
  <2>1. WellFormed(c) /\ Disjoint(c)
    BY DEF Sound
  <2>2. ~Repeated(c, o, l)
    <3> SUFFICES ASSUME Repeated(c, o, l) PROVE FALSE
      OBVIOUS
    <3>1. o \in Starts(c) /\ c.ranges[o] = o + l
      BY DEF Repeated
    <3>2. o \in o..(c.ranges[o] - 1)
      BY <1>2, <3>1
    <3>3. o \in CoveredBytes(c)
      BY <3>1, <3>2 DEF CoveredBytes
    <3> QED BY <1>2, <3>3
  <2>3. Inserts(c, o, l)
    BY <1>2, <2>2 DEF Accepts
  <2>4. d = Insert(c, o, l)
    BY <1>2, <2>3 DEF RecordRange
  <2>5. Sound(d)
    BY <2>3, <2>4, InsertSound
  <2>6. CoveredBytes(d) = CoveredBytes(c) \cup (o..(o + l - 1))
    BY <2>1, <2>3, <2>4, InsertAdds
  <2>7. d.size = c.size /\ d.failed = c.failed /\ d.skipped = c.skipped
    BY <2>4 DEF Insert, Coverage
  <2> QED BY <2>5, <2>6, <2>7
<1> QED BY <1>1, <1>2

\* A file is not complete while one of its chunks is not recorded.
LEMMA ShortIsIncomplete ==
    ASSUME NEW c, Sound(c), NEW x \in 0..(c.size - 1), x \notin CoveredBytes(c)
    PROVE  ~IsComplete(c)
<1>1. c.size > 0
  BY DEF Sound, WellFormed
<1> QED BY <1>1, CompleteCovered

-----------------------------------------------------------------------------
(* The steps of the batch thread and of the user. *)

\* They leave the workers and their blocks alone, apart from starting them; a file
\* is skipped only before that.
LEMMA OtherSteps ==
    ASSUME BatchThread \/ User \/ Woken \/ UNCHANGED vars
    PROVE  \/ StartWorkers
           \/ /\ UNCHANGED <<completed, queue, wpc, blk, pos, localFailed>>
              /\ \/ UNCHANGED coverage
                 \/ pc \in {"resolve", "asked"} /\ Skipping(next) /\ pc' = "resolve"
<1>1. CASE BatchThread
  BY <1>1 DEF BatchThread, workVars, workerVars, choiceVars, ResolveFree, ResolveDecided, Ask,
     Answered, AskInterrupted, StoppedBeforeStart, Join, VerifyFile, VerifyEnds, Outcome,
     CleanUp, Wait, Dozes, FallsAsleep, mainVars
<1>2. CASE User \/ Woken \/ UNCHANGED vars
  BY <1>2 DEF User, vars, workVars, workerVars, choiceVars, AnswerConflict, Stop, Pause,
     Resume, ShutDown, Woken, Wakes
<1> QED BY <1>1, <1>2

\* A step of a worker leaves the batch thread and the choices alone.
LEMMA WorkerFrame ==
    ASSUME TypeOK, NEW w \in Worker, WorkerStep(w) \/ Trouble(w)
    PROVE  /\ UNCHANGED <<mainVars, uiVars, allDecision, existing>>
           /\ wpc[w] \notin {"idle", "exit"} /\ wpc' = [wpc EXCEPT ![w] = wpc'[w]]
           /\ wpc'[w] # "idle"
           /\ state' \in {state, "Running", "Paused", "Failed"}
  BY DEF WorkerStep, Trouble, choiceVars, workerVars, TypeOK, WorkerType, EndBlock, GiveBack,
     WorkerExits, DropFailed, CanGrab, Grab, MakeDirectory, Open, Move, Finish, MovedAll,
     Interrupted, CannotMove, Reconnect, StopReconnecting, Upgrade, LoseLink, FileError,
     LocalError, Pausing

\* A worker that has been started and has not left is waited for by the batch thread.
LEMMA WorkersRun ==
    ASSUME TypeOK, Phases, NEW w \in Worker, wpc[w] \notin {"idle", "exit"}
    PROVE  pc = "run"
  BY DEF TypeOK, BatchType, Phases, AllAt

-----------------------------------------------------------------------------
(* What each way of handling a block changes. *)

\* A worker that keeps its block, or has none, leaves the holders as they were.
LEMMA KeepFacts ==
    ASSUME TypeOK, NEW w \in Worker, Keeps(w)
    PROVE  Holding' = Holding
  BY DEF Keeps, Moves, Holding, TypeOK, WorkerType, Busy

\* A worker that gives its block up had one that was due, and is no holder any more.
LEMMA ReleaseFacts ==
    ASSUME TypeOK, Owned, NEW w \in Worker, Releases(w)
    PROVE  /\ w \in Holding /\ Holding' = Holding \ {w} /\ Due(blk[w])
           /\ blk[w].file \in Files /\ blk[w].off \in Nat /\ blk[w].len \in Nat
           /\ \A v \in Holding' : blk'[v] = blk[v]
<1>1. w \in Holding /\ Holding' = Holding \ {w}
  BY DEF Releases, Moves, Holding, TypeOK, WorkerType, Busy
<1>2. Due(blk[w])
  BY <1>1 DEF Owned
<1>3. \A v \in Holding' : blk'[v] = blk[v]
  BY <1>1 DEF Releases, TypeOK, WorkerType, Holding
<1> QED BY <1>1, <1>2, <1>3 DEF Due, BlockType

\* failFile: the file's coverage is failed and its blocks leave the queue.
LEMMA FailsFacts ==
    ASSUME TypeOK, Recorded, Owned, NEW w \in Worker, Fails(w)
    PROVE  LET f == blk[w].file
               d == coverage'[f]
           IN  /\ DOMAIN coverage' = Files
               /\ d = FailCoverage(coverage[f])
               /\ Sound(d) /\ d.size = coverage[f].size /\ d.skipped = coverage[f].skipped
               /\ d.failed /\ ~IsComplete(d) /\ CoveredBytes(d) = CoveredBytes(coverage[f])
               /\ \A g \in Files \ {f} : coverage'[g] = coverage[g]
               /\ completed' = completed \ {f}
               /\ queue' \in Seq(BlockType)
               /\ \E s \in [DOMAIN queue' -> DOMAIN queue] :
                     /\ \A i \in DOMAIN queue' : queue'[i] = queue[s[i]] /\ queue[s[i]].file # f
                     /\ \A i, j \in DOMAIN queue' : i # j => s[i] # s[j]
                     /\ \A k \in DOMAIN queue :
                           queue[k].file # f => \E i \in DOMAIN queue' : s[i] = k
<1> DEFINE f == blk[w].file
           c == coverage[f]
<1>1. /\ f \in Files /\ Sound(c)
  BY ReleaseFacts DEF Fails, Recorded
<1>2. /\ coverage' = [coverage EXCEPT ![f] = FailCoverage(c)]
      /\ completed' = completed \ {f} /\ queue' \in Without(queue, f)
  BY DEF Fails, FailFile
<1>3. /\ DOMAIN coverage' = Files /\ coverage'[f] = FailCoverage(c)
      /\ \A g \in Files \ {f} : coverage'[g] = coverage[g]
  BY <1>1, <1>2 DEF TypeOK, WorkType
<1>4. queue \in Seq(BlockType)
  BY DEF TypeOK, WorkType
<1> QED BY <1>1, <1>2, <1>3, <1>4, GivenUpFacts, WithoutFacts

\* Recording a block that was due adds just its chunks to the record of its file.
LEMMA RecordsFacts ==
    ASSUME TypeOK, Recorded, Owned, NEW w \in Worker, Records(w)
    PROVE  LET f == blk[w].file
               d == coverage'[f]
           IN  /\ DOMAIN coverage' = Files
               /\ Sound(d) /\ d.size = coverage[f].size /\ d.skipped = coverage[f].skipped
               /\ ~coverage[f].failed /\ d.failed = coverage[f].failed
               /\ CoveredBytes(d) = CoveredBytes(coverage[f]) \cup Extent(blk[w])
               /\ \A g \in Files \ {f} : coverage'[g] = coverage[g]
               /\ completed' = IF IsComplete(d) THEN completed \cup {f} ELSE completed
<1> DEFINE b == blk[w]
           f == b.file
           c == coverage[f]
           o == b.off
           l == b.len
           after == RecordRange(c, o, l)
<1>1. /\ Due(b) /\ f \in Files /\ b.off \in Nat /\ b.len \in Nat /\ Sound(c)
  BY ReleaseFacts DEF Records, Recorded
<1>2. Accepts(c, b.off, b.len) /\ coverage' = [coverage EXCEPT ![f] = after]
      /\ completed' = IF IsComplete(after) THEN completed \cup {f} ELSE completed
  BY DEF Records
<1>3. ~c.failed
  BY <1>2 DEF Accepts
<1>4. (b.off..(b.off + b.len - 1)) \cap CoveredBytes(c) = {}
  BY <1>1, <1>3 DEF Due, Extent
<1>5. /\ DOMAIN coverage' = Files /\ coverage'[f] = after
      /\ \A g \in Files \ {f} : coverage'[g] = coverage[g]
  BY <1>1, <1>2 DEF TypeOK, WorkType
<1>6. /\ Sound(after) /\ after.size = c.size
      /\ after.failed = c.failed /\ after.skipped = c.skipped
      /\ CoveredBytes(after) = CoveredBytes(c) \cup Extent(b)
  <2>1. Extent(b) = o..(o + l - 1)
    BY DEF Extent
  <2>2. o \in Nat /\ l \in Nat /\ Sound(c) /\ Accepts(c, o, l)
        /\ (o..(o + l - 1)) \cap CoveredBytes(c) = {}
    BY <1>1, <1>2, <1>4
  <2> HIDE DEF c, o, l
  <2>3. LET d == RecordRange(c, o, l)
        IN  /\ Sound(d) /\ d.size = c.size
            /\ d.failed = c.failed /\ d.skipped = c.skipped
            /\ CoveredBytes(d) = CoveredBytes(c) \cup (o..(o + l - 1))
    BY <2>2, RecordFacts
  <2> QED BY <2>1, <2>3
<1> QED BY <1>2, <1>3, <1>5, <1>6

\* Every step keeps the records sound and completedFileIndices true to them.
LEMMA RecordedKept ==
    ASSUME TypeOK, Recorded, Phases, Owned, [Next]_vars
    PROVE  Recorded'
<1>1. CASE UNCHANGED <<coverage, completed>>
  BY <1>1 DEF Recorded
<1>2. ASSUME pc \in {"resolve", "asked"}, Skipping(next), UNCHANGED completed PROVE Recorded'
  <2>1. completed' = {}
    BY <1>2 DEF Phases
  <2>2. \A f \in Files : coverage'[f] \in {coverage[f], SkipCoverage(coverage[f])}
    BY <1>2 DEF Skipping, TypeOK, WorkType
  <2>3. \A f \in Files : Sound(coverage'[f])
    BY <2>2, GivenUpFacts DEF Recorded
  <2> QED BY <2>1, <2>3 DEF Recorded
<1>3. ASSUME NEW w \in Worker, Fails(w) PROVE Recorded'
  BY <1>3, FailsFacts DEF Recorded, TypeOK, BatchType
<1>4. ASSUME NEW w \in Worker, Records(w) PROVE Recorded'
  <2>1. ~IsComplete(coverage[blk[w].file])
    BY <1>4, ReleaseFacts DEF Records, Due
  <2> QED BY <1>4, <2>1, RecordsFacts DEF Recorded, TypeOK, BatchType
<1>5. ASSUME NEW w \in Worker,
             Keeps(w) \/ DropFailed(w) \/ Grab(w) \/ Drops(w) \/ Returns(w) \/ LocalError(w)
      PROVE  UNCHANGED <<coverage, completed>>
  BY <1>5 DEF Keeps, DropFailed, Grab, Drops, Returns, LocalError
<1>6. CASE StartWorkers
  BY <1>1, <1>6 DEF StartWorkers
<1> QED BY <1>1, <1>2, <1>3, <1>4, <1>5, <1>6, WorkerMoves, OtherSteps
     DEF Next, Ended

-----------------------------------------------------------------------------
(* Who owns which block. *)

\* Blocks apart are apart in either order.
LEMMA ApartSym ==
    ASSUME NEW a, NEW b, Apart(a, b)
    PROVE  Apart(b, a)
  BY DEF Apart

\* A part of a block is apart from what the block is apart from.
Part(a, b) == a.file = b.file /\ b.off <= a.off /\ a.off + a.len <= b.off + b.len

\* What is apart from a block is apart from its parts.
LEMMA PartApart ==
    ASSUME NEW a \in BlockType, NEW b \in BlockType, NEW x \in BlockType, Part(a, b), Apart(b, x)
    PROVE  Apart(a, x) /\ Apart(x, a)
  BY DEF Apart, Part, BlockType

\* A part of a block that is due is due.
LEMMA PartDue ==
    ASSUME NEW a \in BlockType, NEW b, Due(b), Part(a, b),
           IF Kind(b.file) = "split" THEN a.len > 0 ELSE a.off = b.off /\ a.len = b.len
    PROVE  Due(a)
<1>1. b \in BlockType /\ Size(b.file) \in Nat
  BY SizesAreNat DEF Due, BlockType
<1>2. Extent(a) \subseteq Extent(b)
  BY <1>1 DEF Extent, Part, BlockType
<1>3. a.off + a.len <= Size(a.file)
  BY <1>1 DEF Due, Part, BlockType
<1> QED BY <1>1, <1>2, <1>3 DEF Due, Part

\* Another worker's block stays due when a block of the same file is recorded or
\* given up with the file.
LEMMA StillDue ==
    ASSUME TypeOK, Recorded, Owned, NEW w \in Worker, Fails(w) \/ Records(w),
           NEW b, Due(b), Apart(b, blk[w])
    PROVE  Due(b)'
<1> DEFINE f == blk[w].file
<1>1. b \in BlockType /\ b.file \in Files
  BY DEF Due, BlockType
<1>2. CASE b.file # f
  <2>1. coverage'[b.file] = coverage[b.file]
    BY <1>1, <1>2, FailsFacts, RecordsFacts
  <2> QED BY <2>1 DEF Due
<1>3. CASE b.file = f
  <2>1. Kind(f) = "split" /\ b.len > 0
    BY <1>3 DEF Apart, Due
  <2>2. CASE Fails(w)
    <3>1. LET d == coverage'[f]
          IN  d.failed /\ d.skipped = coverage[f].skipped /\ ~IsComplete(d)
      BY <2>2, FailsFacts
    <3> QED BY <1>3, <2>1, <3>1 DEF Due
  <2>3. CASE Records(w)
    <3> DEFINE d == coverage'[f]
    <3>1. /\ Sound(d) /\ d.size = coverage[f].size /\ d.skipped = coverage[f].skipped
          /\ ~coverage[f].failed /\ d.failed = coverage[f].failed
          /\ CoveredBytes(d) = CoveredBytes(coverage[f]) \cup Extent(blk[w])
      BY <2>3, RecordsFacts
    <3> HIDE DEF d
    <3>2. Due(blk[w])
      BY <2>3, ReleaseFacts DEF Records
    <3>3. Extent(b) \cap Extent(blk[w]) = {}
      BY <1>1, <1>3, <3>2 DEF Apart, Extent, Due, BlockType
    <3>4. Extent(b) \cap CoveredBytes(d) = {}
      BY <1>3, <3>1, <3>3 DEF Due
    <3>5. b.off \in Extent(b) /\ b.off \in 0..(d.size - 1)
      BY <1>1, <1>3, <2>1, <3>1, SizesAreNat DEF Extent, Due, BlockType, TypeOK, WorkType
    <3>6. ~IsComplete(d)
      BY <3>1, <3>4, <3>5, ShortIsIncomplete
    <3> QED BY <1>1, <1>3, <2>1, <3>1, <3>4, <3>6 DEF Due, d
  <2> QED BY <2>2, <2>3
<1> QED BY <1>2, <1>3

\* A worker gives its block up: what the others hold stays apart.
LEMMA OwnedReleased ==
    ASSUME TypeOK, Owned, NEW w \in Worker, Releases(w),
           \A b : Due(b) /\ Apart(b, blk[w]) => Due(b)'
    PROVE  /\ \A v \in Holding' : Due(blk[v])' /\ Apart(blk[v], blk[w])
           /\ \A u, v \in Holding' : u # v => Apart(blk[u], blk[v])'
<1>1. Holding' = Holding \ {w} /\ w \in Holding
  BY ReleaseFacts
<1>2. \A v \in Holding' : blk'[v] = blk[v]
  BY ReleaseFacts
<1>3. \A v \in Holding' : Due(blk[v]) /\ Apart(blk[v], blk[w])
  BY <1>1 DEF Owned
<1>4. \A u, v \in Holding' : u # v => Apart(blk[u], blk[v])
  BY <1>1 DEF Owned
<1>5. ASSUME NEW v \in Holding' PROVE Due(blk[v])'
  <2>1. Due(blk'[v])
    BY <1>2, <1>3
  <2>2. Apart(blk'[v], blk[w])
    BY <1>2, <1>3
  <2> QED BY <2>1, <2>2
<1>6. ASSUME NEW u \in Holding', NEW v \in Holding', u # v PROVE Apart(blk[u], blk[v])'
  BY <1>2, <1>4, <1>6 DEF Apart
<1> QED BY <1>3, <1>5, <1>6

\* What ownership says of the queue.
LEMMA OwnedQueue ==
    ASSUME TypeOK, Owned
    PROVE  /\ \A i \in DOMAIN queue : Due(queue[i])
           /\ \A i, j \in DOMAIN queue : i # j => Apart(queue[i], queue[j])
           /\ \A w \in Holding : \A i \in DOMAIN queue :
                 Apart(queue[i], blk[w]) /\ Apart(blk[w], queue[i])
  BY ApartSym DEF Owned

\* A file given up takes its queued blocks along; the others stay apart.
LEMMA OwnedFails ==
    ASSUME TypeOK, Recorded, Owned, NEW w \in Worker, Fails(w)
    PROVE  Owned'
<1>1. Releases(w) /\ w \in Holding /\ Holding' = Holding \ {w}
  BY ReleaseFacts DEF Fails
<1>2. \A b : Due(b) /\ Apart(b, blk[w]) => Due(b)'
  BY StillDue
<1>3. /\ \A v \in Holding' : Due(blk[v])'
      /\ \A u, v \in Holding' : u # v => Apart(blk[u], blk[v])'
  BY <1>1, <1>2, OwnedReleased
<1>4. PICK s \in [DOMAIN queue' -> DOMAIN queue] :
        /\ \A i \in DOMAIN queue' : queue'[i] = queue[s[i]] /\ queue[s[i]].file # blk[w].file
        /\ \A i, j \in DOMAIN queue' : i # j => s[i] # s[j]
  BY FailsFacts
<1>5. ASSUME NEW i \in DOMAIN queue' PROVE Due(queue[i])'
  <2>1. Due(queue'[i])
    BY <1>4, OwnedQueue
  <2>2. Apart(queue'[i], blk[w])
    BY <1>1, <1>4, OwnedQueue
  <2> QED BY <1>2, <2>1, <2>2
<1>6. ASSUME NEW i \in DOMAIN queue', NEW j \in DOMAIN queue', i # j
      PROVE  Apart(queue[i], queue[j])'
  <2>1. Apart(queue[s[i]], queue[s[j]])
    BY <1>4, <1>6, OwnedQueue
  <2> QED BY <1>4, <2>1 DEF Apart
<1>7. ASSUME NEW i \in DOMAIN queue', NEW v \in Holding' PROVE Apart(queue[i], blk[v])'
  <2>1. Apart(queue[s[i]], blk[v]) /\ blk'[v] = blk[v]
    BY <1>1, <1>4, OwnedQueue, ReleaseFacts
  <2> QED BY <1>4, <2>1 DEF Apart
<1> QED BY <1>3, <1>5, <1>6, <1>7 DEF Owned

\* A recorded block leaves the others due: none of their chunks is now on record.
LEMMA OwnedRecords ==
    ASSUME TypeOK, Recorded, Owned, NEW w \in Worker, Records(w)
    PROVE  Owned'
<1>1. Releases(w) /\ w \in Holding /\ Holding' = Holding \ {w} /\ queue' = queue
  BY ReleaseFacts DEF Records
<1>2. \A b : Due(b) /\ Apart(b, blk[w]) => Due(b)'
  BY StillDue
<1>3. /\ \A v \in Holding' : Due(blk[v])'
      /\ \A u, v \in Holding' : u # v => Apart(blk[u], blk[v])'
  BY <1>1, <1>2, OwnedReleased
<1>4. \A i \in DOMAIN queue' : Due(queue[i])'
  BY <1>1, <1>2, OwnedQueue
<1>5. \A i, j \in DOMAIN queue' : i # j => Apart(queue[i], queue[j])'
  BY <1>1, OwnedQueue DEF Apart
<1>6. ASSUME NEW i \in DOMAIN queue', NEW v \in Holding' PROVE Apart(queue[i], blk[v])'
  <2>1. Apart(queue[i], blk[v]) /\ blk'[v] = blk[v]
    BY <1>1, OwnedQueue, ReleaseFacts
  <2> QED BY <1>1, <2>1 DEF Apart
<1> QED BY <1>3, <1>4, <1>5, <1>6 DEF Owned

\* Nothing is recorded, and the worker keeps its block or has none.
LEMMA OwnedSame ==
    ASSUME Owned, UNCHANGED <<queue, coverage, blk>>, Holding' = Holding
    PROVE  Owned'
<1>1. \A b : Due(b) => Due(b)'
  BY DEF Due
<1> QED BY <1>1 DEF Owned, Apart

\* Whether a block is due depends on the coverages alone.
LEMMA SameCoverageDue ==
    ASSUME UNCHANGED coverage
    PROVE  \A b : Due(b) => Due(b)'
  BY DEF Due

\* A block dropped leaves the others as they were.
LEMMA OwnedDrops ==
    ASSUME TypeOK, Owned, NEW w \in Worker, Releases(w), UNCHANGED coverage,
           queue' = queue \/ queue' = <<>>
    PROVE  Owned'
<1>1. w \in Holding /\ Holding' = Holding \ {w}
  BY ReleaseFacts
<1>2. /\ \A v \in Holding' : Due(blk[v])'
      /\ \A u, v \in Holding' : u # v => Apart(blk[u], blk[v])'
  BY SameCoverageDue, OwnedReleased
<1>3. CASE queue' = <<>>
  BY <1>2, <1>3 DEF Owned
<1>4. CASE queue' = queue
  <2>1. \A i \in DOMAIN queue' : Due(queue[i])'
    BY <1>4, SameCoverageDue, OwnedQueue
  <2>2. \A i, j \in DOMAIN queue' : i # j => Apart(queue[i], queue[j])'
    BY <1>4, OwnedQueue DEF Apart
  <2>3. ASSUME NEW i \in DOMAIN queue', NEW v \in Holding' PROVE Apart(queue[i], blk[v])'
    <3>1. Apart(queue[i], blk[v]) /\ blk'[v] = blk[v]
      BY <1>1, <1>4, OwnedQueue, ReleaseFacts
    <3> QED BY <1>4, <3>1 DEF Apart
  <2> QED BY <1>2, <2>1, <2>2, <2>3 DEF Owned
<1> QED BY <1>3, <1>4

\* A block given back waits behind the others, with one more failure.
LEMMA ReturnsFacts ==
    ASSUME TypeOK, Owned, NEW w \in Worker, Returns(w)
    PROVE  LET b == [blk[w] EXCEPT !.tries = @ + 1]
           IN  /\ b \in BlockType /\ Due(b) /\ Part(b, blk[w]) /\ Part(blk[w], b)
               /\ queue' \in Seq(BlockType) /\ Len(queue') = Len(queue) + 1
               /\ \A i \in DOMAIN queue' : queue'[i] = IF i = Len(queue) + 1 THEN b ELSE queue[i]
               /\ \A i \in DOMAIN queue' : i = Len(queue) + 1 \/ i \in DOMAIN queue
               /\ \A i \in DOMAIN queue : i \in DOMAIN queue' /\ i # Len(queue) + 1
               /\ Len(queue) + 1 \in DOMAIN queue'
<1> DEFINE b == [blk[w] EXCEPT !.tries = @ + 1]
<1>1. Due(blk[w]) /\ blk[w] \in BlockType
  BY ReleaseFacts DEF Returns, Due
<1>2. b \in BlockType /\ b.file = blk[w].file /\ b.off = blk[w].off /\ b.len = blk[w].len
  <2>1. /\ blk[w].file \in Files /\ blk[w].off \in Nat /\ blk[w].len \in Nat
        /\ blk[w].tries \in 0..(MaxTries - 1)
    BY <1>1 DEF BlockType
  <2>2. blk[w].tries + 1 \in 0..(MaxTries - 1)
    BY <2>1, BoundsAssumption DEF Returns
  <2>3. b = [file |-> blk[w].file, off |-> blk[w].off, len |-> blk[w].len,
             tries |-> blk[w].tries + 1]
    BY <1>1 DEF BlockType
  <2> QED BY <2>1, <2>2, <2>3 DEF BlockType
<1>3. Due(b)
  BY <1>1, <1>2 DEF Due, Extent
<1>4. Part(b, blk[w]) /\ Part(blk[w], b)
  BY <1>1, <1>2 DEF Part, BlockType
<1>5. queue' = Append(queue, b) /\ queue \in Seq(BlockType)
  BY DEF Returns, TypeOK, WorkType
<1> HIDE DEF b
<1> QED BY <1>2, <1>3, <1>4, <1>5 DEF b

\* A block given back to the queue has its one place there.
LEMMA OwnedReturns ==
    ASSUME TypeOK, Owned, NEW w \in Worker, Returns(w)
    PROVE  Owned'
<1> DEFINE b == [blk[w] EXCEPT !.tries = @ + 1]
           n == Len(queue) + 1
<1>1. Releases(w) /\ w \in Holding /\ Holding' = Holding \ {w} /\ UNCHANGED coverage
  BY ReleaseFacts DEF Returns
<1>2. /\ \A v \in Holding' : Due(blk[v])' /\ Apart(blk[v], blk[w]) /\ blk'[v] = blk[v]
      /\ \A u, v \in Holding' : u # v => Apart(blk[u], blk[v])'
  BY <1>1, SameCoverageDue, OwnedReleased, ReleaseFacts
<1>3. /\ b \in BlockType /\ Due(b) /\ Part(b, blk[w]) /\ blk[w] \in BlockType
      /\ \A i \in DOMAIN queue' : queue'[i] = IF i = n THEN b ELSE queue[i]
      /\ \A i \in DOMAIN queue' : i = n \/ i \in DOMAIN queue
  BY <1>1, ReturnsFacts, ReleaseFacts DEF Due
<1> HIDE DEF b, n
<1>4. \A x \in BlockType : Apart(x, blk[w]) => Apart(x, b) /\ Apart(b, x)
  BY <1>3, ApartSym, PartApart
<1>5. ASSUME NEW i \in DOMAIN queue' PROVE Due(queue[i])'
  <2>1. Due(queue'[i])
    BY <1>3, OwnedQueue
  <2> QED BY <1>1, <2>1, SameCoverageDue
<1>6. ASSUME NEW i \in DOMAIN queue', NEW j \in DOMAIN queue', i # j
      PROVE  Apart(queue'[i], queue'[j])
  <2>1. CASE i = n
    <3>1. queue'[i] = b /\ j \in DOMAIN queue /\ queue'[j] = queue[j]
      BY <1>3, <1>6, <2>1
    <3>2. queue[j] \in BlockType /\ Apart(queue[j], blk[w])
      BY <1>1, <3>1, OwnedQueue DEF Due
    <3> QED BY <1>4, <3>1, <3>2
  <2>2. CASE j = n
    <3>1. queue'[j] = b /\ i \in DOMAIN queue /\ queue'[i] = queue[i]
      BY <1>3, <1>6, <2>2
    <3>2. queue[i] \in BlockType /\ Apart(queue[i], blk[w])
      BY <1>1, <3>1, OwnedQueue DEF Due
    <3> QED BY <1>4, <3>1, <3>2
  <2>3. CASE i # n /\ j # n
    BY <1>3, <1>6, <2>3, OwnedQueue
  <2> QED BY <2>1, <2>2, <2>3
<1>7. ASSUME NEW i \in DOMAIN queue', NEW v \in Holding' PROVE Apart(queue'[i], blk'[v])
  <2>1. CASE i = n
    <3>1. Apart(blk[v], blk[w]) /\ blk[v] \in BlockType /\ queue'[i] = b /\ blk'[v] = blk[v]
      BY <1>1, <1>2, <1>3, <2>1 DEF Owned, Due
    <3> QED BY <1>4, <3>1
  <2>2. CASE i # n
    BY <1>1, <1>2, <1>3, <2>2, OwnedQueue
  <2> QED BY <2>1, <2>2
<1> QED BY <1>2, <1>5, <1>6, <1>7 DEF Owned, Apart

\* The first block of the queue thrown away leaves the others as they were.
LEMMA OwnedDropFailed ==
    ASSUME TypeOK, Owned, NEW w \in Worker, DropFailed(w)
    PROVE  Owned'
<1>1. /\ queue' = Tail(queue) /\ queue # <<>> /\ UNCHANGED <<coverage, blk>> /\ Holding' = Holding
      /\ queue \in Seq(BlockType)
  BY DEF DropFailed, CanGrab, workerVars, Holding, TypeOK, WorkType
<1>2. \A i \in DOMAIN queue' : i + 1 \in DOMAIN queue /\ queue'[i] = queue[i + 1] /\ i \in Nat
  BY <1>1
<1>3. \A i \in DOMAIN queue' : Due(queue[i])'
  BY <1>1, <1>2, SameCoverageDue, OwnedQueue
<1>4. ASSUME NEW i \in DOMAIN queue', NEW j \in DOMAIN queue', i # j
      PROVE  Apart(queue'[i], queue'[j])
  <2>1. i + 1 # j + 1
    BY <1>2, <1>4
  <2> QED BY <1>2, <2>1, OwnedQueue
<1>5. \A i \in DOMAIN queue' : \A v \in Holding' : Apart(queue'[i], blk'[v])
  BY <1>1, <1>2, OwnedQueue
<1>6. /\ \A v \in Holding' : Due(blk[v])'
      /\ \A u, v \in Holding' : u # v => Apart(blk[u], blk[v])'
  BY <1>1, SameCoverageDue DEF Owned, Apart
<1> QED BY <1>3, <1>4, <1>5, <1>6 DEF Owned, Apart

\* A worker takes a slice of the first block and leaves the rest at its place.
Slice(b, n) == [b EXCEPT !.len = n]
Rest(b, n) == [b EXCEPT !.off = @ + n, !.len = @ - n]

\* The slice and the rest divide the block between them.
LEMMA SliceFacts ==
    ASSUME NEW b, Due(b), NEW n \in Nat, n <= b.len,
           IF Kind(b.file) = "split" THEN n > 0 ELSE n = b.len
    PROVE  /\ Slice(b, n) \in BlockType /\ Due(Slice(b, n)) /\ Part(Slice(b, n), b)
           /\ Slice(b, n).file = b.file /\ Slice(b, n).off = b.off /\ Slice(b, n).len = n
           /\ n < b.len =>
                 /\ Rest(b, n) \in BlockType /\ Due(Rest(b, n)) /\ Part(Rest(b, n), b)
                 /\ Rest(b, n).file = b.file /\ Rest(b, n).off = b.off + n
                 /\ Rest(b, n).len = b.len - n
                 /\ Apart(Slice(b, n), Rest(b, n))
<1>1. b \in BlockType
  BY DEF Due
<1>2. /\ Slice(b, n) \in BlockType /\ Slice(b, n).file = b.file
      /\ Slice(b, n).off = b.off /\ Slice(b, n).len = n
  BY <1>1 DEF Slice, BlockType
<1>3. Part(Slice(b, n), b)
  BY <1>1, <1>2 DEF Part, BlockType
<1>4. Due(Slice(b, n))
  BY <1>2, <1>3, PartDue
<1>5. ASSUME n < b.len
      PROVE  /\ Rest(b, n) \in BlockType /\ Due(Rest(b, n)) /\ Part(Rest(b, n), b)
             /\ Rest(b, n).file = b.file /\ Rest(b, n).off = b.off + n
             /\ Rest(b, n).len = b.len - n
             /\ Apart(Slice(b, n), Rest(b, n))
  <2>1. /\ Rest(b, n) \in BlockType /\ Rest(b, n).file = b.file
        /\ Rest(b, n).off = b.off + n /\ Rest(b, n).len = b.len - n
    <3>1. b.off + n \in Nat /\ b.len - n \in Nat
      BY <1>1, <1>5 DEF BlockType
    <3> DEFINE c == [b EXCEPT !.off = b.off + n]
    <3>2. c \in BlockType /\ c.file = b.file /\ c.off = b.off + n /\ c.len = b.len
      BY <1>1, <3>1 DEF BlockType
    <3> HIDE DEF c
    <3> DEFINE d == [c EXCEPT !.len = b.len - n]
    <3>3. d \in BlockType /\ d.file = b.file /\ d.off = b.off + n /\ d.len = b.len - n
      BY <3>1, <3>2 DEF BlockType
    <3>4. Rest(b, n) = d
      BY <3>2 DEF Rest, c
    <3> QED BY <3>3, <3>4
  <2>2. Kind(b.file) = "split"
    BY <1>5
  <2>3. Part(Rest(b, n), b) /\ Rest(b, n).len > 0
    BY <1>1, <1>5, <2>1 DEF Part, BlockType
  <2>4. Due(Rest(b, n))
    BY <2>1, <2>2, <2>3, PartDue
  <2>5. Apart(Slice(b, n), Rest(b, n))
    BY <1>1, <1>2, <2>1, <2>2 DEF Apart, BlockType
  <2> QED BY <2>1, <2>3, <2>4, <2>5
<1> QED BY <1>2, <1>3, <1>4, <1>5

\* The part of the queue that is not the slice, place by place.
LEMMA GrabFacts ==
    ASSUME TypeOK, Owned, NEW w \in Worker, Grab(w)
    PROVE  /\ queue # <<>> /\ 1 \in DOMAIN queue /\ queue \in Seq(BlockType)
           /\ ~coverage[queue[1].file].failed
           /\ w \notin Holding /\ Holding' = Holding \cup {w}
           /\ \A v \in Holding : blk'[v] = blk[v]
           /\ UNCHANGED <<coverage, completed>>
           /\ \E n \in Nat :
                 /\ n <= queue[1].len
                 /\ IF Kind(queue[1].file) = "split" THEN n > 0 ELSE n = queue[1].len
                 /\ blk'[w] = Slice(queue[1], n)
                 /\ queue' = IF n < queue[1].len THEN <<Rest(queue[1], n)>> \o Tail(queue)
                             ELSE Tail(queue)
<1>1. /\ queue # <<>> /\ queue \in Seq(BlockType) /\ ~coverage[Head(queue).file].failed
      /\ wpc[w] = "top" /\ wpc' = [wpc EXCEPT ![w] = "open"]
      /\ UNCHANGED <<coverage, completed>>
  BY DEF Grab, CanGrab, TypeOK, WorkType
<1>2. Head(queue) = queue[1] /\ 1 \in DOMAIN queue /\ queue[1] \in BlockType
  BY <1>1
<1>3. w \notin Holding /\ Holding' = Holding \cup {w}
  BY <1>1 DEF Holding, Busy, TypeOK, WorkerType
<1>4. PICK n \in IF Kind(queue[1].file) = "split" THEN 1..queue[1].len ELSE {queue[1].len} :
        /\ blk' = [blk EXCEPT ![w] = [queue[1] EXCEPT !.len = n]]
        /\ queue' = IF n < queue[1].len
                    THEN <<[queue[1] EXCEPT !.off = @ + n, !.len = @ - n]>> \o Tail(queue)
                    ELSE Tail(queue)
  BY <1>2 DEF Grab
<1>5. /\ n \in Nat /\ n <= queue[1].len
      /\ IF Kind(queue[1].file) = "split" THEN n > 0 ELSE n = queue[1].len
  BY <1>2, <1>4 DEF BlockType
<1>6. blk'[w] = Slice(queue[1], n) /\ \A v \in Holding : blk'[v] = blk[v]
  BY <1>3, <1>4 DEF Slice, TypeOK, WorkerType, Holding
<1> QED BY <1>1, <1>2, <1>3, <1>4, <1>5, <1>6 DEF Rest

\* The rest takes the place of the block; the others keep theirs.
LEMMA QueueAfterSlice ==
    ASSUME NEW q \in Seq(BlockType), q # <<>>, NEW rest \in BlockType, NEW r,
           r = <<rest>> \o Tail(q)
    PROVE  /\ r \in Seq(BlockType) /\ DOMAIN r = DOMAIN q /\ r[1] = rest /\ 1 \in DOMAIN q
           /\ \A i \in DOMAIN r : i # 1 => r[i] = q[i]
<1>1. Tail(q) \in Seq(BlockType) /\ Len(Tail(q)) = Len(q) - 1 /\ Len(q) \in Nat \ {0}
  OBVIOUS
<1>2. <<rest>> \in Seq(BlockType) /\ Len(<<rest>>) = 1
  OBVIOUS
<1>3. r \in Seq(BlockType) /\ Len(r) = Len(q)
  BY <1>1, <1>2
<1>4. \A i \in 1..Len(r) : r[i] = IF i = 1 THEN rest ELSE Tail(q)[i - 1]
  BY <1>1, <1>2, <1>3
<1>5. \A i \in 1..Len(r) : i # 1 => Tail(q)[i - 1] = q[i]
  BY <1>1, <1>3
<1> QED BY <1>1, <1>3, <1>4, <1>5

\* Slicing a block makes two owners of disjoint parts out of one.
LEMMA OwnedGrab ==
    ASSUME TypeOK, Owned, NEW w \in Worker, Grab(w)
    PROVE  Owned'
<1> DEFINE b == queue[1]
<1>1. /\ queue # <<>> /\ 1 \in DOMAIN queue /\ queue \in Seq(BlockType)
      /\ w \notin Holding /\ Holding' = Holding \cup {w}
      /\ \A v \in Holding : blk'[v] = blk[v]
      /\ UNCHANGED coverage
  BY GrabFacts
<1>2. PICK n \in Nat :
        /\ n <= b.len
        /\ IF Kind(b.file) = "split" THEN n > 0 ELSE n = b.len
        /\ blk'[w] = Slice(b, n)
        /\ queue' = IF n < b.len THEN <<Rest(b, n)>> \o Tail(queue) ELSE Tail(queue)
  BY GrabFacts
<1>3. Due(b) /\ b \in BlockType
  BY <1>1, OwnedQueue DEF Due
<1> DEFINE mine == Slice(b, n)
           rest == Rest(b, n)
<1>4. /\ mine \in BlockType /\ Due(mine) /\ Part(mine, b)
      /\ n < b.len => /\ rest \in BlockType /\ Due(rest) /\ Part(rest, b)
                      /\ Apart(mine, rest)
  BY <1>2, <1>3, SliceFacts
<1> HIDE DEF mine, rest
<1>5. \A x \in BlockType : Apart(b, x) \/ Apart(x, b) =>
          /\ Apart(mine, x) /\ Apart(x, mine)
          /\ n < b.len => Apart(rest, x) /\ Apart(x, rest)
  BY <1>3, <1>4, PartApart, ApartSym
<1>6. \A i \in DOMAIN queue : queue[i] \in BlockType /\ Due(queue[i])
  BY <1>1, OwnedQueue
<1>7. \A v \in Holding : blk[v] \in BlockType /\ Due(blk[v]) /\ Apart(b, blk[v])
  BY <1>1 DEF Owned, Due
\* Each place of the new queue is the rest's or one behind the first of the old queue.
<1>8. \A i \in DOMAIN queue' :
          \/ i = 1 /\ n < b.len /\ queue'[i] = rest
          \/ \E k \in DOMAIN queue : k # 1 /\ queue'[i] = queue[k]
                                     /\ k = (IF n < b.len THEN i ELSE i + 1) /\ i \in Int
  <2>1. CASE n < b.len
    BY <1>1, <1>2, <1>4, <2>1, QueueAfterSlice DEF rest
  <2>2. CASE ~(n < b.len)
    <3>1. queue' = Tail(queue)
      BY <1>2, <2>2
    <3> QED BY <1>1, <2>2, <3>1
  <2> QED BY <2>1, <2>2
<1>9. \A i \in DOMAIN queue' : Due(queue'[i]) /\ queue'[i] \in BlockType
                               /\ Apart(queue'[i], mine) /\ Apart(mine, queue'[i])
  <2> SUFFICES ASSUME NEW i \in DOMAIN queue'
               PROVE  Due(queue'[i]) /\ queue'[i] \in BlockType
                      /\ Apart(queue'[i], mine) /\ Apart(mine, queue'[i])
    OBVIOUS
  <2>1. CASE i = 1 /\ n < b.len /\ queue'[i] = rest
    BY <1>4, <2>1, ApartSym
  <2>2. ASSUME NEW k \in DOMAIN queue, k # 1, queue'[i] = queue[k]
        PROVE  Due(queue'[i]) /\ queue'[i] \in BlockType
               /\ Apart(queue'[i], mine) /\ Apart(mine, queue'[i])
    <3>1. Apart(b, queue[k])
      BY <1>1, <2>2, OwnedQueue
    <3> QED BY <1>5, <1>6, <2>2, <3>1
  <2> QED BY <1>8, <2>1, <2>2
<1>10. \A i \in DOMAIN queue' : \A v \in Holding : Apart(queue'[i], blk[v])
  <2> SUFFICES ASSUME NEW i \in DOMAIN queue', NEW v \in Holding
               PROVE  Apart(queue'[i], blk[v])
    OBVIOUS
  <2>1. CASE i = 1 /\ n < b.len /\ queue'[i] = rest
    BY <1>5, <1>7, <2>1
  <2>2. ASSUME NEW k \in DOMAIN queue, queue'[i] = queue[k] PROVE Apart(queue'[i], blk[v])
    BY <2>2, OwnedQueue
  <2> QED BY <1>8, <2>1, <2>2
<1>11. \A i, j \in DOMAIN queue' : i # j => Apart(queue'[i], queue'[j])
  <2> SUFFICES ASSUME NEW i \in DOMAIN queue', NEW j \in DOMAIN queue', i # j
               PROVE  Apart(queue'[i], queue'[j])
    OBVIOUS
  <2>1. ASSUME NEW k \in DOMAIN queue, k # 1, queue[k] \in BlockType, n < b.len
        PROVE  Apart(rest, queue[k]) /\ Apart(queue[k], rest)
    <3>1. Apart(b, queue[k])
      BY <1>1, <2>1, OwnedQueue
    <3> QED BY <1>5, <2>1, <3>1
  <2>2. CASE i = 1 /\ n < b.len /\ queue'[i] = rest
    BY <1>6, <1>8, <2>1, <2>2
  <2>3. CASE j = 1 /\ n < b.len /\ queue'[j] = rest
    BY <1>6, <1>8, <2>1, <2>3
  <2>4. ASSUME NEW k \in DOMAIN queue, NEW m \in DOMAIN queue, k # m,
               queue'[i] = queue[k], queue'[j] = queue[m]
        PROVE  Apart(queue'[i], queue'[j])
    BY <2>4, OwnedQueue
  <2> QED BY <1>8, <2>2, <2>3, <2>4
<1>12. \A x : Due(x) => Due(x)'
  BY <1>1, SameCoverageDue
<1>13. /\ \A v \in Holding' : Due(blk'[v])
       /\ \A u, v \in Holding' : u # v => Apart(blk'[u], blk'[v])
       /\ \A i \in DOMAIN queue' : \A v \in Holding' : Apart(queue'[i], blk'[v])
  <2>1. blk'[w] = mine
    BY <1>2 DEF mine
  <2>2. \A u, v \in Holding : u # v => Apart(blk[u], blk[v])
    BY DEF Owned
  <2>3. \A v \in Holding : Apart(mine, blk[v]) /\ Apart(blk[v], mine)
    BY <1>5, <1>7
  <2> QED BY <1>1, <1>4, <1>7, <1>9, <1>10, <2>1, <2>2, <2>3
<1>14. \A i \in DOMAIN queue' : Due(queue[i])'
  BY <1>9, <1>12
<1>15. \A v \in Holding' : Due(blk[v])'
  BY <1>12, <1>13
<1> QED BY <1>11, <1>13, <1>14, <1>15 DEF Owned, Apart

\* The queue the workers start with has every block once.
LEMMA StartFacts ==
    ASSUME TypeOK, Recorded, Phases, StartWorkers
    PROVE  /\ queue' \in Seq(BlockType)
           /\ \A i \in DOMAIN queue' : Due(queue'[i])
           /\ \A i, j \in DOMAIN queue' : i # j => Apart(queue'[i], queue'[j])
           /\ \A f \in Files : ~coverage[f].skipped => \A x \in Bytes(f) :
                 \E i \in DOMAIN queue' : queue'[i].file = f /\ x \in Extent(queue'[i])
           /\ Holding' = {} /\ UNCHANGED coverage /\ pc = "resolve"
<1>1. PICK q \in SetToSeqs(Blocks) : queue' = q
  BY DEF StartWorkers
<1>2. /\ q \in Seq(Blocks) /\ \A i, j \in DOMAIN q : i # j => q[i] # q[j]
      /\ \A x \in Blocks : \E i \in DOMAIN q : q[i] = x
  BY BlocksFinite, Enumerates
<1>3. ASSUME NEW x \in Blocks
      PROVE  \E f \in Files : ~coverage[f].skipped /\ \E o \in BlockStarts(f) : x = BlockAt(f, o)
  BY DEF Blocks
<1>4. pc = "resolve" /\ \A f \in Files : Untouched(f)
  BY DEF StartWorkers, Phases
<1>5. ASSUME NEW f \in Files, ~coverage[f].skipped, NEW o \in BlockStarts(f)
      PROVE  Due(BlockAt(f, o)) /\ BlockAt(f, o).file = f
  BY <1>4, <1>5, BlockAtType DEF Due, Untouched
<1>6. \A x \in Blocks : Due(x)
  BY <1>3, <1>5
<1>7. ASSUME NEW x \in Blocks, NEW y \in Blocks, x # y PROVE Apart(x, y)
  <2>1. PICK f \in Files : ~coverage[f].skipped /\ \E o \in BlockStarts(f) : x = BlockAt(f, o)
    BY <1>3
  <2>2. PICK g \in Files : ~coverage[g].skipped /\ \E o \in BlockStarts(g) : y = BlockAt(g, o)
    BY <1>3
  <2>3. PICK o \in BlockStarts(f) : x = BlockAt(f, o)
    BY <2>1
  <2>4. PICK p \in BlockStarts(g) : y = BlockAt(g, p)
    BY <2>2
  <2>5. x.file = f /\ y.file = g
    BY <2>3, <2>4, BlockAtType
  <2>6. CASE f = g
    BY <1>7, <2>3, <2>4, <2>6, BlocksApart
  <2> QED BY <2>5, <2>6 DEF Apart
<1>8. ASSUME NEW f \in Files, ~coverage[f].skipped, NEW x \in Bytes(f)
      PROVE  \E i \in DOMAIN q : q[i].file = f /\ x \in Extent(q[i])
  <2>1. PICK o \in BlockStarts(f) : x \in Extent(BlockAt(f, o))
    BY <1>8, BlocksCover
  <2>2. BlockAt(f, o) \in Blocks
    BY <1>8 DEF Blocks
  <2>3. BlockAt(f, o).file = f
    BY <1>8, <1>5
  <2> QED BY <1>2, <2>1, <2>2, <2>3
<1>9. Holding' = {}
  BY DEF StartWorkers, Holding, Busy
<1>10. \A i \in DOMAIN q : q[i] \in Blocks
  BY <1>2
<1>11. q \in Seq(BlockType)
  <2>1. Blocks \subseteq BlockType
    BY <1>6 DEF Due
  <2> QED BY <1>2, <2>1
<1>12. UNCHANGED coverage
  BY DEF StartWorkers
<1> QED BY <1>1, <1>2, <1>4, <1>6, <1>7, <1>8, <1>9, <1>10, <1>11, <1>12

\* Every step keeps the blocks due and apart.
LEMMA OwnedKept ==
    ASSUME TypeOK, Recorded, Phases, Owned, [Next]_vars
    PROVE  Owned'
<1>1. CASE StartWorkers
  <2>1. \A b : Due(b) => Due(b)'
    BY <1>1, StartFacts, SameCoverageDue
  <2>2. \A i \in DOMAIN queue' : Due(queue[i])'
    BY <1>1, <2>1, StartFacts
  <2> QED BY <1>1, <2>2, StartFacts DEF Owned, Apart
<1>2. CASE UNCHANGED <<queue, coverage, blk, wpc>>
  <2>1. Holding' = Holding
    BY <1>2 DEF Holding
  <2> QED BY <1>2, <2>1, OwnedSame
<1>3. CASE pc \in {"resolve", "asked"} /\ UNCHANGED <<queue, wpc>>
  BY <1>3 DEF Phases, AllAt, Owned, Holding, Busy
<1>4. ASSUME NEW w \in Worker, WorkerStep(w) \/ Trouble(w) PROVE Owned'
  <2>1. CASE Keeps(w)
    BY <2>1, KeepFacts, OwnedSame DEF Keeps
  <2>2. CASE Drops(w)
    BY <2>2, OwnedDrops DEF Drops
  <2>3. CASE LocalError(w)
    <3>1. coverage' = coverage /\ queue' = <<>>
      BY <2>3 DEF LocalError
    <3>2. CASE Releases(w)
      BY <3>1, <3>2, OwnedDrops
    <3>3. w \in Holding /\ Holding' = Holding \ {w} /\ blk' = [blk EXCEPT ![w] = NoBlock]
      BY <2>3 DEF LocalError, EndBlock, Holding, Busy, TypeOK, WorkerType
    <3>4. \A v \in Holding' : v \in Holding /\ blk'[v] = blk[v]
      BY <3>3 DEF TypeOK, WorkerType, Holding
    <3>5. \A v \in Holding' : Due(blk[v])'
      BY <3>1, <3>4, SameCoverageDue DEF Owned
    <3> QED BY <3>1, <3>4, <3>5 DEF Owned, Apart
  <2> QED BY <1>4, <2>1, <2>2, <2>3, WorkerMoves, OwnedDropFailed, OwnedGrab, OwnedFails,
          OwnedReturns, OwnedRecords
<1> QED BY <1>1, <1>2, <1>3, <1>4, OtherSteps DEF Next, Ended


-----------------------------------------------------------------------------
(* Types. *)

\* As many bytes are counted as are covered, which is no more than the file has.
LEMMA BytesInside ==
    ASSUME NEW c, Sound(c)
    PROVE  c.bytes \in 0..c.size
<1> DEFINE n == c.size
           S == 0..(n - 1)
<1>1. n \in Nat /\ c.bytes \in Nat /\ c.bytes = Cardinality(CoveredBytes(c))
  BY DEF Sound, WellFormed
<1>2. CoveredBytes(c) \subseteq S
  BY CoveredInside DEF Sound
<1>3. IsFiniteSet(S) /\ Cardinality(S) = n
  <2> HIDE DEF n
  <2>1. /\ 0 \in Int /\ n - 1 \in Int
    BY <1>1
  <2>2. /\ IsFiniteSet(0..(n - 1))
        /\ Cardinality(0..(n - 1)) = IF 0 > n - 1 THEN 0 ELSE (n - 1) - 0 + 1
    BY <2>1, FS_Interval
  <2> QED BY <1>1, <2>2
<1> HIDE DEF S
<1>4. Cardinality(CoveredBytes(c)) <= Cardinality(S)
  BY <1>2, <1>3, FS_Subset
<1> QED BY <1>1, <1>3, <1>4

\* Stop, pause, shutdown and the flags of failures stay Boolean.
LEMMA FlagTypeKept ==
    ASSUME FlagType, [Next]_vars
    PROVE  FlagType'
<1> USE DEF FlagType
<1>1. CASE BatchThread
  BY <1>1 DEF BatchThread, uiVars, choiceVars, ResolveFree, ResolveDecided, Ask, Answered,
       AskInterrupted, StoppedBeforeStart, StartWorkers, Join, VerifyFile, VerifyEnds,
       Outcome, CleanUp, Wait, Dozes, FallsAsleep, flagVars, mainVars
<1>2. ASSUME NEW w \in Worker, WorkerStep(w) \/ Trouble(w) PROVE FlagType'
  BY <1>2 DEF WorkerStep, Trouble, mainVars, uiVars, choiceVars, WorkerExits, DropFailed,
       Grab, MakeDirectory, Open, Move, Finish, Interrupted, CannotMove, Reconnect,
       StopReconnecting, Upgrade, LoseLink, FileError, LocalError, Pausing, flagVars
<1>3. CASE User
  BY <1>3 DEF User, mainVars, choiceVars, AnswerConflict, Stop, Pause, Resume, ShutDown
<1>4. CASE Woken
  BY <1>4 DEF Woken, mainVars, flagVars, choiceVars
<1>5. CASE UNCHANGED vars
  BY <1>5 DEF vars, mainVars, uiVars, choiceVars, flagVars
<1> QED BY <1>1, <1>2, <1>3, <1>4, <1>5 DEF Next, Ended

\* The batch thread stays at a known position and at an item of the plan.
LEMMA BatchTypeKept ==
    ASSUME TypeOK, Recorded, Phases, Owned, [Next]_vars
    PROVE  BatchType'
<1> USE SizesAreNat DEF BatchType, TypeOK
<1>1. CASE BatchThread
  <2>1. pc' \in {"resolve", "asked", "run", "verify", "outcome", "clean", "ended"}
    BY <1>1 DEF BatchThread, ResolveFree, ResolveDecided, Ask, Answered,
       AskInterrupted, StoppedBeforeStart, StartWorkers, Join, VerifyFile, VerifyEnds,
       Outcome, CleanUp, Wait, Dozes, FallsAsleep, mainVars
  <2>2. /\ next' \in {next, next + 1} /\ (next' # next => next <= Len(Plan))
    <3>1. pc = "asked" => next <= Len(Plan)
      BY DEF Phases
    <3> QED BY <1>1, <3>1 DEF BatchThread, ResolveFree, ResolveDecided, Ask,
       Answered, AskInterrupted, StoppedBeforeStart, StartWorkers, Join, VerifyFile,
       VerifyEnds, Outcome, CleanUp, Wait, Dozes, FallsAsleep, mainVars
  <2>3. /\ verified' \in {verified, verified + 1}
        /\ (verified' # verified => verified < Len(Plan))
    BY <1>1 DEF BatchThread, ResolveFree, ResolveDecided, Ask, Answered,
       AskInterrupted, StoppedBeforeStart, StartWorkers, Join, VerifyFile, VerifyEnds,
       Outcome, CleanUp, Wait, Dozes, FallsAsleep, mainVars
  <2>4. /\ state' \in {"Running", "WaitingConflict", "Paused", "Verifying",
                       "Completed", "Failed", "Stopped"}
        /\ response' \in {response, "none"}
        /\ allDecision' \in {allDecision, "overwriteAll", "skipAll"}
    BY <1>1 DEF BatchThread, uiVars, choiceVars, ResolveFree, ResolveDecided, Ask, Answered,
       AskInterrupted, StoppedBeforeStart, StartWorkers, Join, VerifyFile, VerifyEnds,
       Outcome, CleanUp, Wait, Dozes, FallsAsleep, flagVars, mainVars
  <2>5. /\ existing' \in {existing, existing \cup {next}}
        /\ (existing' # existing => next <= Len(Plan))
        /\ UNCHANGED <<completed, down>>
    BY <1>1 DEF BatchThread, workVars, workerVars, choiceVars, ResolveFree, ResolveDecided,
       Ask, Answered, AskInterrupted, StoppedBeforeStart, StartWorkers, Join, VerifyFile,
       VerifyEnds, Outcome, CleanUp, Wait, Dozes, FallsAsleep, mainVars
  <2>6. existing' \subseteq Files
    BY <2>5 DEF Files
  <2>7. nap' \in Naps
    BY <1>1 DEF BatchThread, Naps, uiVars, ResolveFree, ResolveDecided, Ask, Answered,
       AskInterrupted, StoppedBeforeStart, StartWorkers, Join, VerifyFile, VerifyEnds,
       Outcome, CleanUp, Wait, Dozes, FallsAsleep, mainVars
  <2> QED BY <2>1, <2>2, <2>4, <2>5, <2>6, <2>3, <2>7
<1>2. ASSUME NEW w \in Worker, WorkerStep(w) \/ Trouble(w) PROVE BatchType'
  <2>1. /\ UNCHANGED <<pc, next, verified, response, nap, allDecision, existing>>
        /\ state' \in {state, "Running", "Paused", "Failed"}
    BY <1>2, WorkerFrame DEF mainVars, uiVars, flagVars
  <2>2. down' \subseteq down \cup {w}
    BY <1>2 DEF WorkerStep, Trouble, workerVars, WorkerExits, DropFailed,
       Grab, MakeDirectory, Open, Move, Finish, MovedAll, Interrupted, CannotMove, Reconnect,
       StopReconnecting, Upgrade, LoseLink, FileError, LocalError, Pausing
  <2>3. completed' \subseteq Files
    <3>1. CASE Fails(w)
      BY <3>1, FailsFacts
    <3>2. CASE Records(w)
      <4>1. completed' = completed \/ completed' = completed \cup {blk[w].file}
        BY <3>2 DEF Records
      <4>2. blk[w].file \in Files
        BY <3>2, ReleaseFacts DEF Records
      <4> QED BY <4>1, <4>2
    <3>3. CASE \/ Keeps(w) \/ DropFailed(w) \/ Grab(w) \/ Drops(w) \/ Returns(w)
               \/ LocalError(w)
      BY <3>3 DEF Keeps, DropFailed, Grab, Drops, Returns, LocalError
    <3> QED BY <1>2, <3>1, <3>2, <3>3, WorkerMoves
  <2> QED BY <2>1, <2>2, <2>3
<1>3. CASE User \/ Woken
  <2>1. UNCHANGED <<pc, next, verified, state, allDecision, existing, completed, down>>
    BY <1>3 DEF User, mainVars, choiceVars, workVars, workerVars, AnswerConflict, Stop, Pause,
       Resume, ShutDown, Woken, Wakes
  <2>2. response' \in {response, "overwrite", "overwriteAll", "skip", "skipAll"}
    BY <1>3 DEF User, AnswerConflict, Stop, Pause, Resume, ShutDown, Woken, flagVars
  <2>3. nap' \in Naps
    BY <1>3 DEF User, AnswerConflict, Stop, Pause, Resume, ShutDown, Woken, Wakes, Notify, Naps
  <2> QED BY <2>1, <2>2, <2>3
<1>4. CASE UNCHANGED vars
  BY <1>4 DEF vars, mainVars, uiVars, choiceVars, workVars, workerVars, flagVars
<1> QED BY <1>1, <1>2, <1>3, <1>4 DEF Next, Ended

\* The coverages stay those of the items, and only blocks are queued.
LEMMA WorkTypeKept ==
    ASSUME TypeOK, Recorded, Phases, Owned, [Next]_vars
    PROVE  WorkType'
<1>1. \A f \in Files : Sound(coverage'[f])
  BY RecordedKept DEF Recorded
<1>2. DOMAIN coverage' = Files /\ \A f \in Files : coverage'[f].size = Size(f)
  <2> USE DEF TypeOK, WorkType
  <2>1. CASE UNCHANGED coverage
    BY <2>1
  <2>2. CASE Skipping(next)
    BY <2>2 DEF Skipping, SkipCoverage, Coverage
  <2>3. ASSUME NEW w \in Worker, Fails(w)
        PROVE  DOMAIN coverage' = Files /\ \A f \in Files : coverage'[f].size = Size(f)
    BY <2>3, FailsFacts
  <2>4. ASSUME NEW w \in Worker, Records(w)
        PROVE  DOMAIN coverage' = Files /\ \A f \in Files : coverage'[f].size = Size(f)
    BY <2>4, RecordsFacts
  <2>5. ASSUME NEW w \in Worker,
               Keeps(w) \/ DropFailed(w) \/ Grab(w) \/ Drops(w) \/ Returns(w) \/ LocalError(w)
        PROVE  UNCHANGED coverage
    BY <2>5 DEF Keeps, DropFailed, Grab, Drops, Returns, LocalError
  <2>6. CASE StartWorkers
    BY <2>1, <2>6 DEF StartWorkers
  <2> QED BY <2>1, <2>2, <2>3, <2>4, <2>5, <2>6, WorkerMoves, OtherSteps
       DEF Next, Ended
<1>3. queue' \in Seq(BlockType)
  <2>0. queue \in Seq(BlockType)
    BY DEF TypeOK, WorkType
  <2>1. CASE UNCHANGED queue \/ queue' = <<>>
    <3>1. <<>> \in Seq(BlockType)
      OBVIOUS
    <3> QED BY <2>0, <2>1, <3>1
  <2>2. CASE StartWorkers
    BY <2>2, StartFacts
  <2>3. ASSUME NEW w \in Worker, DropFailed(w) PROVE queue' \in Seq(BlockType)
    BY <2>0, <2>3 DEF DropFailed, CanGrab
  <2>4. ASSUME NEW w \in Worker, Grab(w) PROVE queue' \in Seq(BlockType)
    <3>1. queue # <<>> /\ Tail(queue) \in Seq(BlockType)
      BY <2>0, <2>4, GrabFacts
    <3>2. Due(queue[1])
      BY <2>4, GrabFacts, OwnedQueue
    <3>3. PICK n \in Nat :
            /\ n <= queue[1].len
            /\ IF Kind(queue[1].file) = "split" THEN n > 0 ELSE n = queue[1].len
            /\ queue' = IF n < queue[1].len THEN <<Rest(queue[1], n)>> \o Tail(queue)
                        ELSE Tail(queue)
      BY <2>4, GrabFacts
    <3>4. n < queue[1].len => Rest(queue[1], n) \in BlockType
      BY <3>2, <3>3, SliceFacts
    <3> QED BY <2>0, <3>1, <3>3, <3>4, QueueAfterSlice
  <2>5. ASSUME NEW w \in Worker, Fails(w) PROVE queue' \in Seq(BlockType)
    BY <2>5, FailsFacts
  <2>6. ASSUME NEW w \in Worker, Returns(w) PROVE queue' \in Seq(BlockType)
    BY <2>6, ReturnsFacts
  <2>7. ASSUME NEW w \in Worker, Keeps(w) \/ Drops(w) \/ Records(w) \/ LocalError(w)
        PROVE  UNCHANGED queue \/ queue' = <<>>
    BY <2>7 DEF Keeps, Drops, Records, LocalError
  <2> QED BY <2>1, <2>2, <2>3, <2>4, <2>5, <2>6, <2>7, WorkerMoves, OtherSteps
       DEF Next, Ended
<1>4. \A f \in Files : coverage'[f].bytes \in 0..Size(f)
  BY <1>1, <1>2, BytesInside
<1> QED BY <1>2, <1>3, <1>4 DEF WorkType

\* The steps that touch a destination, and what they do to it.
LEMMA DestChanges ==
    ASSUME [Next]_vars
    PROVE  \/ UNCHANGED dest
           \/ StartWorkers \/ CleanUp
           \/ \E w \in Worker : Open(w) \/ Move(w) \/ Finish(w)
<1>1. CASE BatchThread
  BY <1>1 DEF BatchThread, workVars, ResolveFree, ResolveDecided, Ask, Answered,
     AskInterrupted, StoppedBeforeStart, Join, VerifyFile, VerifyEnds, Outcome,
     Wait, Dozes, FallsAsleep, mainVars
<1>2. ASSUME NEW w \in Worker, WorkerStep(w) \/ Trouble(w)
      PROVE  UNCHANGED dest \/ Open(w) \/ Move(w) \/ Finish(w)
  BY <1>2 DEF WorkerStep, Trouble, workVars, WorkerExits, DropFailed, Grab, MakeDirectory,
     Interrupted, CannotMove, Reconnect, StopReconnecting, Upgrade, LoseLink, FileError,
     LocalError, Pausing
<1>3. CASE User \/ Woken
  BY <1>3 DEF User, workVars, AnswerConflict, Stop, Pause, Resume, ShutDown, Woken, Wakes
<1>4. CASE UNCHANGED vars
  BY <1>4 DEF vars, workVars
<1> QED BY <1>1, <1>2, <1>3, <1>4 DEF Next, Ended

\* The block of a worker lies in its file.
LEMMA HeldFacts ==
    ASSUME TypeOK, Owned, NEW w \in Holding
    PROVE  /\ Due(blk[w]) /\ blk[w] \in BlockType /\ pos[w] \in 0..blk[w].len
           /\ blk[w].file \in Files /\ Extent(blk[w]) \subseteq Bytes(blk[w].file)
           /\ pos[w] < blk[w].len => blk[w].off + pos[w] \in Extent(blk[w])
           /\ Moved(w) \subseteq Extent(blk[w])
           /\ pos[w] = blk[w].len => Moved(w) = Extent(blk[w])
<1>1. Due(blk[w]) /\ blk[w] \in BlockType /\ w \in Worker
  BY DEF Owned, Due, Holding
<1>2. blk[w].off \in Nat /\ blk[w].len \in Nat /\ blk[w].file \in Files
  BY <1>1 DEF BlockType
<1>3. pos[w] \in Nat /\ pos[w] <= blk[w].len
  BY <1>1 DEF TypeOK, WorkerType
<1>4. /\ pos[w] \in 0..blk[w].len /\ pos[w] \in Nat
      /\ blk[w].off \in Nat /\ blk[w].len \in Nat /\ blk[w].file \in Files
  BY <1>2, <1>3
<1>5. blk[w].off + blk[w].len <= Size(blk[w].file) /\ Size(blk[w].file) \in Nat
  BY <1>1, <1>4, SizesAreNat DEF Due
<1>6. /\ Extent(blk[w]) \subseteq Bytes(blk[w].file)
      /\ pos[w] < blk[w].len => blk[w].off + pos[w] \in Extent(blk[w])
  BY <1>4, <1>5 DEF Extent, Bytes
<1>7. /\ Moved(w) \subseteq Extent(blk[w])
      /\ pos[w] = blk[w].len => Moved(w) = Extent(blk[w])
  <2> DEFINE o == blk[w].off
             l == blk[w].len
             n == pos[w]
  <2>1. o \in Nat /\ l \in Nat /\ n \in Nat /\ n <= l
    BY <1>3, <1>4
  <2>2. Moved(w) = o..(o + n - 1) /\ Extent(blk[w]) = o..(o + l - 1)
    BY DEF Extent, Moved
  <2> HIDE DEF o, l, n
  <2>3. o..(o + n - 1) \subseteq o..(o + l - 1)
    BY <2>1
  <2> QED BY <2>2, <2>3 DEF l, n
<1> QED BY <1>1, <1>4, <1>6, <1>7

\* What the worker's steps do to the destination of its block.
LEMMA WriteFacts ==
    ASSUME TypeOK, Owned, NEW w \in Worker, Open(w) \/ Move(w) \/ Finish(w)
    PROVE  LET f == blk[w].file
           IN  /\ w \in Holding /\ f \in Files
               /\ DOMAIN dest' = Files
               /\ \A g \in Files \ {f} : dest'[g] = dest[g]
               /\ Open(w) => dest'[f] = dest[f] \/ dest'[f] = New
               /\ Move(w) => /\ dest'[f].is = dest[f].is
                             /\ dest'[f].data = dest[f].data
                                   \cup (IF dest[f].is = "new" THEN {blk[w].off + pos[w]} ELSE {})
               /\ Finish(w) => /\ dest'[f].is = dest[f].is
                               /\ dest'[f].data \subseteq dest[f].data
                               /\ IsPull => dest'[f].data = dest[f].data
               /\ dest'[f] \in [is : {"absent", "old", "new"}, data : SUBSET Bytes(f)]
<1> DEFINE f == blk[w].file
<1>1. w \in Holding
  BY DEF Holding, Busy, Open, Move, Finish, MovedAll
<1>2. f \in Files /\ Extent(blk[w]) \subseteq Bytes(f)
  BY <1>1, HeldFacts
<1>3. DOMAIN dest = Files /\ dest[f] \in [is : {"absent", "old", "new"}, data : SUBSET Bytes(f)]
  BY <1>2 DEF TypeOK, DestType
<1> HIDE DEF f
<1>4. CASE Open(w)
  <2>1. dest' = dest \/ dest' = [dest EXCEPT ![f] = New]
    BY <1>4 DEF Open, f
  <2>2. New \in [is : {"absent", "old", "new"}, data : SUBSET Bytes(f)]
    BY DEF New
  <2> QED BY <1>1, <1>2, <1>3, <1>4, <2>1, <2>2 DEF f, Open, Move, Finish, MovedAll
<1>5. CASE Move(w)
  <2>1. dest' = IF dest[f].is = "new"
                THEN [dest EXCEPT ![f].data = @ \cup {blk[w].off + pos[w]}] ELSE dest
    BY <1>5 DEF Move, f
  <2>2. blk[w].off + pos[w] \in Bytes(f)
    BY <1>1, <1>2, <1>5, HeldFacts DEF Move
  <2> DEFINE x == blk[w].off + pos[w]
  <2> HIDE DEF x
  <2>3. /\ DOMAIN dest' = Files /\ \A g \in Files \ {f} : dest'[g] = dest[g]
        /\ dest'[f].is = dest[f].is
        /\ dest'[f].data = dest[f].data \cup (IF dest[f].is = "new" THEN {x} ELSE {})
        /\ dest'[f] \in [is : {"absent", "old", "new"}, data : SUBSET Bytes(f)]
    BY <1>2, <1>3, <2>1, <2>2 DEF x
  <2>4. ~Open(w) /\ ~Finish(w)
    BY <1>5, <1>1 DEF Open, Move, Finish, MovedAll, EndBlock, TypeOK, WorkerType, Busy, Holding
  <2> QED BY <1>1, <1>2, <2>3, <2>4 DEF f, x
<1>6. CASE Finish(w)
  <2>1. PICK lost \in SUBSET {blk[w].off + blk[w].len - 1} : MovedAll(w, lost)
    BY <1>6 DEF Finish
  <2>2. dest' = [dest EXCEPT ![f].data = @ \ lost] /\ (IsPull => lost = {})
    BY <2>1 DEF MovedAll, f
  <2>3. /\ DOMAIN dest' = Files /\ \A g \in Files \ {f} : dest'[g] = dest[g]
        /\ dest'[f].is = dest[f].is /\ dest'[f].data = dest[f].data \ lost
        /\ dest'[f] \in [is : {"absent", "old", "new"}, data : SUBSET Bytes(f)]
    BY <1>2, <1>3, <2>2
  <2>4. ~Open(w) /\ ~Move(w)
    BY <1>6, <1>1 DEF Open, Move, Finish, MovedAll, EndBlock, TypeOK, WorkerType, Busy, Holding
  <2> QED BY <1>1, <1>2, <2>2, <2>3, <2>4 DEF f
<1> QED BY <1>4, <1>5, <1>6

\* No chunk is written outside its file.
LEMMA DestTypeKept ==
    ASSUME TypeOK, Owned, [Next]_vars
    PROVE  DestType'
<1> USE DEF TypeOK, DestType
<1>0. /\ New \in [is : {"absent", "old", "new"}, data : SUBSET Nat] /\ New.data = {}
      /\ Absent \in [is : {"absent", "old", "new"}, data : SUBSET Nat] /\ Absent.data = {}
  BY DEF New, Absent
<1>1. CASE UNCHANGED dest
  BY <1>1
<1>2. CASE StartWorkers
  BY <1>0, <1>2 DEF StartWorkers
<1>3. CASE CleanUp
  BY <1>0, <1>3 DEF CleanUp
<1>4. ASSUME NEW w \in Worker, Open(w) \/ Move(w) \/ Finish(w) PROVE DestType'
  <2>1. dest' \in [Files -> [is : {"absent", "old", "new"}, data : SUBSET Nat]]
    <3>1. \A f \in Files : Bytes(f) \subseteq Nat
      BY SizesAreNat DEF Bytes
    <3>2. dest' = [g \in Files |-> dest'[g]]
      BY <1>4 DEF Open, Move, Finish, MovedAll
    <3>3. \A g \in Files : dest'[g] \in [is : {"absent", "old", "new"}, data : SUBSET Nat]
      BY <1>4, <3>1, WriteFacts
    <3> QED BY <3>2, <3>3
  <2>2. \A g \in Files : dest'[g].data \subseteq Bytes(g)
    BY <1>4, WriteFacts
  <2> QED BY <2>1, <2>2
<1> QED BY <1>1, <1>2, <1>3, <1>4, DestChanges

\* A worker without a block has NoBlock, and none moves more than its block has.
LEMMA WorkerTypeKept ==
    ASSUME TypeOK, Phases, Owned, [Next]_vars
    PROVE  WorkerType'
<1> USE DEF TypeOK, WorkerType
<1>0. /\ NoBlock.len = 0 /\ \A b \in BlockType : b.len \in Nat
  BY DEF NoBlock, Block, BlockType
<1>1. CASE UNCHANGED <<wpc, blk, pos>>
  BY <1>1
<1>2. CASE StartWorkers
  <2>1. \A w \in Worker : wpc[w] \notin Busy
    BY <1>2 DEF StartWorkers, Phases, AllAt, Busy
  <2> QED BY <1>2, <2>1 DEF StartWorkers, Busy
<1>3. ASSUME NEW w \in Worker, EndBlock(w, "top") \/ EndBlock(w, "exit") \/ EndBlock(w, "reconnect")
      PROVE  WorkerType'
  BY <1>0, <1>3 DEF EndBlock, Busy
<1>4. ASSUME NEW w \in Worker, Grab(w) PROVE WorkerType'
  <2>1. w \notin Holding /\ Due(queue[1]) /\ pos' = pos /\ wpc' = [wpc EXCEPT ![w] = "open"]
    BY <1>4, GrabFacts, OwnedQueue DEF Grab
  <2>2. PICK n \in Nat :
          /\ n <= queue[1].len
          /\ IF Kind(queue[1].file) = "split" THEN n > 0 ELSE n = queue[1].len
          /\ blk'[w] = Slice(queue[1], n)
    BY <1>4, GrabFacts
  <2>3. blk'[w] \in BlockType
    BY <2>1, <2>2, SliceFacts
  <2>4. blk' = [blk EXCEPT ![w] = blk'[w]]
    BY <1>4 DEF Grab
  <2>5. pos[w] = 0
    BY <1>0, <2>1 DEF Holding
  <2>6. blk'[w].len \in Nat
    BY <1>0, <2>3
  <2> QED BY <2>1, <2>3, <2>4, <2>5, <2>6 DEF Busy
<1>5. ASSUME NEW w \in Worker, Move(w) PROVE WorkerType'
  <2>1. blk[w].len \in Nat /\ pos[w] \in Nat /\ pos[w] < blk[w].len
    BY <1>0, <1>5 DEF Move
  <2> QED BY <1>5, <2>1 DEF Move
<1>6. ASSUME NEW w \in Worker, Open(w) \/ Reconnect(w) \/ StopReconnecting(w) PROVE WorkerType'
  BY <1>6 DEF Open, Reconnect, StopReconnecting, Busy
<1>7. \/ UNCHANGED <<wpc, blk, pos>> \/ StartWorkers
      \/ \E w \in Worker : \/ EndBlock(w, "top") \/ EndBlock(w, "exit") \/ EndBlock(w, "reconnect")
                           \/ Grab(w) \/ Move(w) \/ Open(w) \/ Reconnect(w) \/ StopReconnecting(w)
  <2>1. ASSUME NEW w \in Worker, WorkerStep(w) \/ Trouble(w)
        PROVE  \/ UNCHANGED <<wpc, blk, pos>>
               \/ EndBlock(w, "top") \/ EndBlock(w, "exit") \/ EndBlock(w, "reconnect")
               \/ Grab(w) \/ Move(w) \/ Open(w) \/ Reconnect(w) \/ StopReconnecting(w)
    BY <2>1 DEF WorkerStep, Trouble, workerVars, WorkerExits, DropFailed, MakeDirectory,
       Finish, Interrupted, CannotMove, Upgrade, LoseLink, FileError, LocalError, Pausing,
       GiveBack
  <2> QED BY <2>1, OtherSteps DEF Next, Ended
<1> QED BY <1>1, <1>2, <1>3, <1>4, <1>5, <1>6, <1>7

\* Every step keeps the types.
LEMMA TypeKept ==
    ASSUME TypeOK, Recorded, Phases, Owned, [Next]_vars
    PROVE  TypeOK'
<1>1. FlagType'
  BY FlagTypeKept DEF TypeOK
<1> QED BY <1>1, BatchTypeKept, WorkTypeKept, DestTypeKept, WorkerTypeKept DEF TypeOK

-----------------------------------------------------------------------------
(* The phases of the batch. *)

\* The steps of the user, and waking up, leave the work alone.
LEMMA UserFrame ==
    ASSUME User \/ Woken \/ UNCHANGED vars
    PROVE  /\ UNCHANGED <<pc, next, verified, crcFailed, state, choiceVars, coverage, completed,
                          queue, dest, wpc, blk, pos>>
           /\ (stopRequested => stopRequested') /\ (shutdown => shutdown')
  BY DEF User, vars, mainVars, uiVars, choiceVars, workVars, workerVars, AnswerConflict, Stop,
     Pause, Resume, ShutDown, Woken, Wakes, flagVars

\* Before the workers start, a step of the batch thread touches no destination.
LEMMA UntouchedKept ==
    ASSUME TypeOK, Recorded, NEW f \in Files, Untouched(f), UNCHANGED dest,
           UNCHANGED coverage \/ Skipping(next)
    PROVE  Untouched(f)'
<1>1. CASE UNCHANGED coverage
  BY <1>1 DEF Untouched
<1>2. CASE Skipping(next)
  <2>1. coverage'[f] \in {coverage[f], SkipCoverage(coverage[f])}
    BY <1>2 DEF Skipping, TypeOK, WorkType
  <2>2. CASE coverage'[f] = coverage[f]
    BY <2>2 DEF Untouched
  <2>3. CASE coverage'[f] = SkipCoverage(coverage[f])
    <3>1. Sound(coverage[f])
      BY DEF Recorded
    <3>2. /\ CoveredBytes(coverage'[f]) = CoveredBytes(coverage[f])
          /\ ~IsComplete(coverage'[f]) /\ coverage'[f].failed = coverage[f].failed
      BY <2>3, <3>1, GivenUpFacts
    <3> QED BY <3>2 DEF Untouched
  <2> QED BY <2>1, <2>2, <2>3
<1> QED BY <1>1, <1>2

\* Every step keeps what the position of the batch thread says.
LEMMA PhasesKept ==
    ASSUME TypeOK, Recorded, Phases, [Next]_vars
    PROVE  Phases'
<1>1. ASSUME NEW w \in Worker, WorkerStep(w) \/ Trouble(w) PROVE Phases'
  <2>1. pc = "run"
    BY <1>1, WorkerFrame, WorkersRun
  <2>2. pc' = "run" /\ verified' = verified /\ \A v \in Worker : wpc'[v] # "idle"
    BY <1>1, <2>1, WorkerFrame DEF TypeOK, Phases, WorkerType, mainVars
  <2>3. state' # "Completed"
    BY <1>1, <2>1, WorkerFrame DEF Phases
  <2> QED BY <2>1, <2>2, <2>3 DEF Phases
<1>2. CASE User \/ Woken \/ UNCHANGED vars
  <2>1. UNCHANGED <<pc, next, verified, state, existing, localFailed, coverage, completed,
                    queue, dest, wpc>>
    BY <1>2, UserFrame DEF choiceVars
  <2> QED BY <2>1 DEF Phases, AllAt, Untouched
<1>3. CASE ResolveFree \/ ResolveDecided \/ Ask \/ Wait \/ Answered \/ AskInterrupted
  <2>1. /\ pc \in {"resolve", "asked"} /\ pc' \in {"resolve", "asked"}
        /\ UNCHANGED <<completed, queue, wpc, localFailed, verified, dest>>
        /\ UNCHANGED coverage \/ Skipping(next)
        /\ state' # "Completed" \/ state' = state
    BY <1>3 DEF ResolveFree, ResolveDecided, Ask, Answered, AskInterrupted, workVars,
       workerVars, choiceVars, Wait, Dozes, FallsAsleep, mainVars
  <2>2. \A f \in Files : Untouched(f)'
    BY <2>1, UntouchedKept DEF Phases
  <2>3. pc' = "asked" => next' <= Len(Plan) /\ next' \in existing'
    <3>1. pc = "asked" => next <= Len(Plan) /\ next \in existing
      BY DEF Phases
    <3>2. CASE Wait
      BY <3>1, <3>2 DEF Wait, mainVars, choiceVars
    <3> QED BY <1>3, <3>2 DEF ResolveFree, ResolveDecided, Ask, Answered, AskInterrupted
  <2> QED BY <2>1, <2>2, <2>3 DEF Phases, AllAt
<1>4. CASE StoppedBeforeStart
  BY <1>4 DEF StoppedBeforeStart, Phases, AllAt, workerVars
<1>5. CASE StartWorkers
  BY <1>5 DEF StartWorkers, Phases
<1>6. CASE Join
  BY <1>6 DEF Join, Phases, AllAt, workerVars
<1>7. CASE VerifyFile \/ VerifyEnds \/ Outcome \/ CleanUp
  <2>1. /\ pc \in {"verify", "outcome", "clean"} /\ UNCHANGED wpc
        /\ pc' \in {"verify", "outcome", "clean", "ended"}
    BY <1>7 DEF VerifyFile, VerifyEnds, Outcome, CleanUp, workerVars
  <2>2. AllAt("exit")'
    BY <2>1 DEF Phases, AllAt
  <2>3. state' = "Completed" => pc' \in {"clean", "ended"}
    BY <1>7 DEF VerifyFile, VerifyEnds, Outcome, CleanUp, Phases
  <2> QED BY <2>1, <2>2, <2>3 DEF Phases
<1> QED BY <1>1, <1>2, <1>3, <1>4, <1>5, <1>6, <1>7 DEF Next, BatchThread, Ended

-----------------------------------------------------------------------------
(* No chunk is forgotten. *)

\* A worker's step that leaves the batch running undisturbed.
LEMMA KeptByWorker ==
    ASSUME TypeOK, Recorded, Owned, NEW w \in Worker, WorkerStep(w) \/ Trouble(w),
           Quiet, Quiet', NEW f \in Files, NEW x \in Bytes(f),
           ~coverage'[f].failed, Kept(f, x)
    PROVE  Kept(f, x)'
<1>0. ~stopRequested /\ ~shutdown /\ ~localFailed'
  BY DEF Quiet
<1>1. CASE Keeps(w)
  BY <1>1, KeepFacts DEF Kept, Keeps
<1>2. CASE DropFailed(w)
  <2>1. /\ queue # <<>> /\ queue \in Seq(BlockType) /\ queue' = Tail(queue)
        /\ coverage[Head(queue).file].failed /\ UNCHANGED <<coverage, blk, wpc>>
    BY <1>2 DEF DropFailed, CanGrab, TypeOK, WorkType, workerVars
  <2>2. Holding' = Holding
    BY <2>1 DEF Holding
  <2>3. ASSUME NEW i \in DOMAIN queue, queue[i].file = f
        PROVE  \E j \in DOMAIN queue' : queue'[j] = queue[i]
    <3>1. i # 1
      BY <2>1, <2>3
    <3>2. i - 1 \in DOMAIN queue' /\ queue'[i - 1] = queue[i]
      BY <2>1, <2>3, <3>1
    <3> QED BY <3>2
  <2> QED BY <2>1, <2>2, <2>3 DEF Kept, Extent
<1>3. CASE Grab(w)
  <2> DEFINE b == queue[1]
  <2>1. /\ queue # <<>> /\ 1 \in DOMAIN queue /\ queue \in Seq(BlockType)
        /\ Holding' = Holding \cup {w} /\ \A v \in Holding : blk'[v] = blk[v]
        /\ UNCHANGED coverage
    BY <1>3, GrabFacts
  <2>2. PICK n \in Nat :
          /\ n <= b.len
          /\ IF Kind(b.file) = "split" THEN n > 0 ELSE n = b.len
          /\ blk'[w] = Slice(b, n)
          /\ queue' = IF n < b.len THEN <<Rest(b, n)>> \o Tail(queue) ELSE Tail(queue)
    BY <1>3, GrabFacts
  <2>3. Due(b) /\ b \in BlockType
    BY <2>1, OwnedQueue DEF Due
  <2> DEFINE mine == Slice(b, n)
             rest == Rest(b, n)
  <2>4. /\ mine.file = b.file /\ mine.off = b.off /\ mine.len = n
        /\ n < b.len => /\ rest \in BlockType /\ rest.file = b.file /\ rest.off = b.off + n
                        /\ rest.len = b.len - n
    BY <2>2, <2>3, SliceFacts
  <2>5. b.off \in Nat /\ b.len \in Nat
    BY <2>3 DEF BlockType
  <2>6. blk'[w] = mine
    BY <2>2
  <2> HIDE DEF mine, rest
  <2>7. CASE x \in CoveredBytes(coverage[f])
    BY <2>1, <2>7 DEF Kept
  <2>8. CASE \E v \in Holding : blk[v].file = f /\ x \in Extent(blk[v])
    BY <2>1, <2>8 DEF Kept, Extent
  <2>9. ASSUME b.file = f, x \in Extent(b) PROVE Kept(f, x)'
    <3>1. CASE x \in Extent(mine)
      BY <2>1, <2>4, <2>6, <2>9, <3>1 DEF Kept, Extent
    <3>2. CASE x \notin Extent(mine)
      <4>0. x \in Int /\ b.off <= x /\ x < b.off + b.len /\ b.off + n <= x
        BY <2>2, <2>4, <2>5, <2>9, <3>2 DEF Extent
      <4>1. n < b.len /\ x \in Extent(rest)
        BY <2>2, <2>4, <2>5, <4>0 DEF Extent
      <4>2. 1 \in DOMAIN queue' /\ queue'[1] = rest
        BY <2>1, <2>2, <2>4, <4>1, QueueAfterSlice DEF rest
      <4> QED BY <2>4, <2>9, <4>1, <4>2 DEF Kept, Extent
    <3> QED BY <3>1, <3>2
  <2>10. ASSUME NEW i \in DOMAIN queue, i # 1, queue[i].file = f, x \in Extent(queue[i])
         PROVE  Kept(f, x)'
    <3>1. CASE n < b.len
      <4>1. i \in DOMAIN queue' /\ queue'[i] = queue[i]
        BY <2>1, <2>2, <2>4, <2>10, <3>1, QueueAfterSlice DEF rest
      <4> QED BY <2>10, <4>1 DEF Kept, Extent
    <3>2. CASE ~(n < b.len)
      <4>1. queue' = Tail(queue)
        BY <2>2, <3>2
      <4>2. i - 1 \in DOMAIN queue' /\ queue'[i - 1] = queue[i]
        BY <2>1, <2>10, <4>1
      <4> QED BY <2>10, <4>2 DEF Kept, Extent
    <3> QED BY <3>1, <3>2
  <2> QED BY <2>7, <2>8, <2>9, <2>10 DEF Kept
<1>4. CASE Drops(w)
  <2>1. coverage[blk[w].file].failed /\ UNCHANGED <<queue, coverage>> /\ Releases(w)
    BY <1>0, <1>4 DEF Drops
  <2>2. blk[w].file # f /\ Holding' = Holding \ {w} /\ \A v \in Holding' : blk'[v] = blk[v]
    BY <2>1, ReleaseFacts
  <2> QED BY <2>1, <2>2 DEF Kept, Extent
<1>5. CASE Fails(w)
  <2>1. Releases(w)
    BY <1>5 DEF Fails
  <2>2. Holding' = Holding \ {w} /\ \A v \in Holding' : blk'[v] = blk[v]
    BY <2>1, ReleaseFacts
  <2>3. f # blk[w].file
    BY <1>5, FailsFacts
  <2>4. coverage'[f] = coverage[f]
    BY <1>5, <2>3, FailsFacts
  <2>5. \A k \in DOMAIN queue : queue[k].file = f => \E i \in DOMAIN queue' : queue'[i] = queue[k]
    BY <1>5, <2>3, FailsFacts
  <2> QED BY <2>2, <2>3, <2>4, <2>5 DEF Kept, Extent
<1>6. CASE Returns(w)
  <2> DEFINE b == [blk[w] EXCEPT !.tries = @ + 1]
  <2>1. /\ Releases(w) /\ UNCHANGED coverage
    BY <1>6 DEF Returns
  <2>2. /\ Holding' = Holding \ {w} /\ \A v \in Holding' : blk'[v] = blk[v]
        /\ blk[w] \in BlockType
    BY <2>1, ReleaseFacts DEF Due
  <2>3. /\ \A i \in DOMAIN queue' : queue'[i] = IF i = Len(queue) + 1 THEN b ELSE queue[i]
        /\ \A i \in DOMAIN queue : i \in DOMAIN queue' /\ i # Len(queue) + 1
        /\ Len(queue) + 1 \in DOMAIN queue'
    BY <1>6, ReturnsFacts
  <2>4. b.file = blk[w].file /\ b.off = blk[w].off /\ b.len = blk[w].len
    BY <2>2 DEF BlockType
  <2> HIDE DEF b
  <2>5. CASE x \in CoveredBytes(coverage[f])
    BY <2>1, <2>5 DEF Kept
  <2>6. CASE \E i \in DOMAIN queue : queue[i].file = f /\ x \in Extent(queue[i])
    BY <2>3, <2>6 DEF Kept, Extent
  <2>7. CASE blk[w].file = f /\ x \in Extent(blk[w])
    BY <2>3, <2>4, <2>7 DEF Kept, Extent
  <2>8. CASE \E v \in Holding \ {w} : blk[v].file = f /\ x \in Extent(blk[v])
    BY <2>2, <2>8 DEF Kept, Extent
  <2> QED BY <2>5, <2>6, <2>7, <2>8 DEF Kept
<1>7. CASE Records(w)
  <2>1. Releases(w) /\ UNCHANGED queue
    BY <1>7 DEF Records
  <2>2. Holding' = Holding \ {w} /\ \A v \in Holding' : blk'[v] = blk[v]
    BY <2>1, ReleaseFacts
  <2>3. CASE f = blk[w].file
    <3>1. CoveredBytes(coverage'[f]) = CoveredBytes(coverage[f]) \cup Extent(blk[w])
      BY <1>7, <2>3, RecordsFacts
    <3> QED BY <2>1, <2>2, <3>1 DEF Kept, Extent
  <2>4. CASE f # blk[w].file
    <3>1. coverage'[f] = coverage[f]
      BY <1>7, <2>4, RecordsFacts
    <3> QED BY <2>1, <2>2, <2>4, <3>1 DEF Kept, Extent
  <2> QED BY <2>3, <2>4
<1>8. CASE LocalError(w)
  BY <1>0, <1>8 DEF LocalError
<1> QED BY <1>1, <1>2, <1>3, <1>4, <1>5, <1>6, <1>7, <1>8, WorkerMoves

\* A step of a worker skips no file and takes no failure back.
LEMMA WorkerGivesUp ==
    ASSUME TypeOK, Recorded, Owned, NEW w \in Worker, WorkerStep(w) \/ Trouble(w), NEW f \in Files
    PROVE  coverage'[f].skipped = coverage[f].skipped
           /\ (coverage[f].failed => coverage'[f].failed)
<1>1. CASE Fails(w)
  BY <1>1, FailsFacts
<1>2. CASE Records(w)
  BY <1>2, RecordsFacts
<1>3. CASE Keeps(w) \/ DropFailed(w) \/ Grab(w) \/ Drops(w) \/ Returns(w) \/ LocalError(w)
  BY <1>3 DEF Keeps, DropFailed, Grab, Drops, Returns, LocalError
<1> QED BY <1>1, <1>2, <1>3, WorkerMoves

\* Every step of the program keeps all chunks of the files that are still wanted.
LEMMA AllKeptKept ==
    ASSUME TypeOK, Recorded, Phases, Owned, AllKept, [Next]_vars
    PROVE  AllKept'
<1> SUFFICES ASSUME Quiet', NEW f \in Files, ~coverage'[f].skipped, ~coverage'[f].failed,
                    NEW x \in Bytes(f)
             PROVE  Kept(f, x)'
  BY DEF AllKept
<1>1. CASE StartWorkers
  <2>1. ~coverage[f].skipped
    BY <1>1, StartFacts
  <2> QED BY <1>1, <2>1, StartFacts DEF Kept, Extent
<1>2. ASSUME NEW w \in Worker, WorkerStep(w) \/ Trouble(w) PROVE Kept(f, x)'
  <2>1. pc = "run"
    BY <1>2, WorkerFrame, WorkersRun
  <2>2. UNCHANGED uiVars /\ (localFailed => localFailed')
    <3>1. UNCHANGED uiVars
      BY <1>2, WorkerFrame
    <3>2. localFailed => localFailed'
      BY <1>2, WorkerMoves DEF Keeps, DropFailed, Grab, Drops, Fails, Returns, Records, Releases,
         LocalError, choiceVars
    <3> QED BY <3>1, <3>2
  <2>3. Quiet
    BY <2>1, <2>2 DEF Quiet, uiVars, flagVars
  <2>4. Kept(f, x)
    BY <1>2, <2>3, WorkerGivesUp DEF AllKept
  <2> QED BY <1>2, <2>3, <2>4, KeptByWorker
<1>3. CASE User \/ Woken \/ UNCHANGED vars
  <2>1. /\ UNCHANGED <<pc, localFailed, coverage, queue, wpc, blk>>
        /\ (stopRequested => stopRequested') /\ (shutdown => shutdown')
    BY <1>3, UserFrame DEF choiceVars
  <2>2. Quiet
    BY <2>1 DEF Quiet
  <2>3. Kept(f, x)
    BY <2>1, <2>2 DEF AllKept
  <2> QED BY <2>1, <2>3 DEF Kept, Holding
<1>4. CASE BatchThread /\ ~StartWorkers
  BY <1>4 DEF BatchThread, Quiet, ResolveFree, ResolveDecided, Ask, Answered, AskInterrupted,
     StoppedBeforeStart, Join, VerifyFile, VerifyEnds, Outcome, CleanUp, Wait, Dozes, FallsAsleep,
     mainVars
<1> QED BY <1>1, <1>2, <1>3, <1>4 DEF Next, Ended

-----------------------------------------------------------------------------
(* A refused destination is never recorded as complete. *)

\* The blocks of a worker's step come from the queue and from the workers.
LEMMA NoNewFiles ==
    ASSUME TypeOK, Recorded, Owned, NEW w \in Worker, WorkerStep(w) \/ Trouble(w),
           NEW f, \A i \in DOMAIN queue : queue[i].file # f,
           \A v \in Holding : blk[v].file # f
    PROVE  /\ \A i \in DOMAIN queue' : queue'[i].file # f
           /\ \A v \in Holding' : blk'[v].file # f
<1>1. CASE Keeps(w)
  BY <1>1, KeepFacts DEF Keeps
<1>2. CASE DropFailed(w)
  <2>1. /\ queue # <<>> /\ queue \in Seq(BlockType) /\ queue' = Tail(queue)
        /\ UNCHANGED <<blk, wpc>>
    BY <1>2 DEF DropFailed, CanGrab, TypeOK, WorkType, workerVars
  <2> QED BY <2>1 DEF Holding
<1>3. CASE Grab(w)
  <2> DEFINE b == queue[1]
  <2>1. /\ queue # <<>> /\ 1 \in DOMAIN queue /\ queue \in Seq(BlockType)
        /\ Holding' = Holding \cup {w} /\ \A v \in Holding : blk'[v] = blk[v]
    BY <1>3, GrabFacts
  <2>2. PICK n \in Nat :
          /\ n <= b.len
          /\ IF Kind(b.file) = "split" THEN n > 0 ELSE n = b.len
          /\ blk'[w] = Slice(b, n)
          /\ queue' = IF n < b.len THEN <<Rest(b, n)>> \o Tail(queue) ELSE Tail(queue)
    BY <1>3, GrabFacts
  <2>3. Due(b) /\ b.file # f
    BY <2>1, OwnedQueue
  <2> DEFINE mine == Slice(b, n)
             rest == Rest(b, n)
  <2>4. /\ mine.file # f
        /\ n < b.len => rest \in BlockType /\ rest.file # f
    BY <2>2, <2>3, SliceFacts
  <2>5. blk'[w] = mine
    BY <2>2
  <2> HIDE DEF mine, rest
  <2>6. CASE n < b.len
    <3>1. /\ DOMAIN queue' = DOMAIN queue /\ queue'[1] = rest
          /\ \A i \in DOMAIN queue' : i # 1 => queue'[i] = queue[i]
      BY <2>1, <2>2, <2>4, <2>6, QueueAfterSlice DEF rest
    <3> QED BY <2>1, <2>4, <2>5, <2>6, <3>1
  <2>7. CASE ~(n < b.len)
    <3>1. queue' = Tail(queue)
      BY <2>2, <2>7
    <3> QED BY <2>1, <2>4, <2>5, <3>1
  <2> QED BY <2>6, <2>7
<1>4. CASE Drops(w) \/ Records(w)
  <2>1. Releases(w) /\ UNCHANGED queue
    BY <1>4 DEF Drops, Records
  <2> QED BY <2>1, ReleaseFacts
<1>5. CASE Fails(w)
  <2>1. Releases(w)
    BY <1>5 DEF Fails
  <2>2. \A i \in DOMAIN queue' : \E k \in DOMAIN queue : queue'[i] = queue[k]
    BY <1>5, FailsFacts
  <2> QED BY <2>1, <2>2, ReleaseFacts
<1>6. CASE Returns(w)
  <2> DEFINE b == [blk[w] EXCEPT !.tries = @ + 1]
  <2>1. Releases(w)
    BY <1>6 DEF Returns
  <2>2. /\ Holding' = Holding \ {w} /\ \A v \in Holding' : blk'[v] = blk[v]
        /\ blk[w] \in BlockType /\ w \in Holding
    BY <2>1, ReleaseFacts DEF Due
  <2>3. /\ \A i \in DOMAIN queue' : queue'[i] = IF i = Len(queue) + 1 THEN b ELSE queue[i]
        /\ \A i \in DOMAIN queue' : i = Len(queue) + 1 \/ i \in DOMAIN queue
    BY <1>6, ReturnsFacts
  <2>4. b.file = blk[w].file
    BY <2>2 DEF BlockType
  <2> HIDE DEF b
  <2> QED BY <2>2, <2>3, <2>4
<1>7. CASE LocalError(w)
  <2>1. queue' = <<>> /\ blk' = [blk EXCEPT ![w] = NoBlock] /\ wpc' = [wpc EXCEPT ![w] = "exit"]
    BY <1>7 DEF LocalError, EndBlock
  <2>2. Holding' = Holding \ {w} /\ \A v \in Holding' : blk'[v] = blk[v]
    BY <2>1 DEF Holding, Busy, TypeOK, WorkerType
  <2> QED BY <2>1, <2>2
<1> QED BY <1>1, <1>2, <1>3, <1>4, <1>5, <1>6, <1>7, WorkerMoves

\* The file of a worker whose destination is refused is in nobody else's hands.
LEMMA LocalErrorRefuses ==
    ASSUME TypeOK, Owned, NEW w \in Worker, LocalError(w)
    PROVE  \E f \in Files : Refused(f)'
<1>1. /\ w \in Holding /\ Kind(blk[w].file) = "whole" /\ UNCHANGED coverage
      /\ queue' = <<>>
  BY DEF LocalError, Holding, Busy
<1>2. PICK f \in Files : f = blk[w].file
  BY <1>1, HeldFacts
<1>3. ~coverage[f].skipped /\ ~IsComplete(coverage[f])
  BY <1>1, <1>2, HeldFacts DEF Due
<1>4. Holding' = Holding \ {w} /\ \A v \in Holding' : blk'[v] = blk[v]
  <2>1. blk' = [blk EXCEPT ![w] = NoBlock] /\ wpc' = [wpc EXCEPT ![w] = "exit"]
    BY DEF LocalError, EndBlock
  <2> QED BY <2>1 DEF Holding, Busy, TypeOK, WorkerType
<1>5. \A v \in Holding \ {w} : blk[v].file # f
  BY <1>1, <1>2 DEF Owned, Apart
<1>6. Refused(f)'
  BY <1>1, <1>3, <1>4, <1>5 DEF Refused
<1> QED BY <1>6

\* Every step keeps the file whose destination was refused out of the record.
LEMMA RefusedKept ==
    ASSUME TypeOK, Recorded, Phases, Owned, RefusedStays, [Next]_vars
    PROVE  RefusedStays'
<1> SUFFICES ASSUME localFailed' PROVE \E f \in Files : Refused(f)'
  BY DEF RefusedStays
<1>1. ASSUME NEW w \in Worker, WorkerStep(w) \/ Trouble(w)
      PROVE  \E f \in Files : Refused(f)'
  <2>1. CASE LocalError(w)
    BY <2>1, LocalErrorRefuses
  <2>2. CASE ~LocalError(w)
    <3>1. localFailed
      BY <1>1, <2>2, WorkerMoves DEF Keeps, DropFailed, Grab, Drops, Fails, Returns, Records,
         Releases, choiceVars
    <3>2. PICK f \in Files : Refused(f)
      BY <3>1 DEF RefusedStays
    <3>3. /\ \A i \in DOMAIN queue' : queue'[i].file # f
          /\ \A v \in Holding' : blk'[v].file # f
      BY <1>1, <3>2, NoNewFiles DEF Refused
    <3>4. ~coverage'[f].skipped
      BY <1>1, <3>2, WorkerGivesUp DEF Refused
    <3>5. ~IsComplete(coverage'[f])
      <4>1. CASE Fails(w)
        BY <3>2, <4>1, FailsFacts DEF Refused
      <4>2. CASE Records(w)
        <5>1. blk[w].file # f
          BY <3>2, <4>2, ReleaseFacts DEF Refused, Records
        <5>2. coverage'[f] = coverage[f]
          BY <4>2, <5>1, RecordsFacts
        <5> QED BY <3>2, <5>2 DEF Refused
      <4>3. CASE Keeps(w) \/ DropFailed(w) \/ Grab(w) \/ Drops(w) \/ Returns(w)
        BY <3>2, <4>3 DEF Keeps, DropFailed, Grab, Drops, Returns, Refused
      <4> QED BY <1>1, <2>2, <4>1, <4>2, <4>3, WorkerMoves
    <3> QED BY <3>3, <3>4, <3>5 DEF Refused
  <2> QED BY <2>1, <2>2
<1>2. CASE User \/ Woken \/ UNCHANGED vars
  <2>1. UNCHANGED <<localFailed, coverage, queue, wpc, blk>>
    BY <1>2, UserFrame DEF choiceVars
  <2> QED BY <2>1 DEF RefusedStays, Refused, Holding
<1>3. CASE BatchThread
  <2>1. localFailed /\ ~StartWorkers /\ pc \notin {"resolve", "asked"}
    BY <1>3 DEF BatchThread, Phases, ResolveFree, ResolveDecided, Ask, Answered, AskInterrupted,
       StoppedBeforeStart, StartWorkers, Join, VerifyFile, VerifyEnds, Outcome, CleanUp,
       choiceVars, Wait, Dozes, FallsAsleep, mainVars
  <2>2. UNCHANGED <<coverage, queue, wpc, blk>>
    BY <1>3, <2>1, OtherSteps
  <2> QED BY <2>1, <2>2 DEF RefusedStays, Refused, Holding
<1> QED BY <1>1, <1>2, <1>3 DEF Next, Ended

-----------------------------------------------------------------------------
(* What is recorded is in the file. *)

\* A file that is recorded as complete holds every chunk.
LEMMA AllBytesThere ==
    ASSUME NEW c, Sound(c), IsComplete(c), NEW data \in SUBSET (0..(c.size - 1)),
           CoveredBytes(c) \subseteq data
    PROVE  data = 0..(c.size - 1)
<1>1. c.size \in Nat
  BY DEF Sound, WellFormed
<1>2. CASE c.size = 0
  <2>1. 0..(c.size - 1) = {}
    BY <1>2
  <2> QED BY <2>1
<1>3. CASE c.size > 0
  BY <1>3, CompleteCovered
<1> QED BY <1>1, <1>2, <1>3

\* A worker's step changes no other worker.
LEMMA OwnOnly ==
    ASSUME TypeOK, NEW w \in Worker, WorkerStep(w) \/ Trouble(w), NEW v \in Worker, v # w
    PROVE  wpc'[v] = wpc[v] /\ blk'[v] = blk[v] /\ pos'[v] = pos[v]
<1>1. DOMAIN wpc = Worker /\ DOMAIN blk = Worker /\ DOMAIN pos = Worker
  BY DEF TypeOK, WorkerType
<1>2. wpc'[v] = wpc[v]
  BY <1>1, WorkerFrame
<1>3. blk'[v] = blk[v] /\ pos'[v] = pos[v]
  BY <1>1 DEF WorkerStep, Trouble, workerVars, EndBlock, GiveBack, WorkerExits, DropFailed, Grab,
     MakeDirectory, Open, Move, Finish, Interrupted, CannotMove, Reconnect, StopReconnecting,
     Upgrade, LoseLink, FileError, LocalError, Pausing
<1> QED BY <1>2, <1>3

\* A worker's step records a range, gives a file up or leaves the record alone.
LEMMA CoverageChanges ==
    ASSUME TypeOK, NEW w \in Worker, WorkerStep(w) \/ Trouble(w)
    PROVE  \/ UNCHANGED coverage \/ MakeDirectory(w) \/ Finish(w)
           \/ (FailFile(blk[w].file) /\ UNCHANGED dest /\ wpc[w] \in Busy)
<1>1. CASE LoseLink(w) \/ CannotMove(w)
  <2>1. wpc[w] \in Busy /\ GiveBack(w) /\ UNCHANGED dest
    BY <1>1 DEF LoseLink, CannotMove, Busy
  <2> DEFINE b == [blk[w] EXCEPT !.tries = @ + 1]
  <2>2. b.file = blk[w].file
    BY <2>1 DEF TypeOK, WorkerType, BlockType
  <2>3. UNCHANGED coverage \/ FailFile(b.file)
    BY <2>1 DEF GiveBack
  <2> HIDE DEF b
  <2> QED BY <2>1, <2>2, <2>3
<1>2. CASE ~LoseLink(w) /\ ~CannotMove(w)
  BY <1>2 DEF WorkerStep, Trouble, workVars, Busy, WorkerExits, DropFailed, Grab, Open, Move,
     Interrupted, Reconnect, StopReconnecting, Upgrade, FileError, LocalError, Pausing
<1> QED BY <1>1, <1>2

\* Giving a file up takes nothing from it.
LEMMA FailedInFile ==
    ASSUME TypeOK, Recorded, NEW f \in Files, InFile(f), UNCHANGED dest,
           NEW g \in Files, coverage' = [coverage EXCEPT ![g] = FailCoverage(@)]
    PROVE  InFile(f)'
<1>1. CASE f = g
  <2>1. coverage'[f] = FailCoverage(coverage[f]) /\ Sound(coverage[f])
    BY <1>1 DEF TypeOK, WorkType, Recorded
  <2>2. /\ ~IsComplete(coverage'[f]) /\ coverage'[f].failed
        /\ coverage'[f].skipped = coverage[f].skipped
    BY <2>1, GivenUpFacts
  <2> QED BY <2>2 DEF InFile
<1>2. CASE f # g
  BY <1>2 DEF TypeOK, WorkType, InFile
<1> QED BY <1>1, <1>2

\* Opening a destination for a whole file truncates it before anything of it has
\* been recorded; a split file is only opened.
LEMMA OpenInFile ==
    ASSUME TypeOK, Recorded, Owned, IsPull, NEW w \in Worker, Open(w), NEW f \in Files, InFile(f)
    PROVE  InFile(f)'
<1>1. CASE dest'[f] = dest[f]
  BY <1>1 DEF InFile, Open
<1>2. CASE dest'[f] # dest[f]
  <2>1. f = blk[w].file /\ dest'[f] = New /\ w \in Holding
    BY <1>2, WriteFacts
  <2>2. Kind(f) = "whole" /\ UNCHANGED coverage
    BY <1>2, <2>1 DEF Open
  <2>3. Extent(blk[w]) = Bytes(f) /\ Extent(blk[w]) \cap CoveredBytes(coverage[f]) = {}
    <3>1. Due(blk[w]) /\ Size(f) \in Nat
      BY <2>1, HeldFacts, SizesAreNat
    <3> QED BY <2>1, <2>2, <3>1 DEF Due, Extent, Bytes
  <2>4. CoveredBytes(coverage[f]) \subseteq Bytes(f)
    BY CoveredInside DEF Recorded, Sound, TypeOK, WorkType, Bytes
  <2> QED BY <2>1, <2>2, <2>3, <2>4 DEF InFile, New
<1> QED BY <1>1, <1>2

\* A block that has been moved in full is in its file when it is recorded.
LEMMA FinishInFile ==
    ASSUME TypeOK, Recorded, Owned, IsPull, NEW w \in Worker, InHand(w), Finish(w),
           NEW f \in Files, InFile(f)
    PROVE  InFile(f)'
<1> DEFINE g == blk[w].file
<1>1. /\ w \in Holding /\ g \in Files
      /\ dest'[f].is = dest[f].is /\ dest'[f].data = dest[f].data
  <2>1. w \in Holding /\ g \in Files
    BY WriteFacts
  <2>2. CASE f = g
    BY <2>2, WriteFacts
  <2>3. CASE f # g
    BY <2>3, WriteFacts
  <2> QED BY <2>1, <2>2, <2>3
<1>2. dest[g].is = "new" /\ Extent(blk[w]) \subseteq dest[g].data
  <2>1. wpc[w] = "xfer" /\ pos[w] = blk[w].len
    BY DEF Finish, MovedAll
  <2> QED BY <1>1, <2>1, HeldFacts DEF InHand
<1>3. CASE coverage'[f] = coverage[f]
  BY <1>1, <1>3 DEF InFile
<1>4. CASE Fails(w) /\ f = g
  <2>1. /\ coverage'[f].failed /\ ~IsComplete(coverage'[f])
        /\ coverage'[f].skipped = coverage[f].skipped
    BY <1>4, FailsFacts
  <2> QED BY <1>1, <2>1 DEF InFile
<1>5. CASE Records(w) /\ f = g
  <2>1. /\ coverage'[f].skipped = coverage[f].skipped
        /\ coverage'[f].failed = coverage[f].failed
        /\ CoveredBytes(coverage'[f]) = CoveredBytes(coverage[f]) \cup Extent(blk[w])
    BY <1>5, RecordsFacts
  <2> QED BY <1>1, <1>2, <1>5, <2>1 DEF InFile
<1>6. \/ coverage'[f] = coverage[f] \/ (Fails(w) /\ f = g) \/ (Records(w) /\ f = g)
  <2>1. CASE UNCHANGED coverage
    BY <2>1
  <2>2. CASE Fails(w)
    BY <2>2, FailsFacts
  <2>3. CASE Records(w)
    BY <2>3, RecordsFacts
  <2>4. \/ UNCHANGED coverage \/ Fails(w) \/ Records(w)
    <3>1. WorkerStep(w)
      BY DEF WorkerStep
    <3>2. \/ Keeps(w) \/ DropFailed(w) \/ Grab(w) \/ Drops(w) \/ Fails(w) \/ Returns(w)
          \/ Records(w) \/ LocalError(w)
      BY <3>1, WorkerMoves
    <3> QED BY <3>2 DEF Keeps, DropFailed, Grab, Drops, Returns, LocalError
  <2> QED BY <2>1, <2>2, <2>3, <2>4
<1> QED BY <1>3, <1>4, <1>5, <1>6

\* While the workers run and after, every chunk on record is in its file.
LEMMA InFilesKept ==
    ASSUME TypeOK, Recorded, Phases, Owned, Arrived, Sure, [Next]_vars
    PROVE  InFiles'
<1> SUFFICES ASSUME pc' \in {"run", "verify", "outcome", "clean"},
                    NEW f \in Files, Kind(f) # "dir"
             PROVE  InFile(f)'
  BY DEF InFiles
<1>0. IsPull /\ InFiles /\ \A w \in Worker : InHand(w)
  BY DEF Sure, Arrived
<1>1. CASE StartWorkers
  <2>1. UNCHANGED coverage /\ Untouched(f) /\ (f \in ToSplit => dest'[f] = New)
    BY <1>1 DEF StartWorkers, Phases, Sure
  <2>2. ~IsComplete(coverage[f]) /\ CoveredBytes(coverage[f]) = {}
    BY <2>1 DEF Untouched
  <2>3. Kind(f) = "split" /\ ~coverage[f].skipped => dest'[f].is = "new"
    BY <2>1 DEF ToSplit, New
  <2> QED BY <2>1, <2>2, <2>3 DEF InFile
<1>2. ASSUME NEW w \in Worker, WorkerStep(w) \/ Trouble(w) PROVE InFile(f)'
  <2>1. InFile(f)
    BY <1>0, <1>2, WorkerFrame, WorkersRun DEF InFiles
  <2>2. CASE Open(w)
    BY <1>0, <2>1, <2>2, OpenInFile
  <2>3. CASE Finish(w)
    BY <1>0, <2>1, <2>3, FinishInFile
  <2>4. CASE Move(w)
    <3>1. UNCHANGED coverage
      BY <2>4 DEF Move
    <3>2. dest'[f].is = dest[f].is /\ dest[f].data \subseteq dest'[f].data
      <4>1. CASE f = blk[w].file
        BY <2>4, <4>1, WriteFacts
      <4>2. CASE f # blk[w].file
        BY <2>4, <4>2, WriteFacts
      <4> QED BY <4>1, <4>2
    <3> QED BY <2>1, <3>1, <3>2 DEF InFile
  <2>5. CASE UNCHANGED <<coverage, dest>>
    BY <2>1, <2>5 DEF InFile
  <2>6. CASE FailFile(blk[w].file) /\ UNCHANGED dest /\ wpc[w] \in Busy
    <3>1. blk[w].file \in Files
      BY <2>6, HeldFacts DEF Holding
    <3> QED BY <2>1, <2>6, <3>1, FailedInFile DEF FailFile
  <2>7. CASE MakeDirectory(w)
    <3>1. Kind(blk[w].file) = "dir" /\ blk[w].file # f /\ UNCHANGED dest
      BY <2>7 DEF MakeDirectory
    <3>2. coverage'[f] = coverage[f]
      BY <2>7, <3>1 DEF MakeDirectory, FailFile, TypeOK, WorkType
    <3> QED BY <2>1, <3>1, <3>2 DEF InFile
  <2>8. UNCHANGED dest \/ Open(w) \/ Move(w) \/ Finish(w)
    BY <1>2 DEF WorkerStep, Trouble, workVars, WorkerExits, DropFailed, Grab, MakeDirectory,
       Interrupted, CannotMove, Reconnect, StopReconnecting, Upgrade, LoseLink, FileError,
       LocalError, Pausing
  <2> QED BY <1>2, <2>2, <2>3, <2>4, <2>5, <2>6, <2>7, <2>8, CoverageChanges
<1>3. CASE User \/ Woken \/ UNCHANGED vars
  <2>1. UNCHANGED <<pc, coverage, dest>>
    BY <1>3, UserFrame
  <2> QED BY <1>0, <2>1 DEF InFiles, InFile
<1>4. CASE BatchThread /\ ~StartWorkers
  <2>1. pc \in {"run", "verify", "outcome"} /\ UNCHANGED <<coverage, dest>>
    BY <1>4 DEF BatchThread, ResolveFree, ResolveDecided, Ask, Answered, AskInterrupted,
       StoppedBeforeStart, Join, VerifyFile, VerifyEnds, Outcome, CleanUp, workVars,
       Wait, Dozes, FallsAsleep, mainVars
  <2> QED BY <1>0, <2>1 DEF InFiles, InFile
<1> QED BY <1>1, <1>2, <1>3, <1>4 DEF Next, Ended

\* A worker that is moving a block has its chunks so far in a file the batch made.
LEMMA InHandKept ==
    ASSUME TypeOK, Recorded, Phases, Owned, Arrived, Sure, [Next]_vars, NEW v \in Worker
    PROVE  InHand(v)'
<1>0. IsPull /\ InFiles /\ InHand(v)
  BY DEF Sure, Arrived
<1>1. CASE StartWorkers
  BY <1>1 DEF StartWorkers, InHand
<1>2. ASSUME NEW w \in Worker, WorkerStep(w) \/ Trouble(w), w # v PROVE InHand(v)'
  <2>1. wpc'[v] = wpc[v] /\ blk'[v] = blk[v] /\ pos'[v] = pos[v]
    BY <1>2, OwnOnly
  <2>2. CASE wpc[v] # "xfer"
    BY <1>0, <2>1, <2>2 DEF InHand
  <2>3. CASE wpc[v] = "xfer"
    <3> DEFINE f == blk[v].file
    <3>1. v \in Holding /\ f \in Files
      BY <2>3, HeldFacts DEF Holding, Busy
    <3>2. dest'[f].is = dest[f].is /\ dest[f].data \subseteq dest'[f].data
      <4>1. CASE UNCHANGED dest
        BY <4>1
      <4>2. CASE Open(w)
        <5>1. CASE blk[w].file = f
          <6>1. w \in Holding
            BY <4>2, WriteFacts
          <6>2. Kind(f) = "split"
            BY <1>2, <3>1, <5>1, <6>1 DEF Owned, Apart
          <6> QED BY <1>0, <4>2, <5>1, <6>2 DEF Open
        <5>2. CASE blk[w].file # f
          BY <3>1, <4>2, <5>2, WriteFacts
        <5> QED BY <5>1, <5>2
      <4>3. CASE Move(w) \/ Finish(w)
        <5>1. CASE blk[w].file = f
          BY <1>0, <4>3, <5>1, WriteFacts
        <5>2. CASE blk[w].file # f
          BY <3>1, <4>3, <5>2, WriteFacts
        <5> QED BY <5>1, <5>2
      <4>4. UNCHANGED dest \/ Open(w) \/ Move(w) \/ Finish(w)
        BY <1>2 DEF WorkerStep, Trouble, workVars, WorkerExits, DropFailed, Grab,
           MakeDirectory, Interrupted, CannotMove, Reconnect, StopReconnecting, Upgrade,
           LoseLink, FileError, LocalError, Pausing
      <4> QED BY <4>1, <4>2, <4>3, <4>4
    <3> QED BY <1>0, <2>1, <2>3, <3>2 DEF InHand, Moved
  <2> QED BY <2>2, <2>3
<1>3. CASE WorkerStep(v) \/ Trouble(v)
  <2>1. CASE Grab(v)
    <3>1. wpc'[v] = "open" /\ pos' = pos /\ v \notin Holding
      BY <2>1, GrabFacts DEF Grab, TypeOK, WorkerType
    <3>2. pos[v] = 0
      BY <3>1 DEF Holding, TypeOK, WorkerType, NoBlock, Block
    <3> QED BY <3>1, <3>2 DEF InHand
  <2>2. CASE Open(v)
    <3> DEFINE f == blk[v].file
    <3>1. v \in Holding /\ f \in Files /\ Due(blk[v])
      BY <2>2, HeldFacts DEF Open, Holding, Busy
    <3>2. /\ wpc'[v] = "xfer" /\ blk' = blk /\ pos' = pos /\ pos[v] = 0
          /\ Kind(f) # "dir"
      BY <1>0, <2>2 DEF Open, InHand, TypeOK, WorkerType
    <3>3. dest'[f].is = "new"
      <4>1. CASE Kind(f) = "whole"
        BY <2>2, <3>1, <4>1 DEF Open, TypeOK, DestType, New
      <4>2. CASE Kind(f) = "split"
        <5>1. pc = "run"
          BY <1>3, WorkerFrame, WorkersRun
        <5>2. InFile(f)
          BY <1>0, <3>1, <3>2, <5>1 DEF InFiles
        <5>3. dest' = dest
          BY <1>0, <2>2, <4>2 DEF Open
        <5> QED BY <3>1, <4>2, <5>2, <5>3 DEF InFile, Due
      <4>3. Kind(f) \in {"dir", "whole", "split"}
        BY <3>1, SizesAreNat
      <4> QED BY <3>2, <4>1, <4>2, <4>3
    <3>4. Moved(v)' = {}
      <4>1. blk[v].off \in Nat
        BY <3>1, HeldFacts DEF BlockType
      <4> QED BY <3>2, <4>1 DEF Moved
    <3> QED BY <3>2, <3>3, <3>4 DEF InHand
  <2>3. CASE Move(v)
    <3> DEFINE f == blk[v].file
               o == blk[v].off
               p == pos[v]
    <3>1. v \in Holding /\ f \in Files /\ o \in Nat /\ p \in Nat
      BY <2>3, HeldFacts DEF Move, Holding, Busy, BlockType
    <3>2. /\ wpc[v] = "xfer" /\ wpc' = wpc /\ blk' = blk /\ pos'[v] = p + 1
      BY <2>3 DEF Move, TypeOK, WorkerType
    <3>3. dest[f].is = "new" /\ o..(o + p - 1) \subseteq dest[f].data
      BY <1>0, <3>2 DEF InHand, Moved
    <3>4. dest'[f].is = "new" /\ dest'[f].data = dest[f].data \cup {o + p}
      BY <2>3, <3>3, WriteFacts
    <3>5. Moved(v)' = o..(o + (p + 1) - 1)
      BY <3>2 DEF Moved
    <3> HIDE DEF f, o, p
    <3>6. o..(o + (p + 1) - 1) \subseteq dest'[f].data
      BY <3>1, <3>3, <3>4
    <3>7. InHand(v)' = /\ wpc'[v] = "open" => pos'[v] = 0
                       /\ wpc'[v] = "xfer" =>
                             dest'[f].is = "new" /\ Moved(v)' \subseteq dest'[f].data
      BY <3>2 DEF InHand, f
    <3> QED BY <3>2, <3>4, <3>5, <3>6, <3>7
  <2>4. CASE wpc'[v] \notin Busy
    BY <2>4 DEF InHand, Busy
  <2>5. CASE UNCHANGED <<wpc, blk, pos, dest>>
    BY <1>0, <2>5 DEF InHand, Moved
  <2>6. \/ Grab(v) \/ Open(v) \/ Move(v) \/ wpc'[v] \notin Busy \/ UNCHANGED <<wpc, blk, pos, dest>>
    BY <1>3 DEF WorkerStep, Trouble, workVars, workerVars, Busy, EndBlock, GiveBack, WorkerExits,
       DropFailed, MakeDirectory, Finish, Interrupted, CannotMove, Reconnect, StopReconnecting,
       Upgrade, LoseLink, FileError, LocalError, Pausing, TypeOK, WorkerType
  <2> QED BY <2>1, <2>2, <2>3, <2>4, <2>5, <2>6
<1>4. CASE User \/ Woken \/ UNCHANGED vars
  <2>1. UNCHANGED <<wpc, blk, pos, dest>>
    BY <1>4, UserFrame
  <2> QED BY <1>0, <2>1 DEF InHand, Moved
<1>5. CASE BatchThread /\ ~StartWorkers
  <2>1. UNCHANGED <<wpc, blk, pos>>
    BY <1>5, OtherSteps
  <2>2. CASE UNCHANGED dest
    BY <1>0, <2>1, <2>2 DEF InHand, Moved
  <2>3. CASE CleanUp
    BY <2>1, <2>3 DEF CleanUp, Phases, AllAt, InHand
  <2>4. UNCHANGED dest \/ CleanUp
    BY <1>5 DEF BatchThread, ResolveFree, ResolveDecided, Ask, Answered, AskInterrupted,
       StoppedBeforeStart, Join, VerifyFile, VerifyEnds, Outcome, workVars,
       Wait, Dozes, FallsAsleep, mainVars
  <2> QED BY <2>2, <2>3, <2>4
<1> QED BY <1>1, <1>2, <1>3, <1>4, <1>5 DEF Next, Ended

\* The clean-up deletes what is partial and keeps what arrived in full.
LEMMA CleanUpCleans ==
    ASSUME TypeOK, Recorded, Arrived, Sure, CleanUp
    PROVE  CleansUp'
<1>1. /\ IsPull /\ pc = "clean" /\ InFiles /\ FinishedKept
      /\ UNCHANGED <<state, existing, coverage, completed>>
  BY DEF Sure, Arrived, CleansUp, CleanUp, choiceVars
<1>2. dest' = [f \in Files |-> IF state \in {"Stopped", "Failed"} /\ f \in Unfinished
                               THEN Absent ELSE dest[f]]
  <2>1. dest = [f \in Files |-> dest[f]]
    BY DEF TypeOK, DestType
  <2> QED BY <1>1, <2>1 DEF CleanUp
<1>3. ASSUME NEW f \in completed, Kind(f) # "dir" PROVE Delivered(f)' /\ f \in Files
  <2>1. Delivered(f) /\ f \notin Unfinished /\ f \in Files
    BY <1>1, <1>3 DEF FinishedKept, Unfinished, TypeOK, BatchType
  <2> QED BY <1>2, <2>1 DEF Delivered
<1>4. FinishedKept'
  BY <1>1, <1>3 DEF FinishedKept
<1>5. NoPartialLeft'
  <2> SUFFICES ASSUME state \in {"Stopped", "Failed"}, NEW f \in Files \ existing,
                      Kind(f) # "dir", ~coverage[f].skipped
               PROVE  dest'[f].is # "new" \/ Delivered(f)'
    BY <1>1 DEF NoPartialLeft
  <2>1. CASE f \in completed
    BY <1>3, <2>1
  <2>2. CASE f \notin completed
    <3>1. f \in Unfinished
      BY <2>2 DEF Unfinished
    <3> QED BY <1>2, <3>1 DEF Absent
  <2> QED BY <2>1, <2>2
<1> QED BY <1>4, <1>5 DEF CleansUp

\* However the batch ends, finished files are kept and partial ones are not.
LEMMA CleansUpKept ==
    ASSUME TypeOK, Recorded, Phases, Owned, Arrived, Sure, [Next]_vars
    PROVE  CleansUp'
<1>0. TypeOK' /\ Recorded' /\ InFiles' /\ Phases'
  BY TypeKept, RecordedKept, InFilesKept, PhasesKept
<1>1. CASE CleanUp
  BY <1>1, CleanUpCleans
<1>2. CASE pc' \in {"run", "verify", "outcome", "clean"}
  <2>1. ASSUME NEW f \in completed', Kind(f) # "dir" PROVE Delivered(f)'
    <3>1. f \in Files /\ Sound(coverage'[f]) /\ IsComplete(coverage'[f])
      BY <1>0, <2>1 DEF Recorded, TypeOK, BatchType
    <3>2. InFile(f)'
      BY <1>0, <1>2, <2>1, <3>1 DEF InFiles
    <3>3. /\ coverage'[f].size = Size(f) /\ dest'[f].data \subseteq Bytes(f)
          /\ ~coverage'[f].failed
      BY <1>0, <3>1 DEF TypeOK, WorkType, DestType, IsComplete
    <3>4. dest'[f].is = "new" /\ CoveredBytes(coverage'[f]) \subseteq dest'[f].data
      BY <3>1, <3>2, <3>3 DEF InFile
    <3>5. dest'[f].data = Bytes(f)
      BY <3>1, <3>3, <3>4, AllBytesThere DEF Bytes
    <3> QED BY <3>4, <3>5 DEF Delivered
  <2> QED BY <1>2, <2>1 DEF CleansUp, NoPartialLeft, FinishedKept
<1>3. CASE pc' \in {"resolve", "asked"}
  BY <1>0, <1>3 DEF Phases, CleansUp, NoPartialLeft, FinishedKept
<1>4. CASE pc' = "ended" /\ ~CleanUp
  <2>1. CASE StoppedBeforeStart
    <3>1. /\ completed' = {} /\ UNCHANGED <<coverage, dest, existing>>
          /\ \A f \in Files : dest[f].is # "new"
      BY <2>1 DEF StoppedBeforeStart, Phases, Untouched, workVars, choiceVars
    <3> QED BY <3>1 DEF CleansUp, NoPartialLeft, FinishedKept
  <2>2. CASE User \/ Woken \/ UNCHANGED vars
    <3>1. UNCHANGED <<pc, state, existing, coverage, completed, dest>>
      BY <2>2, UserFrame DEF choiceVars
    <3>2. CleansUp
      BY DEF Arrived
    <3> QED BY <3>1, <3>2 DEF CleansUp, NoPartialLeft, FinishedKept, Delivered
  <2>3. ~StoppedBeforeStart => ~BatchThread
    BY <1>4 DEF BatchThread, ResolveFree, ResolveDecided, Ask, Answered, AskInterrupted,
       StartWorkers, Join, VerifyFile, VerifyEnds, Outcome, Wait, Dozes, FallsAsleep, mainVars
  <2>4. ASSUME NEW w \in Worker, WorkerStep(w) \/ Trouble(w) PROVE FALSE
    <3>1. pc = "run" /\ pc' = pc
      BY <2>4, WorkerFrame, WorkersRun DEF mainVars
    <3> QED BY <1>4, <3>1
  <2> QED BY <2>1, <2>2, <2>3, <2>4 DEF Next, Ended
<1>5. pc' \in {"resolve", "asked", "run", "verify", "outcome", "clean", "ended"}
  BY <1>0 DEF TypeOK, BatchType
<1> QED BY <1>1, <1>2, <1>3, <1>4, <1>5

\* Every step keeps what is said of the files a pull writes.
LEMMA ArrivedKept ==
    ASSUME TypeOK, Recorded, Phases, Owned, Arrived, [Next]_vars
    PROVE  Arrived'
<1> SUFFICES ASSUME Sure PROVE InFiles' /\ (\A w \in Worker : InHand(w)') /\ CleansUp'
  BY DEF Arrived, Sure
<1> QED BY InFilesKept, InHandKept, CleansUpKept

-----------------------------------------------------------------------------
(* The outcome the batch reports. *)

\* The loop that verifies has compared every item before its position.
LEMMA CheckedKept ==
    ASSUME TypeOK, Phases, Checked, [Next]_vars
    PROVE  Checked'
<1>1. CASE VerifyFile
  <2>1. /\ pc = "verify" /\ pc' = "verify" /\ verified' = verified + 1
        /\ UNCHANGED <<coverage, dest>>
        /\ crcFailed => crcFailed'
        /\ ToVerify(verified + 1) /\ ~crcFailed' => CrcMatches(verified + 1)
    BY <1>1 DEF VerifyFile, workVars, TypeOK, FlagType
  <2>2. \A f \in Files : f <= verified + 1 => f <= verified \/ f = verified + 1
    BY DEF Files, TypeOK, BatchType
  <2>3. \A f \in Files : (ToVerify(f)' <=> ToVerify(f)) /\ (CrcMatches(f)' <=> CrcMatches(f))
    BY <2>1 DEF ToVerify, CrcMatches, Delivered
  <2> QED BY <2>1, <2>2, <2>3 DEF Checked
<1>2. CASE VerifyEnds
  <2>1. /\ pc = "verify" /\ UNCHANGED <<verified, crcFailed, state, stopRequested, coverage, dest>>
        /\ pc' = "outcome" /\ (verified = Len(Plan) \/ stopRequested)
    BY <1>2 DEF VerifyEnds, workVars, uiVars, flagVars
  <2> QED BY <2>1 DEF Checked, ToVerify, CrcMatches, Delivered
<1>3. CASE Join
  <2>1. pc' = "verify" => verified' = 0
    BY <1>3 DEF Join, Phases
  <2>2. ~(pc' = "outcome" /\ Verify /\ state' # "Failed" /\ ~stopRequested')
    BY <1>3 DEF Join, uiVars, flagVars
  <2>3. \A f \in Files : ~(f <= 0)
    BY DEF Files
  <2> QED BY <2>1, <2>2, <2>3 DEF Checked
<1>4. CASE User \/ Woken \/ UNCHANGED vars
  <2>1. /\ UNCHANGED <<pc, verified, crcFailed, state, coverage, dest>>
        /\ stopRequested => stopRequested'
    BY <1>4, UserFrame
  <2> QED BY <2>1 DEF Checked, ToVerify, CrcMatches, Delivered
<1>5. ASSUME NEW w \in Worker, WorkerStep(w) \/ Trouble(w) PROVE Checked'
  <2>1. pc = "run" /\ pc' = pc
    BY <1>5, WorkerFrame, WorkersRun DEF mainVars
  <2> QED BY <2>1 DEF Checked
<1>6. CASE BatchThread /\ ~VerifyFile /\ ~VerifyEnds /\ ~Join
  <2>1. pc' \notin {"verify", "outcome"}
    BY <1>6 DEF BatchThread, ResolveFree, ResolveDecided, Ask, Answered, AskInterrupted,
       StoppedBeforeStart, StartWorkers, Outcome, CleanUp, Wait, Dozes, FallsAsleep, mainVars
  <2> QED BY <2>1 DEF Checked
<1> QED BY <1>1, <1>2, <1>3, <1>4, <1>5, <1>6 DEF Next, Ended

\* What Outcome calls completed has been delivered: on the PC because what is
\* recorded is in the files, on the device because its CRCs were compared.
LEMMA OutcomeTells ==
    ASSUME TypeOK, Recorded, RefusedStays, Arrived, Checked, Certain, Outcome
    PROVE  CompletedMeansDelivered'
<1> SUFFICES ASSUME state' = "Completed"
             PROVE  /\ ~localFailed
                    /\ \A f \in Files : Kind(f) = "dir" \/ coverage[f].skipped \/ Delivered(f)
  BY DEF CompletedMeansDelivered, Outcome, choiceVars, workVars, Delivered
<1>1. /\ pc = "outcome" /\ ~stopRequested /\ state # "Failed"
      /\ Incomplete = {} /\ ~crcFailed
  BY DEF Outcome
<1>2. \A f \in Files : ~coverage[f].skipped => IsComplete(coverage[f])
  BY <1>1 DEF Incomplete
<1>3. ~localFailed
  BY <1>2 DEF RefusedStays, Refused
<1>4. ASSUME NEW f \in Files, Kind(f) # "dir", ~coverage[f].skipped PROVE Delivered(f)
  <2>1. IsComplete(coverage[f]) /\ Sound(coverage[f]) /\ ~coverage[f].failed
    BY <1>2, <1>4 DEF Recorded, IsComplete
  <2>2. CASE Sure
    <3>1. dest[f].is = "new" /\ CoveredBytes(coverage[f]) \subseteq dest[f].data
      BY <1>1, <1>4, <2>1, <2>2 DEF Arrived, InFiles, InFile
    <3>2. coverage[f].size = Size(f) /\ dest[f].data \subseteq Bytes(f)
      BY DEF TypeOK, WorkType, DestType
    <3>3. dest[f].data = Bytes(f)
      BY <2>1, <3>1, <3>2, AllBytesThere DEF Bytes
    <3> QED BY <3>1, <3>3 DEF Delivered
  <2>3. CASE ~IsPull /\ Verify
    <3>1. verified = Len(Plan) /\ f <= Len(Plan)
      BY <1>1, <2>3 DEF Checked, Files
    <3>2. CrcMatches(f)
      BY <1>1, <1>4, <2>1, <2>3, <3>1 DEF Checked, ToVerify
    <3> QED BY <2>3, <3>2 DEF CrcMatches
  <2> QED BY <2>2, <2>3 DEF Certain
<1> QED BY <1>3, <1>4

\* Every step keeps a reported completion true.
LEMMA OutcomesKept ==
    ASSUME TypeOK, Recorded, Phases, RefusedStays, Arrived, Checked, Outcomes, [Next]_vars
    PROVE  Outcomes'
<1> SUFFICES ASSUME Certain PROVE CompletedMeansDelivered'
  BY DEF Outcomes, Certain, Sure
<1>0. CompletedMeansDelivered
  BY DEF Outcomes
<1>1. CASE Outcome
  BY <1>1, OutcomeTells
<1>2. CASE CleanUp
  <2>1. /\ UNCHANGED <<state, localFailed, coverage>>
        /\ state = "Completed" => UNCHANGED dest
    BY <1>2 DEF CleanUp, choiceVars
  <2> QED BY <1>0, <2>1 DEF CompletedMeansDelivered, Delivered
<1>3. CASE User \/ Woken \/ UNCHANGED vars
  <2>1. UNCHANGED <<state, localFailed, coverage, dest>>
    BY <1>3, UserFrame DEF choiceVars
  <2> QED BY <1>0, <2>1 DEF CompletedMeansDelivered, Delivered
<1>4. ASSUME NEW w \in Worker, WorkerStep(w) \/ Trouble(w) PROVE CompletedMeansDelivered'
  <2>1. pc = "run"
    BY <1>4, WorkerFrame, WorkersRun
  <2>2. state' # "Completed"
    BY <1>4, <2>1, WorkerFrame DEF Phases
  <2> QED BY <2>2 DEF CompletedMeansDelivered
<1>5. CASE BatchThread /\ ~Outcome /\ ~CleanUp
  <2>1. state' # "Completed"
    BY <1>5 DEF BatchThread, Phases, ResolveFree, ResolveDecided, Ask, Answered, AskInterrupted,
       StoppedBeforeStart, StartWorkers, Join, VerifyFile, VerifyEnds, Wait, Dozes, FallsAsleep,
       mainVars
  <2> QED BY <2>1 DEF CompletedMeansDelivered
<1> QED BY <1>1, <1>2, <1>3, <1>4, <1>5 DEF Next, Ended

-----------------------------------------------------------------------------
(* The files that were there before. *)

\* No step makes a destination an old file.
LEMMA OldStays ==
    ASSUME TypeOK, Owned, [Next]_vars, NEW f \in Files, dest'[f].is = "old"
    PROVE  dest[f].is = "old"
<1>1. CASE StartWorkers
  BY <1>1 DEF StartWorkers, New
<1>2. CASE CleanUp
  BY <1>2 DEF CleanUp, Absent
<1>3. ASSUME NEW w \in Worker, Open(w) \/ Move(w) \/ Finish(w) PROVE dest[f].is = "old"
  <2>1. CASE f = blk[w].file
    BY <1>3, <2>1, WriteFacts DEF New
  <2>2. CASE f # blk[w].file
    BY <1>3, <2>2, WriteFacts
  <2> QED BY <2>1, <2>2
<1> QED BY <1>1, <1>2, <1>3, DestChanges

\* The conflict loop passes no old file that it does not find.
LEMMA OldKnownKept ==
    ASSUME TypeOK, Phases, Owned, OldKnown, [Next]_vars
    PROVE  OldKnown'
<1>1. \A f \in Files : dest'[f].is = "old" => dest[f].is = "old" /\ Kind(f) # "dir"
  BY OldStays DEF OldKnown
<1> SUFFICES ASSUME IsPull, ~MayShutDown
             PROVE  /\ ~shutdown'
                    /\ \A f \in Files : dest'[f].is = "old" /\ f < next' => f \in existing'
                    /\ pc' \in {"run", "verify", "outcome", "clean"} => next' = Len(Plan) + 1
  BY <1>1 DEF OldKnown
<1>2. /\ ~shutdown
      /\ \A f \in Files : dest[f].is = "old" /\ f < next => f \in existing
      /\ pc \in {"run", "verify", "outcome", "clean"} => next = Len(Plan) + 1
  BY DEF OldKnown
<1>3. CASE UNCHANGED <<pc, next, existing, shutdown>>
  BY <1>1, <1>2, <1>3
<1>4. ASSUME NEW w \in Worker, WorkerStep(w) \/ Trouble(w)
      PROVE  UNCHANGED <<pc, next, existing, shutdown>>
  BY <1>4, WorkerFrame DEF mainVars, uiVars, flagVars
<1>5. CASE User \/ Woken \/ UNCHANGED vars
  <2>1. UNCHANGED <<pc, next, existing>>
    BY <1>5, UserFrame DEF choiceVars
  <2>2. UNCHANGED shutdown
    BY <1>5 DEF User, vars, uiVars, AnswerConflict, Stop, Pause, Resume, ShutDown,
         Woken, Wakes, flagVars
  <2> QED BY <1>3, <2>1, <2>2
<1>6. CASE ResolveFree \/ ResolveDecided \/ Ask \/ Wait \/ Answered \/ AskInterrupted
  <2>1. UNCHANGED <<shutdown, dest>> /\ existing \subseteq existing' /\ pc' \in {"resolve", "asked"}
    BY <1>6 DEF ResolveFree, ResolveDecided, Ask, Answered, AskInterrupted, uiVars, choiceVars,
       workVars, Wait, Dozes, FallsAsleep, flagVars, mainVars
  <2>2. next' = next \/ next' = next + 1
    BY <1>6 DEF ResolveFree, ResolveDecided, Ask, Answered, AskInterrupted,
         Wait, Dozes, FallsAsleep, mainVars
  <2>3. next' = next + 1 => next \in existing' \/ Kind(next) = "dir" \/ dest[next].is # "old"
    BY <1>6 DEF Phases, DestExists, ResolveFree, ResolveDecided, Ask, Answered, AskInterrupted,
         Wait, Dozes, FallsAsleep, mainVars, choiceVars
  <2>4. \A f \in Files : f < next + 1 => f < next \/ f = next
    BY DEF Files, TypeOK, BatchType
  <2> QED BY <1>1, <1>2, <2>1, <2>2, <2>3, <2>4
<1>7. CASE BatchThread /\ ~(ResolveFree \/ ResolveDecided \/ Ask \/ Wait \/ Answered \/ AskInterrupted)
  <2>1. UNCHANGED <<next, existing, shutdown>>
    BY <1>7 DEF BatchThread, uiVars, choiceVars, StoppedBeforeStart, StartWorkers, Join,
       VerifyFile, VerifyEnds, Outcome, CleanUp, flagVars
  <2>2. pc' \in {"run", "verify", "outcome", "clean"} =>
           pc \in {"run", "verify", "outcome", "clean"} \/ next > Len(Plan)
    BY <1>2, <1>7 DEF BatchThread, StoppedBeforeStart, StartWorkers, Join,
       VerifyFile, VerifyEnds, Outcome, CleanUp
  <2>3. next > Len(Plan) => next = Len(Plan) + 1
    BY SizesAreNat DEF TypeOK, BatchType
  <2> QED BY <1>1, <1>2, <2>1, <2>2, <2>3
<1> QED BY <1>3, <1>4, <1>5, <1>6, <1>7 DEF Next, BatchThread, Ended

-----------------------------------------------------------------------------
(* The theorems. *)

\* The initial state is well typed.
LEMMA InitType == Init => TypeOK
<1> SUFFICES ASSUME Init PROVE TypeOK
  OBVIOUS
<1>1. FlagType
  BY DEF Init, FlagType
<1>2. BatchType
  BY SizesAreNat DEF Init, BatchType, Naps
<1>3. WorkType
  <2>1. \A f \in Files : coverage[f] = NewCoverage(Size(f)) /\ Size(f) \in Nat
    BY SizesAreNat DEF Init
  <2>2. \A f \in Files : coverage[f].size = Size(f) /\ coverage[f].bytes \in 0..Size(f)
    BY <2>1, NewSound, BytesInside
  <2>3. queue \in Seq(BlockType) /\ DOMAIN coverage = Files
    BY DEF Init
  <2> QED BY <2>2, <2>3 DEF WorkType
<1>4. DestType
  BY DEF Init, DestType, Old, Absent
<1>5. WorkerType
  BY DEF Init, WorkerType, NoBlock, Block, Busy
<1> QED BY <1>1, <1>2, <1>3, <1>4, <1>5 DEF TypeOK

\* The invariant holds when the batch starts.
LEMMA InitIInv == Init => IInv
<1> SUFFICES ASSUME Init PROVE IInv
  OBVIOUS
<1>1. TypeOK
  BY InitType
<1>2. \A f \in Files : coverage[f] = NewCoverage(Size(f)) /\ Size(f) \in Nat
  BY SizesAreNat DEF Init
<1>3. \A f \in Files : /\ Sound(coverage[f]) /\ CoveredBytes(coverage[f]) = {}
                       /\ coverage[f].size = Size(f) /\ ~coverage[f].empty
                       /\ ~coverage[f].failed /\ ~coverage[f].skipped
  BY <1>2, NewSound
<1>4. Recorded
  BY <1>3 DEF Init, Recorded
<1>5. \A f \in Files : ~IsComplete(coverage[f])
  <2> SUFFICES ASSUME NEW f \in Files PROVE ~IsComplete(coverage[f])
    OBVIOUS
  <2>1. CASE Size(f) = 0
    BY <1>3, <2>1 DEF IsComplete
  <2>2. CASE Size(f) # 0
    <3>1. 0 \in 0..(coverage[f].size - 1)
      BY <1>2, <1>3, <2>2
    <3> QED BY <1>3, <3>1, ShortIsIncomplete
  <2> QED BY <2>1, <2>2
<1>6. Phases
  <2>1. \A f \in Files : dest[f].is # "new"
    BY DEF Init, Old, Absent
  <2>2. \A f \in Files : Untouched(f)
    BY <1>3, <1>5, <2>1 DEF Untouched
  <2> QED BY <2>2 DEF Init, Phases, AllAt
<1>7. Owned /\ AllKept /\ RefusedStays
  BY DEF Init, Owned, Holding, Busy, AllKept, Quiet, RefusedStays
<1>8. Arrived /\ Checked /\ Outcomes
  BY DEF Init, Arrived, InFiles, InHand, CleansUp, NoPartialLeft, FinishedKept, Checked, Outcomes,
     CompletedMeansDelivered
<1>9. OldKnown
  <2>1. \A f \in Files : dest[f].is = "old" => f \in Present
    BY DEF Init, Absent
  <2>2. ~shutdown /\ pc = "resolve" /\ next = 1
    BY DEF Init
  <2>3. \A f \in Files : ~(f < 1)
    BY DEF Files
  <2>4. \A f \in Present : Kind(f) # "dir"
    BY PlanAssumption
  <2> QED BY <2>1, <2>2, <2>3, <2>4 DEF OldKnown
<1> QED BY <1>1, <1>4, <1>6, <1>7, <1>8, <1>9 DEF IInv

\* Every step preserves the invariant, conjunct by conjunct.
LEMMA NextIInv == IInv /\ [Next]_vars => IInv'
  BY TypeKept, RecordedKept, PhasesKept, OwnedKept, AllKeptKept, RefusedKept, ArrivedKept,
     CheckedKept, OutcomesKept, OldKnownKept DEF IInv

\* The conjuncts together are an inductive invariant.
THEOREM Invariance == Spec => []IInv
  BY InitIInv, NextIInv, PTL DEF Spec

\* Every variable keeps its type; no worker moves more than its block has, and no
\* file records more than its size.
THEOREM TypeCorrect == Spec => []TypeOK
<1>1. IInv => TypeOK
  BY DEF IInv
<1> QED BY <1>1, Invariance, PTL

\* The blocks of the workers and of the queue are disjoint parts of their files.
LEMMA NoTwoOwners == TypeOK /\ Owned => OneOwner
<1> SUFFICES ASSUME TypeOK, Owned, NEW f \in Files
             PROVE  /\ \A i, j \in 1..Len(queue) : i # j => Queued(i, f) \cap Queued(j, f) = {}
                    /\ \A v, w \in Worker : v # w => Held(v, f) \cap Held(w, f) = {}
                    /\ \A i \in 1..Len(queue), w \in Worker : Queued(i, f) \cap Held(w, f) = {}
                    /\ ~coverage[f].failed =>
                          /\ \A i \in 1..Len(queue) :
                                Queued(i, f) \cap CoveredBytes(coverage[f]) = {}
                          /\ \A w \in Worker : Held(w, f) \cap CoveredBytes(coverage[f]) = {}
  BY DEF OneOwner
<1>1. DOMAIN queue = 1..Len(queue)
  BY DEF TypeOK, WorkType
<1>2. ASSUME NEW a \in BlockType, NEW b \in BlockType, Apart(a, b)
      PROVE  Span(a, f) \cap Span(b, f) = {}
  <2>1. a.off \in Nat /\ a.len \in Nat /\ b.off \in Nat /\ b.len \in Nat
    BY <1>2 DEF BlockType
  <2>2. CASE a.file = f /\ b.file = f
    BY <1>2, <2>1, <2>2 DEF Apart, Span
  <2>3. CASE a.file # f \/ b.file # f
    BY <2>3 DEF Span
  <2> QED BY <2>2, <2>3
<1>3. ASSUME NEW a, Due(a), ~coverage[f].failed
      PROVE  Span(a, f) \cap CoveredBytes(coverage[f]) = {}
  BY <1>3 DEF Due, Span, Extent
<1>4. \A w \in Worker : w \in Holding \/ Held(w, f) = {}
  <2> SUFFICES ASSUME NEW w \in Worker, w \notin Holding PROVE Held(w, f) = {}
    OBVIOUS
  <2>1. blk[w] = NoBlock /\ NoBlock.file = 0 /\ f # 0
    BY DEF Holding, TypeOK, WorkerType, NoBlock, Block, Files
  <2> QED BY <2>1 DEF Held, Span
<1>5. /\ \A i \in DOMAIN queue : queue[i] \in BlockType /\ Due(queue[i])
      /\ \A w \in Holding : blk[w] \in BlockType /\ Due(blk[w])
  BY DEF Owned, Due
<1> QED BY <1>1, <1>2, <1>3, <1>4, <1>5 DEF Owned, Queued, Held

\* Each chunk that is to come is with one of them.
LEMMA NoneForgotten == TypeOK /\ AllKept => NothingForgotten
<1> SUFFICES ASSUME TypeOK, AllKept, Quiet, NEW f \in Files,
                    ~coverage[f].skipped, ~coverage[f].failed, NEW x \in Bytes(f)
             PROVE  x \in UNION ({Queued(i, f) : i \in 1..Len(queue)}
                                 \cup {Held(w, f) : w \in Worker} \cup {CoveredBytes(coverage[f])})
  BY DEF NothingForgotten, Quiet
<1>1. Kept(f, x)
  BY DEF AllKept
<1>2. DOMAIN queue = 1..Len(queue)
  BY DEF TypeOK, WorkType
<1>3. CASE x \in CoveredBytes(coverage[f])
  BY <1>3
<1>4. ASSUME NEW i \in DOMAIN queue, queue[i].file = f, x \in Extent(queue[i])
      PROVE  x \in Queued(i, f) /\ i \in 1..Len(queue)
  BY <1>2, <1>4 DEF Queued, Span, Extent
<1>5. ASSUME NEW w \in Holding, blk[w].file = f, x \in Extent(blk[w])
      PROVE  x \in Held(w, f) /\ w \in Worker
  BY <1>5 DEF Held, Span, Extent, Holding
<1> QED BY <1>1, <1>3, <1>4, <1>5 DEF Kept

\* Through every slicing, return, retry and failure the chunks of a file are divided
\* among the queue, the workers and the record: none has two owners, and none that is
\* still wanted is forgotten.
THEOREM Partition == Spec => []WorkPartitioned
<1>1. IInv => WorkPartitioned
  BY NoTwoOwners, NoneForgotten DEF IInv, WorkPartitioned
<1> QED BY <1>1, Invariance, PTL

\* "Completed" is the truth about a pull whose split files could all be created, and
\* about a push that is verified.
THEOREM Delivery ==
    ASSUME Certain
    PROVE  Spec => []CompletedMeansDelivered
<1>1. IInv => CompletedMeansDelivered
  BY DEF IInv, Outcomes
<1> QED BY <1>1, Invariance, PTL

\* A pull whose split files could all be created leaves, however it ends, no partial
\* file where there was none, and keeps each that arrived in full.
THEOREM CleanUpKeepsFinished ==
    ASSUME Sure
    PROVE  Spec => []CleansUp
<1>1. IInv => CleansUp
  BY DEF IInv, Arrived
<1> QED BY <1>1, Invariance, PTL

\* A pull deletes only what it wrote: an old file that nobody has begun to write is
\* among the files the conflict loop found.
THEOREM OldFilesStay ==
    ASSUME IsPull, ~MayShutDown
    PROVE  Spec => OnlyPartialDeleted
<1>1. ASSUME IInv, [Next]_vars, NEW f \in Files, dest[f].is = "old", dest'[f].is = "absent"
      PROVE  FALSE
  <2>0. TypeOK /\ Owned /\ OldKnown
    BY <1>1 DEF IInv
  <2>1. CASE StartWorkers
    BY <1>1, <2>1 DEF StartWorkers, New
  <2>2. CASE CleanUp
    <3>1. f \in Unfinished /\ pc = "clean"
      BY <1>1, <2>2 DEF CleanUp
    <3>2. f \notin existing
      BY <3>1 DEF Unfinished
    <3>3. f < Len(Plan) + 1
      BY SizesAreNat DEF Files
    <3> QED BY <1>1, <2>0, <3>1, <3>2, <3>3 DEF OldKnown
  <2>3. ASSUME NEW w \in Worker, Open(w) \/ Move(w) \/ Finish(w) PROVE FALSE
    <3>1. CASE f = blk[w].file
      BY <1>1, <2>0, <2>3, <3>1, WriteFacts DEF New
    <3>2. CASE f # blk[w].file
      BY <1>1, <2>0, <2>3, <3>2, WriteFacts
    <3> QED BY <3>1, <3>2
  <2> QED BY <1>1, <2>1, <2>2, <2>3, DestChanges
<1>2. IInv /\ [Next]_vars =>
         [\A f \in Files : dest[f].is = "old" => dest'[f].is # "absent"]_vars
  BY <1>1
<1> QED BY <1>2, Invariance, PTL DEF OnlyPartialDeleted, Spec

\* A pull writes an old file only after it has found it, and the user, or a decision
\* for all files, has not skipped it.
THEOREM OverwritesAreApproved ==
    ASSUME IsPull, ~MayShutDown
    PROVE  Spec => OverwriteIsApproved
<1>1. ASSUME IInv, [Next]_vars, NEW f \in Files, dest[f].is = "old", dest'[f].is = "new"
      PROVE  f \in existing /\ ~coverage[f].skipped /\ f < next
  <2>0. TypeOK /\ Owned /\ OldKnown /\ Phases
    BY <1>1 DEF IInv
  <2>1. f < Len(Plan) + 1
    BY SizesAreNat DEF Files
  <2>2. CASE StartWorkers
    <3>1. f \in ToSplit /\ next > Len(Plan)
      BY <1>1, <2>0, <2>2 DEF StartWorkers, OldKnown
    <3>2. f < next /\ ~coverage[f].skipped
      BY <2>0, <2>1, <3>1, SizesAreNat DEF TypeOK, BatchType, Files, ToSplit
    <3> QED BY <1>1, <2>0, <3>2 DEF OldKnown
  <2>3. CASE CleanUp
    BY <1>1, <2>3 DEF CleanUp, Absent
  <2>4. ASSUME NEW w \in Worker, Open(w) \/ Move(w) \/ Finish(w)
        PROVE  f \in existing /\ ~coverage[f].skipped /\ f < next
    <3>1. f = blk[w].file /\ w \in Holding
      BY <1>1, <2>0, <2>4, WriteFacts
    <3>2. ~coverage[f].skipped
      BY <2>0, <3>1, HeldFacts DEF Due
    <3>3. pc = "run"
      BY <2>0, <2>4, WorkersRun DEF Open, Move, Finish, MovedAll
    <3> QED BY <1>1, <2>0, <2>1, <3>2, <3>3 DEF OldKnown
  <2> QED BY <1>1, <2>2, <2>3, <2>4, DestChanges
<1>2. IInv /\ [Next]_vars =>
         [\A f \in Files : dest[f].is = "old" /\ dest'[f].is = "new" =>
             f \in existing /\ ~coverage[f].skipped /\ f < next]_vars
  BY <1>1
<1> QED BY <1>2, Invariance, PTL DEF OverwriteIsApproved, Spec
=============================================================================
