------------------------- MODULE DokanDrive_proofs -------------------------
(***************************************************************************)
(* What the mounted drive keeps, for every number of programs and files,   *)
(* every size of the buffers and caches and every bound: what a write has  *)
(* acknowledged is where the file will have it, no buffer is left behind,  *)
(* and a cached listing is true.                                           *)
(***************************************************************************)
EXTENDS DokanDrive, SequenceTheorems, TLAPS

-----------------------------------------------------------------------------
(* The inductive invariant. *)

\* Between calls a program has no handle; inside one it has, and for writing where
\* the call is one that creates; only a program that flushes has taken a buffer.
Calls ==
    \A u \in Program :
        /\ pc[u] = "out" => handle[u] = NoHandle
        /\ pc[u] # "out" => handle[u].path \in Path
        /\ pc[u] \in {"create", "created", "register"} => handle[u].write
        /\ pc[u] = "flush" => taken[u].path \in Path /\ taken[u].data # <<>>
        /\ pc[u] # "flush" => taken[u] = Nothing

\* A program in its WriteFile has the file open for writing and was given one block for it;
\* only if that path is given up does the file have another name by now.
UnderWay ==
    \A u \in Program : pc[u] \in {"write", "direct"} =>
        /\ handle[u].write
        /\ given[u].path \in Path /\ given[u].off \in 0..(MaxLength - 1)
        /\ Head(given[u].data) \in 1..MaxWrites /\ given[u].data = <<Head(given[u].data)>>
        /\ given[u].path \notin harmed => handle[u].path = given[u].path

\* What is acknowledged are blocks.
Acks ==
    /\ DOMAIN acked = Path
    /\ \A p \in Path : DOMAIN acked[p] \subseteq 1..MaxLength

\* Data of a path leave in one program's Cleanup at a time, and none is buffered behind.
OneSender ==
    \A p \in Path \ harmed :
        /\ \A u, v \in Program : taken[u].path = p /\ taken[v].path = p => u = v
        /\ OnItsWay(p) => ~Buffered(p)

\* Who will close a file whose data are in the buffer.
Kept ==
    \A p \in Path \ harmed :
        Buffered(p) => \E u \in Program : handle[u].path = p /\ pc[u] \in Between

IInv ==
    /\ TypeOK /\ Calls /\ UnderWay /\ Acks
    /\ OneSender /\ NothingLost /\ Kept /\ ListingCurrent

-----------------------------------------------------------------------------
(* Sequences. *)

\* The contents of a file are blocks.
LEMMA Contents ==
    ASSUME NEW file \in Seq(Byte) \cup {Absent}
    PROVE  /\ Content(file) \in Seq(Byte)
           /\ file # Absent => Content(file) = file
           /\ file = Absent => Content(file) = <<>>
  BY NamesAssumption DEF Content

\* What putting data into a file gives.
LEMMA Splices ==
    ASSUME NEW file \in Seq(Byte) \cup {Absent}, NEW off \in Nat, NEW data \in Seq(Byte)
    PROVE  /\ Splice(file, off, data) \in Seq(Byte)
           /\ Splice(file, off, data) # Absent
           /\ DOMAIN Splice(file, off, data)
                = {i \in Nat : i >= 1 /\ (i <= off + Len(data) \/ i <= Len(Content(file)))}
           /\ \A i \in DOMAIN Splice(file, off, data) :
                /\ i \in (off + 1)..(off + Len(data)) =>
                        Splice(file, off, data)[i] = data[i - off]
                /\ i \notin (off + 1)..(off + Len(data)) /\ i \in DOMAIN Content(file) =>
                        Splice(file, off, data)[i] = Content(file)[i]
<1> DEFINE old == Content(file)
           end == off + Len(data)
           top == IF end > Len(old) THEN end ELSE Len(old)
           Block(i) == IF i \in off+1..end THEN data[i - off]
                       ELSE IF i <= Len(old) THEN old[i] ELSE Zero
<1>1. old \in Seq(Byte)
  BY Contents
<1>2. Len(data) \in Nat /\ Len(old) \in Nat /\ DOMAIN old = 1..Len(old)
  BY <1>1
<1>3. end \in Nat /\ top \in Nat
  BY <1>2
<1>4. Splice(file, off, data) = [i \in 1..top |-> Block(i)]
  BY DEF Splice
<1>5. \A i \in 1..top : Block(i) \in Byte
  <2> SUFFICES ASSUME NEW i \in 1..top PROVE Block(i) \in Byte
    OBVIOUS
  <2>1. CASE i \in off+1..end
    <3>1. i - off \in 1..Len(data)
      BY <1>2, <1>3, <2>1
    <3>2. data[i - off] \in Byte
      BY <3>1
    <3> QED BY <2>1, <3>2
  <2>2. CASE i \notin off+1..end /\ i <= Len(old)
    <3>1. old[i] \in Byte
      BY <1>1, <1>2, <1>3, <2>2
    <3> QED BY <2>2, <3>1
  <2>3. CASE i \notin off+1..end /\ ~(i <= Len(old))
    BY <2>3 DEF Byte
  <2> QED BY <2>1, <2>2, <2>3
<1> HIDE DEF Block
<1>6. Splice(file, off, data) \in Seq(Byte)
  BY <1>3, <1>4, <1>5
<1>7. DOMAIN Splice(file, off, data) = 1..top
  BY <1>4
<1>8. 1..top = {i \in Nat : i >= 1 /\ (i <= end \/ i <= Len(old))}
  BY <1>2, <1>3
<1>9. ASSUME NEW i \in 1..top
      PROVE  /\ i \in (off + 1)..end => Splice(file, off, data)[i] = data[i - off]
             /\ i \notin (off + 1)..end /\ i \in DOMAIN old =>
                    Splice(file, off, data)[i] = old[i]
  BY <1>2, <1>4 DEF Block
<1> QED BY <1>6, <1>7, <1>8, <1>9, NamesAssumption

\* What writeRange can make of a file.
LEMMA Ranges ==
    ASSUME NEW file \in Seq(Byte) \cup {Absent}, NEW off \in Nat, NEW data \in Seq(Byte),
           NEW result \in WriteRange(file, off, data)
    PROVE  /\ result.file \in Seq(Byte) \cup {Absent}
           /\ result.ok \in BOOLEAN
           /\ result.ok => result.file = Splice(file, off, data)
<1>1. ASSUME NEW n \in 0..Len(data) PROVE Splice(file, off, SubSeq(data, 1, n)) \in Seq(Byte)
  <2>1. SubSeq(data, 1, n) \in Seq(Byte)
    OBVIOUS
  <2> QED BY <2>1, Splices
<1>2. Splice(file, off, data) \in Seq(Byte)
  BY Splices
<1>3. CASE result = [file |-> Splice(file, off, data), ok |-> TRUE]
  BY <1>2, <1>3
<1>4. CASE result = [file |-> file, ok |-> FALSE]
  BY <1>4
<1>5. ASSUME NEW n \in 0..Len(data),
             result = [file |-> Splice(file, off, SubSeq(data, 1, n)), ok |-> FALSE]
      PROVE  result.file \in Seq(Byte) /\ result.ok = FALSE
  BY <1>1, <1>5
<1> QED BY <1>3, <1>4, <1>5 DEF WriteRange

\* A sequence without one of its elements.
LEMMA Removals ==
    ASSUME NEW T, NEW s \in Seq(T), NEW i \in 1..Len(s)
    PROVE  /\ RemoveAt(s, i) \in Seq(T) /\ Len(RemoveAt(s, i)) = Len(s) - 1
           /\ \A k \in 1..(Len(s) - 1) : RemoveAt(s, i)[k] = s[IF k < i THEN k ELSE k + 1]
<1> DEFINE a == SubSeq(s, 1, i - 1)
           b == SubSeq(s, i + 1, Len(s))
<1>0. Len(s) \in Nat /\ \A k \in 1..Len(s) : s[k] \in T
  OBVIOUS
<1>1. a \in Seq(T) /\ Len(a) = i - 1 /\ \A k \in 1..(i - 1) : a[k] = s[k]
  <2>1. i - 1 \in Int /\ \A k \in 1..(i - 1) : s[k] \in T
    BY <1>0
  <2>2. /\ a \in Seq(T) /\ Len(a) = IF 1 <= i - 1 THEN i - 1 - 1 + 1 ELSE 0
        /\ \A k \in 1..(i - 1 - 1 + 1) : a[k] = s[1 + k - 1]
    BY <2>1, SubSeqProperties
  <2> QED BY <1>0, <2>2
<1>2. /\ b \in Seq(T) /\ Len(b) = Len(s) - i
      /\ \A k \in 1..(Len(s) - i) : b[k] = s[k + i]
  <2>1. i + 1 \in Int /\ Len(s) \in Int /\ \A k \in (i + 1)..Len(s) : s[k] \in T
    BY <1>0
  <2>2. /\ b \in Seq(T) /\ Len(b) = IF i + 1 <= Len(s) THEN Len(s) - (i + 1) + 1 ELSE 0
        /\ \A k \in 1..(Len(s) - (i + 1) + 1) : b[k] = s[(i + 1) + k - 1]
    BY <2>1, SubSeqProperties
  <2> QED BY <1>0, <2>2
<1>4. RemoveAt(s, i) = a \o b
  BY DEF RemoveAt
<1> HIDE DEF a, b
<1>3. /\ a \o b \in Seq(T) /\ Len(a \o b) = Len(a) + Len(b)
      /\ \A k \in 1..(Len(a) + Len(b)) : (a \o b)[k] = IF k <= Len(a) THEN a[k] ELSE b[k - Len(a)]
  BY <1>1, <1>2, ConcatProperties
<1>5. ASSUME NEW k \in 1..(Len(s) - 1)
      PROVE  (a \o b)[k] = s[IF k < i THEN k ELSE k + 1]
  <2>1. Len(a) = i - 1 /\ Len(a) + Len(b) = Len(s) - 1
    BY <1>0, <1>1, <1>2
  <2>2. (a \o b)[k] = IF k <= i - 1 THEN a[k] ELSE b[k - (i - 1)]
    BY <1>3, <2>1
  <2>3. CASE k < i
    BY <1>0, <1>1, <2>2, <2>3
  <2>4. CASE ~(k < i)
    <3>1. k - (i - 1) \in 1..(Len(s) - i) /\ (k - (i - 1)) + i = k + 1
      BY <1>0, <2>4
    <3> QED BY <1>0, <1>2, <2>2, <2>4, <3>1
  <2> QED BY <2>3, <2>4
<1>6. Len(a \o b) = Len(s) - 1
  BY <1>0, <1>1, <1>2, <1>3
<1> QED BY <1>3, <1>4, <1>5, <1>6

-----------------------------------------------------------------------------
(* Types. *)

\* A step is one program's, or the listing expires.
LEMMA Acts ==
    ASSUME [Next]_vars
    PROVE  Expire \/ UNCHANGED vars \/ \E u \in Program : Step(u)
  BY DEF Next

\* A fault is counted within the bound, and flags the step only.
LEMMA Counted ==
    ASSUME CountType
    PROVE  /\ Confirmed => faults' \in 0..MaxFaults
           /\ Fails => faults' \in 0..MaxFaults
           /\ \A result : Outcome(result) => faults' \in 0..MaxFaults
           /\ \A seen : Look(seen) => faults' \in 0..MaxFaults
           /\ \A p \in Path : \A if \in BOOLEAN : Harm(p, if) => harmed' \subseteq Path
<1>1. Confirmed => faults' \in 0..MaxFaults
  BY SizesAssumption DEF CountType, Confirmed
<1>2. Fails => faults' \in 0..MaxFaults
  BY SizesAssumption DEF CountType, Fails
<1>3. \A p \in Path : \A if \in BOOLEAN : Harm(p, if) => harmed' \subseteq Path
  BY DEF CountType, Harm
<1> QED BY <1>1, <1>2, <1>3 DEF Outcome, Look

\* What a write with a buffer comes to: the first of its two flushes has nothing to send.
LEMMA Buffering ==
    ASSUME TypeOK, UnderWay, NEW u \in Program, WriteBuffered(u),
           NEW p, p = given[u].path, NEW off, off = given[u].off, NEW b, b = buffers[p],
           NEW d, d = Head(given[u].data), NEW w, w = Written(b, off, <<d>>)
    PROVE  /\ p \in Path /\ pc[u] = "write" /\ p \in DOMAIN buffers
           /\ off \in 0..(MaxLength - 1) /\ d \in 1..MaxWrites
           /\ b.off \in 0..MaxLength /\ b.data \in Seq(Byte)
           /\ \E last \in IF NeedsFlush(w) THEN Flushing(w, device[p])
                          ELSE {[file |-> device[p], ok |-> TRUE]} :
                /\ device' = [device EXCEPT ![p] = last.file]
                /\ Outcome(last)
                /\ Harm(p, Discards(b, off, <<d>>) \/ ~last.ok \/ OnItsWay(p))
           /\ buffers' = [buffers EXCEPT ![p] = IF NeedsFlush(w) THEN Flushed(w) ELSE w]
           /\ Acknowledge(p, off, d)
           /\ UNCHANGED <<listing, caches, handle, taken, fetched, calls, writes>>
<1>1. /\ pc[u] = "write" /\ p \in DOMAIN buffers
      /\ Acknowledge(p, off, d)
      /\ UNCHANGED <<listing, caches, handle, taken, fetched, calls, writes>>
  BY DEF WriteBuffered
<1>2. p \in Path /\ off \in 0..(MaxLength - 1)
  BY <1>1 DEF UnderWay
<1>3. d \in 1..MaxWrites /\ given[u].data = <<d>>
  BY <1>1 DEF UnderWay
<1>4. /\ b \in [off : 0..MaxLength, data : Seq(Byte), sequential : BOOLEAN]
      /\ b.data # <<>> => b.sequential /\ Len(b.data) < FlushSize
  BY <1>1 DEF TypeOK, BufferType
<1>5. NeedsFlush(b) => b.data = <<>> /\ Flushed(b) = b
  <2>1. NeedsFlush(b) => b.data = <<>>
    BY <1>4, SizesAssumption DEF NeedsFlush
  <2>2. b.data = <<>> => Flushed(b) = b
    BY <1>4 DEF Flushed
  <2> QED BY <2>1, <2>2
<1> DEFINE emptied == IF NeedsFlush(b) THEN Flushed(b) ELSE b
           First == IF NeedsFlush(b) THEN Flushing(b, device[p]) ELSE Flushing(NewBuffer, device[p])
           Same == [file |-> device[p], ok |-> TRUE]
<1>6. emptied = b
  BY <1>5
<1>7. First = {Same}
  BY <1>5 DEF Flushing, NewBuffer
<1>8. PICK first \in First :
        \E last \in IF NeedsFlush(w) THEN Flushing(w, first.file)
                    ELSE Flushing(NewBuffer, first.file) :
           /\ device' = [device EXCEPT ![p] = last.file]
           /\ Outcome([ok |-> first.ok /\ last.ok])
           /\ Harm(p, Discards(b, off, <<d>>) \/ ~first.ok \/ ~last.ok \/ OnItsWay(p))
  <2> DEFINE full == Written(emptied, off, given[u].data)
             lost == Discards(emptied, off, given[u].data)
  <2>1. \E first \in First :
           \E last \in IF NeedsFlush(full) THEN Flushing(full, first.file)
                       ELSE Flushing(NewBuffer, first.file) :
              /\ device' = [device EXCEPT ![p] = last.file]
              /\ Outcome([ok |-> first.ok /\ last.ok])
              /\ Harm(p, lost \/ ~first.ok \/ ~last.ok \/ OnItsWay(p))
    BY DEF WriteBuffered
  <2>2. full = w /\ lost = Discards(b, off, <<d>>)
    BY <1>3, <1>6
  <2> HIDE DEF full, lost, First
  <2> QED BY <2>1, <2>2
<1>9. first.file = device[p] /\ first.ok = TRUE
  BY <1>7
<1>10. PICK last \in IF NeedsFlush(w) THEN Flushing(w, device[p])
                      ELSE Flushing(NewBuffer, device[p]) :
           /\ device' = [device EXCEPT ![p] = last.file]
           /\ Outcome([ok |-> first.ok /\ last.ok])
           /\ Harm(p, Discards(b, off, <<d>>) \/ ~first.ok \/ ~last.ok \/ OnItsWay(p))
  BY <1>8, <1>9
<1>11. Flushing(NewBuffer, device[p]) = {Same}
  BY DEF Flushing, NewBuffer
<1>12. last \in IF NeedsFlush(w) THEN Flushing(w, device[p]) ELSE {Same}
  BY <1>10, <1>11
<1>13. Outcome(last)
  BY <1>9, <1>10 DEF Outcome
<1>14. Harm(p, Discards(b, off, <<d>>) \/ ~last.ok \/ OnItsWay(p))
  BY <1>9, <1>10 DEF Harm
<1>15. buffers' = [buffers EXCEPT ![p] = IF NeedsFlush(w) THEN Flushed(w) ELSE w]
  <2> DEFINE full == Written(emptied, off, given[u].data)
  <2>1. buffers' = [buffers EXCEPT ![p] = IF NeedsFlush(full) THEN Flushed(full) ELSE full]
    BY DEF WriteBuffered
  <2>2. full = w
    BY <1>3, <1>6
  <2> HIDE DEF full
  <2> QED BY <2>1, <2>2
<1>16. b.off \in 0..MaxLength /\ b.data \in Seq(Byte)
  BY <1>4
<1> QED BY <1>1, <1>2, <1>3, <1>10, <1>12, <1>13, <1>14, <1>15, <1>16

\* The blocks of a stretch lie between its bounds.
LEMMA CoverBounds ==
    ASSUME NEW b, b.off \in Nat, Len(b.data) \in Nat
    PROVE  \A i \in Nat : Covers(b, i) <=> b.off + 1 <= i /\ i <= b.off + Len(b.data)
<1> DEFINE lo == b.off
           len == Len(b.data)
<1>1. lo \in Nat /\ len \in Nat
  OBVIOUS
<1>2. \A i : Covers(b, i) <=> i \in (lo + 1)..(lo + len)
  BY DEF Covers
<1> HIDE DEF lo, len
<1>3. \A i \in Nat : i \in (lo + 1)..(lo + len) <=> lo + 1 <= i /\ i <= lo + len
  BY <1>1
<1> QED BY <1>2, <1>3 DEF lo, len

BufferRecord == [off : 0..MaxLength, data : Seq(Byte), sequential : BOOLEAN]

\* What one block makes of a buffer: it is added or overwritten, or takes the buffer's place.
LEMMA Writing1 ==
    ASSUME NEW b \in BufferRecord, NEW off \in 0..(MaxLength - 1), NEW d \in 1..MaxWrites,
           NEW w, w = Written(b, off, <<d>>)
    PROVE  /\ w \in BufferRecord /\ w.data # <<>>
           /\ ~Discards(b, off, <<d>>) =>
                /\ Covers(w, off + 1) /\ w.data[off + 1 - w.off] = d
                /\ \A i \in Nat : i # off + 1 =>
                      /\ Covers(w, i) <=> Covers(b, i)
                      /\ Covers(b, i) => w.data[i - w.off] = b.data[i - b.off]
<1> DEFINE one == <<d>>
<1>1. /\ off \in Nat /\ off \in 0..MaxLength /\ MaxLength \in Nat /\ d \in Byte
      /\ one \in Seq(Byte) /\ Len(one) = 1 /\ one[1] = d /\ one # <<>>
  BY SizesAssumption DEF Byte
<1>2. /\ b.off \in 0..MaxLength /\ b.off \in Nat /\ b.data \in Seq(Byte) /\ b.sequential \in BOOLEAN
      /\ Len(b.data) \in Nat /\ (b.data = <<>> <=> Len(b.data) = 0)
  BY <1>1 DEF BufferRecord
<1>6. \A i \in Nat : Covers(b, i) <=> b.off + 1 <= i /\ i <= b.off + Len(b.data)
  BY <1>2, CoverBounds
<1>7. w \in BufferRecord =>
        \A i \in Nat : Covers(w, i) <=> w.off + 1 <= i /\ i <= w.off + Len(w.data)
  <2>1. w \in BufferRecord => w.off \in Nat /\ Len(w.data) \in Nat
    BY <1>1 DEF BufferRecord
  <2> QED BY <2>1, CoverBounds
<1>3. CASE Continues(b, off)
  <2>1. /\ w = [b EXCEPT !.off = Start(b, off), !.data = b.data \o one]
        /\ off = Start(b, off) + Len(b.data)
    BY <1>3 DEF Written, Continues
  <2>2. Start(b, off) \in 0..MaxLength
    BY <1>1, <1>2 DEF Start
  <2>3. /\ b.data \o one \in Seq(Byte) /\ Len(b.data \o one) = Len(b.data) + 1
        /\ \A i \in 1..(Len(b.data) + 1) :
              (b.data \o one)[i] = IF i <= Len(b.data) THEN b.data[i] ELSE one[i - Len(b.data)]
    BY <1>1, <1>2, ConcatProperties
  <2> HIDE DEF one
  <2>4. /\ w.off = Start(b, off) /\ w.data = b.data \o one /\ w.sequential = b.sequential
        /\ w \in BufferRecord
    BY <2>1, <2>2, <2>3 DEF BufferRecord
  <2>5. w.data # <<>>
    BY <1>2, <2>3, <2>4
  <2> DEFINE lo == Start(b, off)
             n == Len(b.data)
  <2>6. lo \in Nat /\ n \in Nat /\ off \in Nat /\ off = lo + n
    BY <1>1, <1>2, <2>1, <2>2
  <2>7. w.off = lo /\ Len(w.data) = n + 1
    BY <1>1, <2>3, <2>4
  <2>8. b.data # <<>> => b.off = lo
    BY DEF Start
  <2>9. b.data = <<>> <=> n = 0
    BY <1>2
  <2>10. /\ \A k \in 1..n : w.data[k] = b.data[k]
         /\ w.data[n + 1] = d
    <3>1. \A k \in 1..n : k \in 1..(n + 1) /\ k <= n
      BY <2>6
    <3>2. n + 1 \in 1..(n + 1) /\ ~(n + 1 <= n) /\ n + 1 - n = 1
      BY <2>6
    <3>3. w.data[n + 1] = one[n + 1 - n]
      BY <2>3, <2>4, <3>2
    <3> QED BY <1>1, <2>3, <2>4, <3>1, <3>2, <3>3
  <2> HIDE DEF lo, n
  <2>11. \A i \in Nat : Covers(w, i) <=> lo + 1 <= i /\ i <= lo + (n + 1)
    BY <1>7, <2>4, <2>7
  <2>12. \A i \in Nat : Covers(b, i) <=> n # 0 /\ lo + 1 <= i /\ i <= lo + n
    <3>1. CASE n = 0
      <4>1. Len(b.data) = 0
        BY <3>1 DEF n
      <4> QED BY <1>2, <1>6, <3>1, <4>1
    <3>2. CASE n # 0
      <4>1. b.off = lo /\ Len(b.data) = n
        BY <2>8, <2>9, <3>2 DEF n
      <4> QED BY <1>6, <3>2, <4>1
    <3> QED BY <3>1, <3>2
  <2>13. Covers(w, off + 1)
    BY <2>6, <2>11
  <2>14. w.data[off + 1 - w.off] = d
    <3>1. off + 1 - w.off = n + 1
      BY <2>6, <2>7
    <3> QED BY <2>10, <3>1
  <2>15. ASSUME NEW i \in Nat, i # off + 1
         PROVE  /\ Covers(w, i) <=> Covers(b, i)
                /\ Covers(b, i) => w.data[i - w.off] = b.data[i - b.off]
    <3>1. Covers(w, i) <=> Covers(b, i)
      BY <2>6, <2>11, <2>12, <2>15
    <3>2. ASSUME Covers(b, i) PROVE w.data[i - w.off] = b.data[i - b.off]
      <4>1. n # 0 /\ lo + 1 <= i /\ i <= lo + n
        BY <2>12, <3>2
      <4>2. i - lo \in 1..n /\ b.off = lo
        BY <2>6, <2>8, <2>9, <4>1
      <4> QED BY <2>7, <2>10, <4>2
    <3> QED BY <3>1, <3>2
  <2> QED BY <2>4, <2>5, <2>13, <2>14, <2>15
<1>4. CASE ~Continues(b, off) /\ Inside(b, off, one)
  <2>1. b.data # <<>>
    BY <1>1, <1>2, <1>4 DEF Continues, Start
  <2>2. off >= b.off /\ off + 1 <= b.off + Len(b.data)
    BY <1>1, <1>4, <2>1 DEF Inside, Start
  <2> DEFINE sp == Splice(b.data, off - b.off, one)
  <2>3. w = [b EXCEPT !.data = sp]
    BY <1>4 DEF Written
  <2>4. off - b.off \in Nat
    BY <1>1, <1>2, <2>2
  <2>5. Content(b.data) = b.data /\ b.data \in Seq(Byte) \cup {Absent}
    BY <1>2, Contents, NamesAssumption
  <2> HIDE DEF one
  <2>6. /\ sp \in Seq(Byte)
        /\ DOMAIN sp = {i \in Nat : /\ i >= 1
                                   /\ \/ i <= (off - b.off) + Len(one)
                                      \/ i <= Len(Content(b.data))}
        /\ \A i \in DOMAIN sp :
             /\ i \in ((off - b.off) + 1)..((off - b.off) + Len(one)) =>
                  sp[i] = one[i - (off - b.off)]
             /\ (/\ i \notin ((off - b.off) + 1)..((off - b.off) + Len(one))
                 /\ i \in DOMAIN Content(b.data))
                  => sp[i] = Content(b.data)[i]
    BY <1>1, <2>4, <2>5, Splices
  <2> HIDE DEF sp
  <2>7. DOMAIN sp = 1..Len(b.data)
    <3>1. Len(one) = 1 /\ Len(b.data) \in Nat
      BY <1>1, <1>2 DEF one
    <3>2. \A i \in Nat : i <= (off - b.off) + Len(one) => i <= Len(b.data)
      <4>1. off \in Nat /\ b.off \in Nat
        BY <1>1, <1>2
      <4>2. (off - b.off) + 1 <= Len(b.data) /\ (off - b.off) + 1 \in Nat
        BY <2>2, <2>4, <3>1, <4>1
      <4>3. \A i \in Nat : i <= (off - b.off) + 1 => i <= Len(b.data)
        BY <2>4, <3>1, <4>1, <4>2
      <4> QED BY <3>1, <4>3
    <3>3. DOMAIN sp = {i \in Nat : i >= 1 /\ i <= Len(b.data)}
      BY <2>5, <2>6, <3>2
    <3> QED BY <3>1, <3>3
  <2>8. Len(sp) = Len(b.data)
    BY <1>2, <2>6, <2>7
  <2>9. /\ w.off = b.off /\ w.data = sp /\ w \in BufferRecord
    BY <1>2, <2>3, <2>6 DEF BufferRecord
  <2>10. w.data # <<>>
    BY <1>2, <2>1, <2>8, <2>9
  <2>11. \A i : Covers(w, i) <=> Covers(b, i)
    BY <2>8, <2>9 DEF Covers
  <2> DEFINE lo == b.off
             n == Len(b.data)
             at == off - lo
  <2>12. /\ lo \in Nat /\ n \in Nat /\ off \in Nat /\ at \in Nat /\ lo <= off /\ off + 1 <= lo + n
         /\ off = lo + at
    BY <1>1, <1>2, <2>2
  <2>13. /\ DOMAIN sp = 1..n
         /\ \A k \in 1..n : /\ k \in (at + 1)..(at + 1) => sp[k] = one[k - at]
                            /\ k \notin (at + 1)..(at + 1) => sp[k] = b.data[k]
    <3>1. DOMAIN b.data = 1..n /\ Len(one) = 1
      BY <1>1, <1>2
    <3> QED BY <2>5, <2>6, <2>7, <3>1
  <2>14. /\ \A i \in Nat : Covers(b, i) <=> lo + 1 <= i /\ i <= lo + n
         /\ w.data = sp /\ w.off = lo
    BY <1>6, <2>9
  <2> HIDE DEF lo, n, at
  <2>15. Covers(b, off + 1)
    BY <2>12, <2>14
  <2>16. w.data[off + 1 - w.off] = d
    <3> DEFINE k == at + 1
    <3>1. off + 1 - lo = k /\ k - at = 1 /\ k >= 1 /\ k <= n /\ k \in Nat
      BY <2>12
    <3>2. k \in (at + 1)..(at + 1)
      BY <2>12
    <3> HIDE DEF k
    <3>3. k \in 1..n
      BY <2>12, <3>1
    <3>4. sp[k] = one[k - at]
      BY <2>13, <3>2, <3>3
    <3> QED BY <1>1, <2>14, <3>1, <3>4
  <2>17. ASSUME NEW i \in Nat, i # off + 1, Covers(b, i)
         PROVE  w.data[i - w.off] = b.data[i - b.off]
    <3>1. lo + 1 <= i /\ i <= lo + n
      BY <2>14, <2>17
    <3>2. i - lo \in 1..n /\ i - lo \notin (at + 1)..(at + 1)
      BY <2>12, <2>17, <3>1
    <3> QED BY <2>13, <2>14, <3>2 DEF lo
  <2> QED BY <2>9, <2>10, <2>11, <2>15, <2>16, <2>17
<1>5. CASE ~Continues(b, off) /\ ~Inside(b, off, one)
  <2>1. b.data # <<>>
    BY <1>1, <1>2, <1>5 DEF Continues, Start
  <2>2. w = [off |-> off, data |-> one, sequential |-> FALSE]
    BY <1>5 DEF Written
  <2> HIDE DEF one
  <2>3. w \in BufferRecord /\ w.data # <<>>
    <3>1. one # <<>>
      BY <1>1
    <3>2. w.off = off /\ w.data = one /\ w.sequential = FALSE
      BY <2>2
    <3> QED BY <1>1, <2>2, <3>1, <3>2 DEF BufferRecord
  <2>4. Discards(b, off, one)
    BY <1>5, <2>1 DEF Discards
  <2> QED BY <2>3, <2>4 DEF one
<1> QED BY <1>3, <1>4, <1>5


\* Which actions change the files and the buffers, and what became of the acknowledged.
LEMMA DataFrame ==
    ASSUME NEW u \in Program, Step(u)
    PROVE  /\ \/ UNCHANGED <<device, acked>>
              \/ Create(u) \/ WriteBuffered(u) \/ WriteDirect(u) \/ Flush(u) \/ Delete(u)
              \/ \E q \in Path : Rename(u, q)
           /\ UNCHANGED buffers \/ Register(u) \/ Cleanup(u) \/ WriteBuffered(u)
           /\ UNCHANGED taken \/ Cleanup(u) \/ Flush(u)
           /\ \/ UNCHANGED harmed
              \/ Create(u) \/ Register(u) \/ WriteBuffered(u) \/ WriteDirect(u) \/ Flush(u)
              \/ \E q \in Path : Rename(u, q)
<1>1. CASE Writes(u)
  BY <1>1 DEF Writes, Write, WriteBuffered, NoBuffer, WriteDirect
<1>2. CASE ~Writes(u)
  BY <1>2 DEF Step, Opens, Open, Create, Created, Register, Reads, ReadHit, Fetch, Store,
       SetDelete, Cleanup, Flush, Closed, Delete, Deleted, Rename, Renamed, GetInformation, vars
<1> QED BY <1>1, <1>2

\* Which actions change the handles, the listing and the read-ahead.
LEMMA CallFrame ==
    ASSUME NEW u \in Program, Step(u)
    PROVE  /\ \/ UNCHANGED handle
              \/ Opens(u) \/ Create(u) \/ (\E seen \in Answers : SetDelete(u, seen))
              \/ Closed(u) \/ Deleted(u) \/ \E q \in Path : Rename(u, q)
           /\ UNCHANGED listing \/ listing' = {} \/ \E seen \in Answers : Look(seen)
           /\ UNCHANGED caches \/ Store(u) \/ \E off \in 0..(MaxLength - 1) : ReadHit(u, off)
           /\ UNCHANGED fetched \/ Store(u) \/ \E off \in 0..(MaxLength - 1) : Fetch(u, off)
<1>1. CASE Writes(u)
  BY <1>1 DEF Writes, Write, WriteBuffered, NoBuffer, WriteDirect
<1>2. CASE ~Writes(u)
  BY <1>2 DEF Step, Opens, Open, Create, Created, Register, Reads, ReadHit, Fetch, Store,
       SetDelete, Cleanup, Flush, Closed, Delete, Deleted, Rename, Renamed, GetInformation,
       Invalidate, vars
<1> QED BY <1>1, <1>2

\* Which actions change what a WriteFile was given.
LEMMA GivenFrame ==
    ASSUME NEW u \in Program, Step(u)
    PROVE  \/ UNCHANGED given
           \/ given' = [given EXCEPT ![u] = Nothing]
           \/ \E off \in 0..(MaxLength - 1) : Write(u, off)
<1>1. CASE Writes(u)
  BY <1>1 DEF Writes, WriteBuffered, NoBuffer, WriteDirect, Returns
<1>2. CASE ~Writes(u)
  BY <1>2 DEF Step, Opens, Open, Create, Created, Register, Reads, ReadHit, Fetch, Store,
       SetDelete, Cleanup, Flush, Closed, Delete, Deleted, Rename, Renamed, GetInformation
<1> QED BY <1>1, <1>2

\* A path that a step does not name keeps its file.
LEMMA DeviceStep ==
    ASSUME TypeOK, Calls, UnderWay, [Next]_vars
    PROVE  DeviceType'
<1>1. device \in [Path -> Seq(Byte) \cup {Absent}]
  BY DEF TypeOK, DeviceType
<1> SUFFICES ASSUME NEW u \in Program, Step(u) PROVE DeviceType'
  BY <1>1, Acts DEF Expire, vars, DeviceType
<1>2. <<>> \in Seq(Byte) \cup {Absent}
  OBVIOUS
<1>3. CASE UNCHANGED <<device, acked>>
  BY <1>1, <1>3 DEF DeviceType
<1>4. CASE Create(u)
  BY <1>1, <1>2, <1>4 DEF DeviceType, Create
<1>5. CASE Delete(u)
  BY <1>1, <1>5 DEF DeviceType, Delete
<1>6. CASE WriteDirect(u)
  <2> DEFINE p == given[u].path
  <2>2. p \in Path
    BY <1>6 DEF WriteDirect, UnderWay
  <2>3. given[u].off \in Nat /\ given[u].data \in Seq(Byte)
    BY SizesAssumption DEF TypeOK, ChunkType, Chunk
  <2>4. PICK result \in WriteRange(device[p], given[u].off, given[u].data) :
            device' = [device EXCEPT ![p] = result.file]
    BY <1>6 DEF WriteDirect
  <2>5. device[p] \in Seq(Byte) \cup {Absent}
    BY <1>1, <2>2
  <2>6. result.file \in Seq(Byte) \cup {Absent}
    BY <2>3, <2>4, <2>5, Ranges
  <2> QED BY <1>1, <2>4, <2>6 DEF DeviceType
<1>7. CASE WriteBuffered(u)
  <2> DEFINE p == given[u].path
             off == given[u].off
             b == buffers[p]
             d == Head(given[u].data)
             w == Written(b, off, <<d>>)
  <2>1. /\ p = given[u].path /\ off = given[u].off /\ b = buffers[p]
        /\ d = Head(given[u].data) /\ w = Written(b, off, <<d>>)
    OBVIOUS
  <2> HIDE DEF p, off, b, d, w
  <2>2. p \in Path /\ p \in DOMAIN buffers /\ off \in 0..(MaxLength - 1) /\ d \in 1..MaxWrites
    BY <1>7, <2>1, Buffering
  <2>3. b \in BufferRecord
    BY <2>2, <2>1 DEF TypeOK, BufferType, BufferRecord
  <2>4. w \in BufferRecord
    BY <2>2, <2>3, <2>1, Writing1
  <2>5. PICK last \in IF NeedsFlush(w) THEN Flushing(w, device[p])
                      ELSE {[file |-> device[p], ok |-> TRUE]} :
            device' = [device EXCEPT ![p] = last.file]
    BY <1>7, <2>1, Buffering
  <2>6. device[p] \in Seq(Byte) \cup {Absent}
    BY <1>1, <2>2
  <2>7. w.off \in Nat /\ w.data \in Seq(Byte)
    BY <2>4, SizesAssumption DEF BufferRecord
  <2>8. last \in WriteRange(device[p], w.off, w.data) => last.file \in Seq(Byte) \cup {Absent}
    BY <2>6, <2>7, Ranges
  <2>9. last.file \in Seq(Byte) \cup {Absent}
    BY <2>5, <2>6, <2>8 DEF Flushing
  <2> QED BY <1>1, <2>5, <2>9 DEF DeviceType
<1>8. CASE Flush(u)
  <2> DEFINE p == taken[u].path
  <2>1. p \in Path
    BY <1>8 DEF Calls, Flush
  <2>2. taken[u].off \in Nat /\ taken[u].data \in Seq(Byte)
    BY SizesAssumption DEF TypeOK, ChunkType, Chunk
  <2>3. PICK result \in WriteRange(device[p], taken[u].off, taken[u].data) :
            device' = [device EXCEPT ![p] = result.file]
    BY <1>8 DEF Flush
  <2>4. device[p] \in Seq(Byte) \cup {Absent}
    BY <1>1, <2>1
  <2>5. result.file \in Seq(Byte) \cup {Absent}
    BY <2>2, <2>3, <2>4, Ranges
  <2> QED BY <1>1, <2>3, <2>5 DEF DeviceType
<1>9. CASE \E q \in Path : Rename(u, q)
  <2>1. PICK q \in Path : Rename(u, q)
    BY <1>9
  <2>2. handle[u].path \in Path
    BY <2>1 DEF Rename, Calls
  <2> QED BY <1>1, <2>1, <2>2 DEF Rename, Moved, DeviceType
<1> QED BY <1>3, <1>4, <1>5, <1>6, <1>7, <1>8, <1>9, DataFrame

\* A buffer that stays in the map needs no flush.
LEMMA BufferStep ==
    ASSUME TypeOK, Calls, UnderWay, [Next]_vars
    PROVE  BufferType'
<1>0. BufferType
  BY DEF TypeOK
<1> SUFFICES ASSUME NEW u \in Program, Step(u) PROVE BufferType'
  BY <1>0, Acts DEF Expire, vars, BufferType
<1>1. CASE UNCHANGED buffers
  BY <1>0, <1>1 DEF BufferType
<1>2. CASE Register(u)
  <2> DEFINE p == handle[u].path
  <2>1. p \in Path /\ buffers' = With(buffers, p, NewBuffer)
    BY <1>2 DEF Register, Calls
  <2>2. NewBuffer \in [off : 0..MaxLength, data : Seq(Byte), sequential : BOOLEAN]
        /\ NewBuffer.data = <<>>
    BY SizesAssumption DEF NewBuffer
  <2> QED BY <1>0, <2>1, <2>2 DEF BufferType, With
<1>3. CASE Cleanup(u)
  BY <1>0, <1>3 DEF BufferType, Cleanup, Without
<1>4. CASE WriteBuffered(u)
  <2> DEFINE p == given[u].path
             off == given[u].off
             b == buffers[p]
             d == Head(given[u].data)
             w == Written(b, off, <<d>>)
  <2>1. /\ p = given[u].path /\ off = given[u].off /\ b = buffers[p]
        /\ d = Head(given[u].data) /\ w = Written(b, off, <<d>>)
    OBVIOUS
  <2> HIDE DEF p, off, b, d, w
  <2>2. /\ p \in Path /\ p \in DOMAIN buffers /\ off \in 0..(MaxLength - 1) /\ d \in 1..MaxWrites
        /\ buffers' = [buffers EXCEPT ![p] = IF NeedsFlush(w) THEN Flushed(w) ELSE w]
    BY <1>4, <2>1, Buffering
  <2>3. b \in BufferRecord
    BY <2>2, <2>1 DEF TypeOK, BufferType, BufferRecord
  <2>4. w \in BufferRecord
    BY <2>2, <2>3, <2>1, Writing1
  <2> DEFINE kept == IF NeedsFlush(w) THEN Flushed(w) ELSE w
  <2>5. Flushed(w) \in BufferRecord /\ Flushed(w).data = <<>>
    <3>1. Flushed(w) = [w EXCEPT !.data = <<>>] /\ <<>> \in Seq(Byte)
      BY DEF Flushed
    <3>2. /\ w.off \in 0..MaxLength /\ w.sequential \in BOOLEAN
          /\ w = [off |-> w.off, data |-> w.data, sequential |-> w.sequential]
      BY <2>4 DEF BufferRecord
    <3>3. Flushed(w) = [off |-> w.off, data |-> <<>>, sequential |-> w.sequential]
      BY <3>1, <3>2
    <3> QED BY <3>1, <3>2, <3>3 DEF BufferRecord
  <2>6. ~NeedsFlush(w) => w.sequential /\ Len(w.data) < FlushSize
    BY <2>4, SizesAssumption DEF NeedsFlush, BufferRecord
  <2>7. kept \in BufferRecord /\ (kept.data # <<>> => kept.sequential /\ Len(kept.data) < FlushSize)
    BY <2>4, <2>5, <2>6
  <2> QED BY <1>0, <2>2, <2>7 DEF BufferType, BufferRecord
<1> QED BY <1>1, <1>2, <1>3, <1>4, DataFrame

\* A listing is one that was answered.
LEMMA ListingStep ==
    ASSUME TypeOK, [Next]_vars
    PROVE  ListingType'
<1>0. ListingType
  BY DEF TypeOK
<1>1. ASSUME NEW seen \in Answers, listing' = {seen} PROVE ListingType'
  <2>1. CASE listing # {}
    BY <1>0, <1>1, <2>1 DEF ListingType, Answers
  <2>2. CASE listing = {}
    <3>1. {p \in Path : Exists(p)} \in SUBSET Path
      OBVIOUS
    <3> QED BY <1>1, <2>2, <3>1 DEF Answers, Listings, ListingType
  <2> QED BY <2>1, <2>2
<1>2. CASE UNCHANGED listing \/ listing' = {}
  BY <1>0, <1>2 DEF ListingType
<1>3. ASSUME NEW u \in Program, Step(u) PROVE ListingType'
  BY <1>1, <1>2, <1>3, CallFrame DEF Look
<1> QED BY <1>2, <1>3, Acts DEF Expire, vars

\* One chunk per path, and no more of them than MaxCaches.
LEMMA CacheStep ==
    ASSUME TypeOK, [Next]_vars
    PROVE  CacheType'
<1>0. /\ caches \in Seq(Chunk) /\ Len(caches) <= MaxCaches
      /\ \A i, j \in Slots : caches[i].path = caches[j].path => i = j
      /\ Len(caches) \in Nat /\ MaxCaches \in Nat \ {0}
      /\ DOMAIN caches = 1..Len(caches)
  BY SizesAssumption DEF TypeOK, CacheType
<1> SUFFICES ASSUME NEW u \in Program, Step(u) PROVE CacheType'
  BY <1>0, Acts DEF Expire, vars, CacheType, Slots
\* A sequence of chunks of different paths, and a chunk of another put behind it.
<1>1. ASSUME NEW s \in Seq(Chunk), Len(s) < MaxCaches, NEW c \in Chunk,
             \A i, j \in 1..Len(s) : s[i].path = s[j].path => i = j,
             \A i \in 1..Len(s) : s[i].path # c.path,
             caches' = Append(s, c)
      PROVE  CacheType'
  <2>1. /\ Len(s) \in Nat /\ caches' \in Seq(Chunk) /\ Len(caches') = Len(s) + 1
        /\ \A i \in 1..Len(s) : caches'[i] = s[i]
        /\ caches'[Len(s) + 1] = c
    BY <1>1
  <2>2. ASSUME NEW i \in 1..(Len(s) + 1), NEW j \in 1..(Len(s) + 1),
               caches'[i].path = caches'[j].path
        PROVE  i = j
    <3>1. i \in 1..Len(s) \/ i = Len(s) + 1
      BY <2>1
    <3>2. j \in 1..Len(s) \/ j = Len(s) + 1
      BY <2>1
    <3> QED BY <1>1, <2>1, <2>2, <3>1, <3>2
  <2>3. Len(caches') <= MaxCaches
    BY <1>0, <1>1, <2>1
  <2> QED BY <2>1, <2>2, <2>3 DEF CacheType, Slots
\* A chunk is moved behind the others, or one of its path takes its place.
<1>2. ASSUME NEW i \in Slots, NEW c \in Chunk, caches' = Append(RemoveAt(caches, i), c),
             c.path = caches[i].path \/ \A k \in Slots : caches[k].path # c.path
      PROVE  CacheType'
  <2> DEFINE s == RemoveAt(caches, i)
             at(k) == IF k < i THEN k ELSE k + 1
  <2>1. i \in 1..Len(caches) /\ i \in Nat
    BY <1>0 DEF Slots
  <2>2. /\ s \in Seq(Chunk) /\ Len(s) = Len(caches) - 1
        /\ \A k \in 1..(Len(caches) - 1) : s[k] = caches[at(k)]
    BY <1>0, <2>1, Removals
  <2>3. \A k \in 1..(Len(caches) - 1) : at(k) \in Slots /\ at(k) # i
    BY <1>0, <2>1 DEF Slots
  <2>4. \A k, l \in 1..(Len(caches) - 1) : at(k) = at(l) => k = l
    BY <1>0, <2>1
  <2>5. caches' = Append(s, c)
    BY <1>2
  <2>6. Len(s) < MaxCaches
    BY <1>0, <2>2
  <2> HIDE DEF s, at
  <2>7. \A k, l \in 1..Len(s) : s[k].path = s[l].path => k = l
    BY <1>0, <2>2, <2>3, <2>4
  <2>8. \A k \in 1..Len(s) : s[k].path # c.path
    BY <1>0, <1>2, <2>2, <2>3
  <2> QED BY <1>1, <2>2, <2>5, <2>6, <2>7, <2>8
<1>3. CASE \E off \in 0..(MaxLength - 1) : ReadHit(u, off)
  <2>1. PICK i \in Slots : caches' = Append(RemoveAt(caches, i), caches[i])
    BY <1>3 DEF ReadHit
  <2>2. caches[i] \in Chunk
    BY <1>0 DEF Slots
  <2> QED BY <1>2, <2>1, <2>2
<1>4. CASE Store(u)
  <2> DEFINE c == fetched[u]
             others == Others(c.path)
  <2>1. c \in Chunk
    BY DEF TypeOK, ChunkType
  <2>2. caches' = Append(IF Len(others) = Len(caches) /\ Len(caches) >= MaxCaches
                         THEN Tail(caches) ELSE others, c)
    BY <1>4 DEF Store
  <2>3. CASE Cached(c.path) # {}
    <3> DEFINE i == CHOOSE k \in Cached(c.path) : TRUE
    <3>1. i \in Cached(c.path)
      BY <2>3
    <3>2. i \in Slots /\ caches[i].path = c.path
      BY <3>1 DEF Cached
    <3>3. others = RemoveAt(caches, i)
      BY <2>3 DEF Others
    <3>4. i \in 1..Len(caches)
      BY <3>2 DEF Slots
    <3> HIDE DEF i, others
    <3>5. Len(others) = Len(caches) - 1
      BY <1>0, <3>3, <3>4, Removals
    <3>8. Len(caches) \in Nat
      BY <1>0
    <3>6. Len(others) # Len(caches)
      BY <3>5, <3>8
    <3>7. caches' = Append(RemoveAt(caches, i), c)
      BY <2>2, <3>3, <3>6
    <3> HIDE DEF c
    <3> QED BY <1>2, <2>1, <3>2, <3>7
  <2>4. CASE Cached(c.path) = {}
    <3>1. others = caches
      BY <2>4 DEF Others
    <3>2. \A i \in Slots : caches[i].path # c.path
      BY <2>4 DEF Cached
    <3>3. CASE Len(caches) < MaxCaches
      <4>1. caches' = Append(caches, c)
        BY <1>0, <2>2, <3>1, <3>3
      <4> HIDE DEF c
      <4> QED BY <1>0, <1>1, <2>1, <3>2, <3>3, <4>1 DEF Slots
    <3>4. CASE Len(caches) >= MaxCaches
      <4>1. 1 \in Slots /\ caches # <<>>
        BY <1>0, <3>4 DEF Slots
      <4>2. Tail(caches) = RemoveAt(caches, 1)
        <5>1. Len(caches) \in Nat \ {0} /\ caches \in Seq(Chunk) /\ 1 \in 1..Len(caches)
          BY <1>0, <3>4
        <5>2. /\ RemoveAt(caches, 1) \in Seq(Chunk)
              /\ Len(RemoveAt(caches, 1)) = Len(caches) - 1
              /\ \A k \in 1..(Len(caches) - 1) :
                    RemoveAt(caches, 1)[k] = caches[IF k < 1 THEN k ELSE k + 1]
          BY <5>1, Removals
        <5>3. /\ Tail(caches) \in Seq(Chunk) /\ Len(Tail(caches)) = Len(caches) - 1
              /\ \A k \in 1..(Len(caches) - 1) : Tail(caches)[k] = caches[k + 1]
          BY <5>1, <4>1
        <5>4. \A k \in 1..(Len(caches) - 1) : RemoveAt(caches, 1)[k] = Tail(caches)[k]
          BY <5>1, <5>2, <5>3
        <5> QED BY <5>2, <5>3, <5>4
      <4>3. caches' = Append(RemoveAt(caches, 1), c)
        BY <2>2, <3>1, <3>4, <4>2
      <4> HIDE DEF c
      <4> QED BY <1>2, <2>1, <3>2, <4>1, <4>3
    <3> QED BY <1>0, <3>3, <3>4
  <2> QED BY <2>3, <2>4
<1>5. CASE UNCHANGED caches
  BY <1>0, <1>5 DEF CacheType, Slots
<1> QED BY <1>3, <1>4, <1>5, CallFrame

\* Where the programs are, and what they have open.
LEMMA ProgramStep ==
    ASSUME TypeOK, Calls, [Next]_vars
    PROVE  ProgramType'
<1>0. ProgramType
  BY DEF TypeOK
<1> SUFFICES ASSUME NEW u \in Program, Step(u) PROVE ProgramType'
  BY <1>0, Acts DEF Expire, vars, ProgramType
<1>1. CASE Opens(u)
  BY <1>0, <1>1 DEF ProgramType, Opens, Open
<1>2. CASE Writes(u)
  <2>1. UNCHANGED handle /\ \E to \in {"write", "direct", "in"} : pc' = [pc EXCEPT ![u] = to]
    BY <1>2 DEF Writes, Write, WriteBuffered, NoBuffer, WriteDirect, Returns
  <2> QED BY <1>0, <2>1 DEF ProgramType
<1>10. CASE Reads(u) \/ Store(u) \/ GetInformation(u)
  BY <1>0, <1>10 DEF ProgramType, Reads, ReadHit, Fetch, Store, GetInformation
<1>3. CASE Create(u)
  <2>1. handle' = [handle EXCEPT ![u].new = FALSE] /\ pc' = [pc EXCEPT ![u] = "created"]
    BY <1>3 DEF Create
  <2> QED BY <1>0, <2>1 DEF ProgramType
<1>9. CASE Created(u) \/ Register(u)
  BY <1>0, <1>9 DEF ProgramType, Created, Register, Invalidate
<1>4. CASE \E seen \in Answers : SetDelete(u, seen)
  <2>1. handle' = [handle EXCEPT ![u].doomed = TRUE] /\ pc' = pc
    BY <1>4 DEF SetDelete
  <2> QED BY <1>0, <2>1 DEF ProgramType
<1>7. CASE Cleanup(u) \/ Flush(u)
  BY <1>0, <1>7 DEF ProgramType, Cleanup, Flush
<1>5. CASE Delete(u) \/ Renamed(u)
  BY <1>0, <1>5 DEF ProgramType, Delete, Renamed, Invalidate
<1>8. CASE Closed(u) \/ Deleted(u)
  <2>1. NoHandle \in [path : Path \cup {Absent}, write : BOOLEAN, new : BOOLEAN, doomed : BOOLEAN]
    BY DEF NoHandle
  <2>2. handle' = handle \/ handle' = [handle EXCEPT ![u] = NoHandle]
    BY <1>8 DEF Closed, Deleted
  <2>3. \E to \in {"delete", "out"} : pc' = [pc EXCEPT ![u] = to]
    BY <1>8 DEF Closed, Deleted, Invalidate
  <2> HIDE DEF NoHandle
  <2> QED BY <1>0, <2>1, <2>2, <2>3 DEF ProgramType
<1>6. CASE \E q \in Path : Rename(u, q)
  <2> DEFINE Record == [path : Path \cup {Absent}, write : BOOLEAN, new : BOOLEAN,
                        doomed : BOOLEAN]
  <2> PICK q \in Path : Rename(u, q)
    BY <1>6
  <2>1. pc' = pc \/ pc' = [pc EXCEPT ![u] = "renamed"]
    BY DEF Rename
  <2>2. \/ handle' = handle
        \/ handle' = [v \in Program |->
                        IF pc[v] \in Between /\ handle[v].path = handle[u].path
                        THEN [handle[v] EXCEPT !.path = q] ELSE handle[v]]
    BY DEF Rename
  <2>3. handle \in [Program -> Record]
    BY <1>0 DEF ProgramType
  <2>4. \A v \in Program : [handle[v] EXCEPT !.path = q] \in Record
    BY <2>3
  <2> HIDE DEF Record
  <2>5. handle' \in [Program -> Record]
    BY <2>2, <2>3, <2>4
  <2> QED BY <1>0, <2>1, <2>5 DEF ProgramType, Record
<1> QED BY <1>1, <1>2, <1>3, <1>4, <1>5, <1>6, <1>7, <1>8, <1>9, <1>10 DEF Step

\* What is taken out of a buffer and what is fetched are stretches of blocks.
LEMMA ChunkStep ==
    ASSUME TypeOK, Calls, UnderWay, [Next]_vars
    PROVE  ChunkType'
<1>0. ChunkType /\ Nothing \in Chunk
  <2>1. <<>> \in Seq(Byte) /\ 0 \in 0..MaxLength
    BY SizesAssumption
  <2> QED BY <2>1 DEF TypeOK, Nothing, Chunk
<1> SUFFICES ASSUME NEW u \in Program, Step(u) PROVE ChunkType'
  BY <1>0, Acts DEF Expire, vars, ChunkType
<1>1. taken' \in [Program -> Chunk]
  <2>1. CASE UNCHANGED taken \/ Flush(u)
    BY <1>0, <2>1 DEF ChunkType, Flush
  <2>2. CASE Cleanup(u)
    <3> DEFINE p == handle[u].path
    <3>1. p \in Path
      BY <2>2 DEF Cleanup, Calls
    <3>2. Buffered(p) => [path |-> p, off |-> buffers[p].off, data |-> buffers[p].data] \in Chunk
      BY <3>1 DEF Buffered, TypeOK, BufferType, Chunk
    <3> QED BY <1>0, <2>2, <3>2 DEF ChunkType, Cleanup
  <2> QED BY <2>1, <2>2, DataFrame
<1>2. fetched' \in [Program -> Chunk]
  <2>1. CASE UNCHANGED fetched \/ Store(u)
    BY <1>0, <2>1 DEF ChunkType, Store
  <2>2. CASE \E off \in 0..(MaxLength - 1) : Fetch(u, off)
    <3>1. PICK off \in 0..(MaxLength - 1) : Fetch(u, off)
      BY <2>2
    <3> DEFINE p == handle[u].path
               file == Content(device[p])
               to == IF off + ReadAhead < Len(file) THEN off + ReadAhead ELSE Len(file)
               have == SubSeq(file, off + 1, to)
    <3>2. p \in Path
      BY <3>1 DEF Fetch, Calls
    <3>3. file \in Seq(Byte)
      <4>1. device[p] \in Seq(Byte) \cup {Absent}
        BY <3>2 DEF TypeOK, DeviceType
      <4> QED BY <4>1, Contents
    <3>4. off \in Nat /\ off \in 0..MaxLength /\ ReadAhead \in Nat /\ Len(file) \in Nat
      BY <3>3, SizesAssumption
    <3>5. have \in Seq(Byte)
      <4>1. to \in Nat /\ to <= Len(file)
        BY <3>4
      <4> HIDE DEF file, to
      <4>2. \A k \in (off + 1)..to : file[k] \in Byte
        BY <3>3, <3>4, <4>1
      <4>3. off + 1 \in Int /\ to \in Int
        BY <3>4, <4>1
      <4> QED BY <4>2, <4>3, SubSeqProperties
    <3>6. PICK n \in 0..Len(have) :
              fetched' = [fetched EXCEPT ![u] =
                             [path |-> p, off |-> off, data |-> SubSeq(have, 1, n)]]
      BY <3>1 DEF Fetch
    <3> HIDE DEF have
    <3>7. SubSeq(have, 1, n) \in Seq(Byte)
      BY <3>5
    <3>8. [path |-> p, off |-> off, data |-> SubSeq(have, 1, n)] \in Chunk
      BY <3>2, <3>4, <3>7 DEF Chunk
    <3> HIDE DEF p
    <3> QED BY <1>0, <3>6, <3>8 DEF ChunkType
  <2> QED BY <2>1, <2>2, CallFrame
<1>3. given' \in [Program -> Chunk]
  <2>1. CASE UNCHANGED given
    BY <1>0, <2>1 DEF ChunkType
  <2>2. CASE given' = [given EXCEPT ![u] = Nothing]
    BY <1>0, <2>2 DEF ChunkType
  <2>3. ASSUME NEW off \in 0..(MaxLength - 1), Write(u, off)
        PROVE  given' \in [Program -> Chunk]
    <3> DEFINE c == [path |-> handle[u].path, off |-> off, data |-> <<writes'>>]
    <3>1. given' = [given EXCEPT ![u] = c]
      BY <2>3 DEF Write
    <3>2. handle[u].path \in Path /\ off \in 0..MaxLength
      BY <2>3, SizesAssumption DEF Write, Calls
    <3>3. writes' \in Byte
      BY <2>3, SizesAssumption DEF Write, TypeOK, CountType, Byte
    <3>4. c \in Chunk
      BY <3>2, <3>3 DEF Chunk
    <3> HIDE DEF c
    <3> QED BY <1>0, <3>1, <3>4 DEF ChunkType
  <2> QED BY <2>1, <2>2, <2>3, GivenFrame
<1> QED BY <1>1, <1>2, <1>3 DEF ChunkType

\* The counters stay within their bounds, and what harms is a path.
LEMMA CountStep ==
    ASSUME TypeOK, Calls, UnderWay, [Next]_vars
    PROVE  CountType' /\ harmed \subseteq harmed'
<1>0. CountType
  BY DEF TypeOK
<1> SUFFICES ASSUME NEW u \in Program, Step(u) PROVE CountType' /\ harmed \subseteq harmed'
  BY <1>0, Acts DEF Expire, vars, CountType
<1>1. calls' \in 0..MaxCalls
  <2>1. CASE Writes(u)
    <3>1. calls' = calls
      BY <2>1 DEF Writes, Write, WriteBuffered, NoBuffer, WriteDirect
    <3> QED BY <1>0, <3>1 DEF CountType
  <2>2. CASE ~Writes(u)
    <3>2. calls \in Nat /\ MaxCalls \in Nat
      BY <1>0, SizesAssumption DEF CountType
    <3>1. calls' = calls \/ (calls < MaxCalls /\ calls' = calls + 1)
      <4>1. CASE Opens(u) \/ Reads(u) \/ GetInformation(u)
        BY <3>2, <4>1 DEF Opens, Open, Reads, ReadHit, Fetch, GetInformation
      <4>2. CASE Create(u) \/ Created(u) \/ Register(u) \/ Store(u) \/ Cleanup(u) \/ Flush(u)
        BY <3>2, <4>2 DEF Create, Created, Register, Store, Cleanup, Flush
      <4>3. CASE \/ \E seen \in Answers : SetDelete(u, seen)
                 \/ Closed(u) \/ Delete(u) \/ Deleted(u) \/ (\E q \in Path : Rename(u, q))
                 \/ Renamed(u)
        BY <3>2, <4>3 DEF SetDelete, Closed, Delete, Deleted, Rename, Renamed
      <4> QED BY <2>2, <4>1, <4>2, <4>3 DEF Step
    <3> QED BY <1>0, <3>1, SizesAssumption DEF CountType
  <2> QED BY <2>1, <2>2
<1>2. writes' \in 0..MaxWrites
  <2>1. CASE Writes(u)
    <3>1. writes' = writes \/ (writes < MaxWrites /\ writes' = writes + 1)
      BY <2>1 DEF Writes, Write, WriteBuffered, NoBuffer, WriteDirect
    <3> QED BY <1>0, <3>1, SizesAssumption DEF CountType
  <2>2. CASE ~Writes(u)
    BY <1>0, <2>2 DEF CountType, Step, Opens, Open, Create, Created, Register,
         Reads, ReadHit, Fetch, Store, SetDelete, Cleanup, Flush, Closed, Delete, Deleted, Rename,
         Renamed, GetInformation
  <2> QED BY <2>1, <2>2
<1>3. faults' \in 0..MaxFaults
  <2>1. faults' \in 0..MaxFaults \/ UNCHANGED faults \/ Fails
    <3>1. CASE Writes(u)
      BY <3>1 DEF Writes, Write, WriteBuffered, NoBuffer, WriteDirect, Outcome, Confirmed
    <3>2. CASE Opens(u) \/ (\E seen \in Answers : SetDelete(u, seen)) \/ GetInformation(u)
      BY <3>2 DEF Opens, Open, SetDelete, GetInformation, Look, Confirmed
    <3>3. CASE Create(u) \/ Delete(u) \/ (\E q \in Path : Rename(u, q)) \/ Flush(u)
      BY <3>3 DEF Create, Delete, Rename, Flush, Outcome, Confirmed
    <3>4. CASE Reads(u)
      BY <3>4 DEF Reads, ReadHit, Fetch, Confirmed
    <3>5. CASE \/ Created(u) \/ Register(u) \/ Store(u) \/ Cleanup(u)
               \/ Closed(u) \/ Deleted(u) \/ Renamed(u)
      BY <3>5 DEF Created, Register, Store, Cleanup, Closed, Deleted, Renamed
    <3> QED BY <3>1, <3>2, <3>3, <3>4, <3>5 DEF Step
  <2> QED BY <1>0, <2>1, SizesAssumption DEF CountType, Fails
<1>4. harmed' \subseteq Path /\ harmed \subseteq harmed'
  <2>1. harmed \subseteq Path
    BY <1>0 DEF CountType
  <2>2. CASE UNCHANGED harmed
    BY <2>1, <2>2
  <2>3. ASSUME NEW p \in Path, NEW if, Harm(p, if)
        PROVE  harmed' \subseteq Path /\ harmed \subseteq harmed'
    BY <2>1, <2>3 DEF Harm
  <2>4. CASE Create(u) \/ Register(u)
    BY <2>3, <2>4 DEF Create, Register, Calls
  <2>5. CASE WriteBuffered(u) \/ WriteDirect(u)
    BY <2>3, <2>5 DEF WriteBuffered, WriteDirect, UnderWay
  <2>6. CASE Flush(u)
    BY <2>3, <2>6 DEF Flush, Calls
  <2>7. CASE \E q \in Path : Rename(u, q)
    BY <2>1, <2>7 DEF Rename, Calls
  <2> QED BY <2>2, <2>4, <2>5, <2>6, <2>7, DataFrame
<1> QED BY <1>1, <1>2, <1>3, <1>4 DEF CountType

\* Every step keeps the types.
LEMMA TypeStep ==
    ASSUME TypeOK, Calls, UnderWay, [Next]_vars
    PROVE  TypeOK'
  BY DeviceStep, BufferStep, ListingStep, CacheStep, ProgramStep, ChunkStep, CountStep DEF TypeOK

-----------------------------------------------------------------------------
(* Calls, and what is acknowledged. *)

\* Every step keeps what a program has open in line with where it is.
LEMMA CallStep ==
    ASSUME TypeOK, Calls, [Next]_vars
    PROVE  Calls'
<1>0. /\ DOMAIN pc = Program
      /\ handle \in [Program -> [path : Path \cup {Absent}, write : BOOLEAN,
                                 new : BOOLEAN, doomed : BOOLEAN]]
      /\ taken \in [Program -> Chunk]
  BY DEF TypeOK, ProgramType, ChunkType
<1> SUFFICES ASSUME NEW u \in Program, Step(u) PROVE Calls'
  BY Acts DEF Expire, vars, Calls
<1> SUFFICES ASSUME NEW v \in Program
             PROVE  /\ pc'[v] = "out" => handle'[v] = NoHandle
                    /\ pc'[v] # "out" => handle'[v].path \in Path
                    /\ pc'[v] \in {"create", "created", "register"} => handle'[v].write
                    /\ pc'[v] = "flush" => taken'[v].path \in Path /\ taken'[v].data # <<>>
                    /\ pc'[v] # "flush" => taken'[v] = Nothing
  BY DEF Calls
<1>c. /\ pc[v] = "out" => handle[v] = NoHandle
      /\ pc[v] # "out" => handle[v].path \in Path
      /\ pc[v] \in {"create", "created", "register"} => handle[v].write
      /\ pc[v] = "flush" => taken[v].path \in Path /\ taken[v].data # <<>>
      /\ pc[v] # "flush" => taken[v] = Nothing
  BY DEF Calls
<1> HIDE DEF NoHandle, Nothing
<1>1. CASE Opens(u)
  <2>1. PICK p \in Path, kind \in Kind, seen \in Answers : Open(u, p, kind, seen)
    BY <1>1 DEF Opens
  <2> DEFINE found == p \in seen.names
             refused == ~found /\ kind \notin {"create", "overwriteIf"}
             opened == [path |-> p, write |-> kind # "read",
                        new |-> kind = "create" /\ ~found, doomed |-> FALSE]
  <2>2. /\ pc[u] = "out" /\ UNCHANGED taken
        /\ refused => pc' = [pc EXCEPT ![u] = "out"] /\ handle' = handle
        /\ ~refused => /\ handle' = [handle EXCEPT ![u] = opened]
                       /\ \/ pc' = [pc EXCEPT ![u] = "in"]
                          \/ /\ kind # "read"
                             /\ \E to \in {"create", "register"} : pc' = [pc EXCEPT ![u] = to]
    BY <2>1 DEF Open
  <2>3. opened.path = p /\ (kind # "read" => opened.write)
    OBVIOUS
  <2> HIDE DEF refused, opened
  <2> QED BY <1>0, <1>c, <2>2, <2>3
<1>2. CASE Writes(u)
  <2>1. /\ UNCHANGED <<handle, taken>> /\ pc[u] \in {"in", "write", "direct"}
        /\ \E to \in {"write", "direct", "in"} : pc' = [pc EXCEPT ![u] = to]
    BY <1>2 DEF Writes, Write, WriteBuffered, NoBuffer, WriteDirect, Returns
  <2> QED BY <1>0, <1>c, <2>1
<1>11. CASE Reads(u) \/ Store(u) \/ GetInformation(u)
  BY <1>0, <1>c, <1>11 DEF Reads, ReadHit, Fetch, Store, GetInformation
<1>3. CASE Create(u)
  <2>1. /\ handle' = [handle EXCEPT ![u].new = FALSE] /\ pc' = [pc EXCEPT ![u] = "created"]
        /\ pc[u] = "create" /\ UNCHANGED taken
    BY <1>3 DEF Create
  <2> QED BY <1>0, <1>c, <2>1
<1>4. CASE Created(u) \/ Register(u) \/ Renamed(u)
  BY <1>0, <1>c, <1>4 DEF Created, Register, Renamed, Invalidate
<1>5. CASE \E seen \in Answers : SetDelete(u, seen)
  <2>1. handle' = [handle EXCEPT ![u].doomed = TRUE] /\ pc[u] = "in" /\ UNCHANGED <<pc, taken>>
    BY <1>5 DEF SetDelete
  <2> QED BY <1>0, <1>c, <2>1
<1>6. CASE Cleanup(u)
  <2> DEFINE p == handle[u].path
             out == [path |-> p, off |-> buffers[p].off, data |-> buffers[p].data]
  <2>1. /\ pc[u] = "in" /\ UNCHANGED handle
        /\ Buffered(p) => /\ taken' = [taken EXCEPT ![u] = out]
                          /\ pc' = [pc EXCEPT ![u] = "flush"]
        /\ ~Buffered(p) => taken' = taken /\ pc' = [pc EXCEPT ![u] = "closing"]
    BY <1>6 DEF Cleanup
  <2>2. p \in Path
    BY <2>1 DEF Calls
  <2>3. out.path = p /\ (Buffered(p) => out.data # <<>>)
    BY DEF Buffered
  <2> HIDE DEF out
  <2> QED BY <1>0, <1>c, <2>1, <2>2, <2>3
<1>7. CASE Flush(u)
  <2>1. /\ pc[u] = "flush" /\ UNCHANGED handle
        /\ taken' = [taken EXCEPT ![u] = Nothing] /\ pc' = [pc EXCEPT ![u] = "closing"]
    BY <1>7 DEF Flush
  <2> QED BY <1>0, <1>c, <2>1
<1>8. CASE Closed(u)
  <2>1. /\ pc[u] = "closing" /\ UNCHANGED taken
        /\ handle[u].doomed => pc' = [pc EXCEPT ![u] = "delete"] /\ handle' = handle
        /\ ~handle[u].doomed => /\ pc' = [pc EXCEPT ![u] = "out"]
                                /\ handle' = [handle EXCEPT ![u] = NoHandle]
    BY <1>8 DEF Closed, Invalidate
  <2> QED BY <1>0, <1>c, <2>1
<1>9. CASE Delete(u) \/ Deleted(u)
  BY <1>0, <1>c, <1>9 DEF Delete, Deleted, Invalidate
<1>10. CASE \E q \in Path : Rename(u, q)
  <2>1. PICK q \in Path : Rename(u, q)
    BY <1>10
  <2> DEFINE p == handle[u].path
             moves(x) == pc[x] \in Between /\ handle[x].path = p
  <2>2. /\ pc[u] = "in" /\ UNCHANGED taken
        /\ \/ UNCHANGED <<handle, pc>>
           \/ /\ handle' = [x \in Program |-> IF moves(x) THEN [handle[x] EXCEPT !.path = q]
                                              ELSE handle[x]]
              /\ pc' = [pc EXCEPT ![u] = "renamed"]
    BY <2>1 DEF Rename
  <2>3. CASE UNCHANGED <<handle, pc>>
    BY <1>c, <2>2, <2>3
  <2>4. CASE /\ handle' = [x \in Program |-> IF moves(x) THEN [handle[x] EXCEPT !.path = q]
                                             ELSE handle[x]]
             /\ pc' = [pc EXCEPT ![u] = "renamed"]
    <3>1. pc'[v] = IF v = u THEN "renamed" ELSE pc[v]
      BY <1>0, <2>4
    <3>2. handle'[v] = handle[v] \/ (pc[v] \in Between /\ handle'[v].path = q)
      BY <1>0, <2>4
    <3> QED BY <1>c, <2>2, <3>1, <3>2 DEF Between
  <2> QED BY <2>2, <2>3, <2>4
<1> QED BY <1>1, <1>2, <1>3, <1>4, <1>5, <1>6, <1>7, <1>8, <1>9, <1>10, <1>11 DEF Step

\* Every step keeps what a WriteFile was given in line with what its program has open.
LEMMA UnderWayStep ==
    ASSUME TypeOK, Calls, UnderWay, [Next]_vars
    PROVE  UnderWay'
<1>0. /\ DOMAIN pc = Program /\ DOMAIN given = Program /\ harmed \subseteq harmed'
      /\ handle \in [Program -> [path : Path \cup {Absent}, write : BOOLEAN,
                                 new : BOOLEAN, doomed : BOOLEAN]]
  BY CountStep DEF TypeOK, ProgramType, ChunkType
<1> SUFFICES ASSUME NEW u \in Program, Step(u) PROVE UnderWay'
  BY Acts DEF Expire, vars, UnderWay
<1> SUFFICES ASSUME NEW v \in Program, pc'[v] \in {"write", "direct"}
             PROVE  /\ handle'[v].write
                    /\ given'[v].path \in Path /\ given'[v].off \in 0..(MaxLength - 1)
                    /\ Head(given'[v].data) \in 1..MaxWrites
                    /\ given'[v].data = <<Head(given'[v].data)>>
                    /\ given'[v].path \notin harmed' => handle'[v].path = given'[v].path
  BY DEF UnderWay
\* The call goes on, and its handle keeps what it had open.
<1>1. ASSUME pc[v] \in {"write", "direct"}, given'[v] = given[v],
             handle'[v].write = handle[v].write,
             handle'[v].path = handle[v].path \/ given[v].path \in harmed'
      PROVE  /\ handle'[v].write
             /\ given'[v].path \in Path /\ given'[v].off \in 0..(MaxLength - 1)
             /\ Head(given'[v].data) \in 1..MaxWrites
             /\ given'[v].data = <<Head(given'[v].data)>>
             /\ given'[v].path \notin harmed' => handle'[v].path = given'[v].path
  BY <1>0, <1>1 DEF UnderWay
<1>2. CASE \E off \in 0..(MaxLength - 1) : Write(u, off)
  <2>1. PICK off \in 0..(MaxLength - 1) : Write(u, off)
    BY <1>2
  <2>2. /\ UNCHANGED handle /\ pc' = [pc EXCEPT ![u] = "write"]
        /\ given' = [given EXCEPT ![u] =
                        [path |-> handle[u].path, off |-> off, data |-> <<writes'>>]]
        /\ pc[u] = "in" /\ handle[u].write
    BY <2>1 DEF Write
  <2>3. CASE v = u
    <3>1. handle[u].path \in Path
      BY <2>2 DEF Calls
    <3>2. writes' \in 1..MaxWrites
      BY <2>1, SizesAssumption DEF Write, TypeOK, CountType
    <3> QED BY <1>0, <2>2, <2>3, <3>1, <3>2
  <2>4. CASE v # u
    BY <1>0, <1>1, <2>2, <2>4
  <2> QED BY <2>3, <2>4
<1>3. CASE WriteBuffered(u) \/ WriteDirect(u)
  <2>1. /\ UNCHANGED handle /\ pc' = [pc EXCEPT ![u] = "in"]
        /\ given' = [given EXCEPT ![u] = Nothing]
    BY <1>3 DEF WriteBuffered, WriteDirect, Returns
  <2>2. v # u
    BY <1>0, <2>1
  <2> QED BY <1>0, <1>1, <2>1, <2>2
<1>4. CASE NoBuffer(u)
  BY <1>0, <1>1, <1>4 DEF NoBuffer
<1>5. CASE Opens(u)
  BY <1>0, <1>1, <1>5 DEF Opens, Open
<1>6. CASE Create(u)
  <2>1. /\ pc' = [pc EXCEPT ![u] = "created"] /\ UNCHANGED given
        /\ handle' = [handle EXCEPT ![u].new = FALSE]
    BY <1>6 DEF Create
  <2>2. v # u
    BY <1>0, <2>1
  <2> QED BY <1>0, <1>1, <2>1, <2>2
<1>7. CASE Created(u) \/ Register(u) \/ Renamed(u)
  BY <1>0, <1>1, <1>7 DEF Created, Register, Renamed, Invalidate
<1>8. CASE Reads(u) \/ Store(u) \/ GetInformation(u)
  BY <1>0, <1>1, <1>8 DEF Reads, ReadHit, Fetch, Store, GetInformation
<1>9. CASE \E seen \in Answers : SetDelete(u, seen)
  <2>1. /\ handle' = [handle EXCEPT ![u].doomed = TRUE] /\ UNCHANGED <<pc, given>>
    BY <1>9 DEF SetDelete
  <2>2. handle'[v].path = handle[v].path /\ handle'[v].write = handle[v].write
    BY <1>0, <2>1
  <2> QED BY <1>1, <2>1, <2>2
<1>10. CASE Cleanup(u)
  BY <1>0, <1>1, <1>10 DEF Cleanup
<1>11. CASE Flush(u) \/ Delete(u)
  BY <1>0, <1>1, <1>11 DEF Flush, Delete
<1>12. CASE Closed(u) \/ Deleted(u)
  <2>1. /\ UNCHANGED given /\ \E to \in {"delete", "out"} : pc' = [pc EXCEPT ![u] = to]
        /\ UNCHANGED handle \/ handle' = [handle EXCEPT ![u] = NoHandle]
    BY <1>12 DEF Closed, Deleted, Invalidate
  <2>2. v # u
    BY <1>0, <2>1
  <2> QED BY <1>0, <1>1, <2>1, <2>2
<1>13. CASE \E q \in Path : Rename(u, q)
  <2>1. PICK q \in Path : Rename(u, q)
    BY <1>13
  <2> DEFINE p == handle[u].path
  <2>2. /\ UNCHANGED given
        /\ \/ /\ handle' = [x \in Program |-> IF pc[x] \in Between /\ handle[x].path = p
                                              THEN [handle[x] EXCEPT !.path = q] ELSE handle[x]]
              /\ pc' = [pc EXCEPT ![u] = "renamed"]
              /\ harmed' = IF \E x \in {p, q} :
                                  Buffered(x) \/ OnItsWay(x) \/ Called(x) \/ x \in harmed
                           THEN harmed \cup {p, q} ELSE harmed
           \/ UNCHANGED <<handle, pc>>
    BY <2>1 DEF Rename
  <2>3. pc[v] \in {"write", "direct"}
    BY <1>0, <2>2
  <2>4. handle'[v].write = handle[v].write
    BY <1>0, <2>2
  <2>5. handle'[v].path = handle[v].path \/ given[v].path \in harmed'
    <3>1. CASE handle[v].path = p /\ given[v].path = p
      <4>1. Called(p)
        BY <3>1 DEF Called
      <4> QED BY <1>0, <2>2, <3>1, <4>1
    <3>2. CASE handle[v].path = p /\ given[v].path # p
      <4>1. given[v].path \in harmed
        BY <2>3, <3>2 DEF UnderWay
      <4> QED BY <1>0, <4>1
    <3>3. CASE handle[v].path # p
      BY <1>0, <2>2, <3>3
    <3> QED BY <3>1, <3>2, <3>3
  <2> QED BY <1>1, <2>2, <2>3, <2>4, <2>5
<1> QED BY <1>2, <1>3, <1>4, <1>5, <1>6, <1>7, <1>8, <1>9, <1>10, <1>11, <1>12, <1>13
        DEF Step, Writes

\* What is acknowledged are blocks that exist.
LEMMA AckStep ==
    ASSUME TypeOK, Calls, UnderWay, Acks, [Next]_vars
    PROVE  Acks'
<1>0. DOMAIN acked = Path /\ \A p \in Path : DOMAIN acked[p] \subseteq 1..MaxLength
  BY DEF Acks
<1> SUFFICES ASSUME NEW u \in Program, Step(u) PROVE Acks'
  BY Acts DEF Expire, vars, Acks
<1>1. CASE UNCHANGED acked
  BY <1>0, <1>1 DEF Acks
<1>2. ASSUME NEW p \in Path, acked' = [acked EXCEPT ![p] = <<>>] PROVE Acks'
  <2>1. DOMAIN <<>> = {}
    OBVIOUS
  <2> QED BY <1>0, <1>2, <2>1 DEF Acks
<1>3. ASSUME NEW p \in Path, NEW off \in 0..(MaxLength - 1), NEW d, Acknowledge(p, off, d)
      PROVE  Acks'
  <2>1. acked' = [acked EXCEPT ![p] = With(acked[p], off + 1, d)]
    BY <1>3 DEF Acknowledge
  <2>2. off + 1 \in 1..MaxLength
    BY SizesAssumption
  <2>3. DOMAIN With(acked[p], off + 1, d) = DOMAIN acked[p] \cup {off + 1}
    BY DEF With
  <2> QED BY <1>0, <2>1, <2>2, <2>3 DEF Acks
<1>4. CASE Create(u) \/ Delete(u)
  <2>1. handle[u].path \in Path
    BY <1>4 DEF Create, Delete, Calls
  <2> QED BY <1>1, <1>2, <1>4, <2>1 DEF Create, Delete
<1>5. CASE WriteBuffered(u) \/ WriteDirect(u)
  <2>2. given[u].path \in Path /\ given[u].off \in 0..(MaxLength - 1)
    BY <1>5 DEF WriteBuffered, WriteDirect, UnderWay
  <2>3. \/ UNCHANGED acked
        \/ Acknowledge(given[u].path, given[u].off, Head(given[u].data))
    BY <1>5 DEF WriteBuffered, WriteDirect
  <2> QED BY <1>1, <1>3, <2>2, <2>3
<1>6. CASE \E q \in Path : Rename(u, q)
  <2>1. PICK q \in Path : Rename(u, q)
    BY <1>6
  <2> DEFINE p == handle[u].path
  <2>2. p \in Path /\ acked' = [acked EXCEPT ![p] = <<>>, ![q] = acked[p]]
    BY <2>1 DEF Rename, Calls
  <2>3. DOMAIN <<>> = {}
    OBVIOUS
  <2> HIDE DEF p
  <2> QED BY <1>0, <2>2, <2>3 DEF Acks
<1>7. CASE Flush(u)
  BY <1>1, <1>7 DEF Flush
<1> QED BY <1>1, <1>4, <1>5, <1>6, <1>7, DataFrame

-----------------------------------------------------------------------------
(* Who sends a path's data, and who still will. *)

\* A step that would harm a path leaves it among the harmed.
LEMMA Unharmed ==
    ASSUME NEW p, NEW q, NEW if, Harm(q, if), p \notin harmed'
    PROVE  p \notin harmed /\ (p = q => ~if)
  BY DEF Harm

\* Nobody has taken a buffer of a path of which nothing is on its way.
LEMMA NoSenders ==
    ASSUME Calls, NEW p \in Path, ~OnItsWay(p)
    PROVE  \A v \in Program : taken[v].path # p
  BY NamesAssumption DEF Calls, OnItsWay, Nothing

\* Every step keeps the data of a path in one place before the device.
LEMMA SenderStep ==
    ASSUME TypeOK, Calls, UnderWay, OneSender, [Next]_vars
    PROVE  OneSender'
<1> SUFFICES ASSUME NEW u \in Program, Step(u) PROVE OneSender'
  BY Acts DEF Expire, vars, OneSender, OnItsWay, Buffered
<1> SUFFICES ASSUME NEW p \in Path, p \notin harmed'
             PROVE  /\ \A v, x \in Program : taken'[v].path = p /\ taken'[x].path = p => v = x
                    /\ OnItsWay(p)' => ~Buffered(p)'
  BY DEF OneSender
<1>c. /\ p \notin harmed
      /\ \A v, x \in Program : taken[v].path = p /\ taken[x].path = p => v = x
      /\ OnItsWay(p) => ~Buffered(p)
  BY CountStep DEF OneSender
<1>t. DOMAIN taken = Program
  BY DEF TypeOK, ChunkType
<1>1. ASSUME UNCHANGED taken, Buffered(p)' => Buffered(p)
      PROVE  /\ \A v, x \in Program : taken'[v].path = p /\ taken'[x].path = p => v = x
             /\ OnItsWay(p)' => ~Buffered(p)'
  <2>1. OnItsWay(p)' => OnItsWay(p)
    BY <1>1 DEF OnItsWay
  <2> QED BY <1>1, <1>c, <2>1
<1>2. CASE UNCHANGED <<buffers, taken>>
  BY <1>1, <1>2 DEF Buffered
<1>3. CASE Register(u)
  <2>1. UNCHANGED taken /\ buffers' = With(buffers, handle[u].path, NewBuffer)
    BY <1>3 DEF Register
  <2>2. Buffered(p)' => Buffered(p)
    BY <2>1 DEF Buffered, With, NewBuffer
  <2> QED BY <1>1, <2>1, <2>2
<1>4. CASE WriteBuffered(u)
  <2>2. /\ UNCHANGED taken
        /\ \E b : buffers' = [buffers EXCEPT ![given[u].path] = b]
        /\ \E if : Harm(given[u].path, if \/ OnItsWay(given[u].path))
    BY <1>4 DEF WriteBuffered
  <2>3. CASE p = given[u].path
    <3>1. ~OnItsWay(p)
      BY <2>2, <2>3, Unharmed
    <3>2. ~OnItsWay(p)'
      BY <2>2, <3>1 DEF OnItsWay
    <3> QED BY <1>c, <2>2, <3>2
  <2>4. CASE p # given[u].path
    <3>1. Buffered(p)' => Buffered(p)
      BY <2>2, <2>4 DEF Buffered
    <3> QED BY <1>1, <2>2, <3>1
  <2> QED BY <2>3, <2>4
<1>5. CASE Cleanup(u)
  <2> DEFINE q == handle[u].path
             out == [path |-> q, off |-> buffers[q].off, data |-> buffers[q].data]
  <2>1. /\ buffers' = Without(buffers, q)
        /\ Buffered(q) => taken' = [taken EXCEPT ![u] = out]
        /\ ~Buffered(q) => taken' = taken
    BY <1>5 DEF Cleanup
  <2>2. out.path = q
    OBVIOUS
  <2>3. Buffered(p)' => Buffered(p) /\ p # q
    BY <2>1 DEF Buffered, Without
  <2>4. CASE ~Buffered(q)
    BY <1>1, <2>1, <2>3, <2>4
  <2>5. CASE Buffered(q)
    <3>1. \A v \in Program : taken'[v] = IF v = u THEN out ELSE taken[v]
      BY <1>t, <2>1, <2>5
    <3>2. CASE p = q
      <4>1. \A v \in Program : taken[v].path # p
        BY <1>c, <2>5, <3>2, NoSenders
      <4>2. ~Buffered(p)'
        BY <2>3, <3>2
      <4> HIDE DEF out
      <4> QED BY <3>1, <4>1, <4>2
    <3>3. CASE p # q
      <4> HIDE DEF out
      <4>1. \A v \in Program : taken'[v].path = p => v # u /\ taken'[v] = taken[v]
        BY <2>2, <3>1, <3>3
      <4>2. OnItsWay(p)' => OnItsWay(p)
        BY <4>1 DEF OnItsWay
      <4> QED BY <1>c, <2>3, <4>1, <4>2
    <3> QED BY <3>2, <3>3
  <2> QED BY <2>4, <2>5
<1>6. CASE Flush(u)
  <2>1. /\ taken' = [taken EXCEPT ![u] = Nothing] /\ UNCHANGED buffers
    BY <1>6 DEF Flush
  <2>2. Nothing.path # p
    BY NamesAssumption DEF Nothing
  <2> HIDE DEF Nothing
  <2>3. \A v \in Program : taken'[v].path = p => taken'[v] = taken[v]
    BY <1>t, <2>1, <2>2
  <2>4. OnItsWay(p)' => OnItsWay(p)
    BY <2>3 DEF OnItsWay
  <2>5. Buffered(p)' => Buffered(p)
    BY <2>1 DEF Buffered
  <2> QED BY <1>c, <2>3, <2>4, <2>5
<1> QED BY <1>2, <1>3, <1>4, <1>5, <1>6, DataFrame

\* Every step keeps somebody who will close a file with buffered data.
LEMMA KeptStep ==
    ASSUME TypeOK, Calls, UnderWay, Kept, [Next]_vars
    PROVE  Kept'
<1> SUFFICES ASSUME NEW u \in Program, Step(u) PROVE Kept'
  BY Acts DEF Expire, vars, Kept, Buffered
<1> SUFFICES ASSUME NEW p \in Path, p \notin harmed', Buffered(p)'
             PROVE  \E v \in Program : handle'[v].path = p /\ pc'[v] \in Between
  BY DEF Kept
<1>0. DOMAIN pc = Program /\ DOMAIN handle = Program /\ p \notin harmed
  BY CountStep DEF TypeOK, ProgramType
<1>1. ASSUME WriteBuffered(u), p = given[u].path
      PROVE  \E v \in Program : handle'[v].path = p /\ pc'[v] \in Between
  <2>1. handle[u].path = p
    BY <1>0, <1>1 DEF WriteBuffered, UnderWay
  <2>2. UNCHANGED handle /\ pc' = [pc EXCEPT ![u] = "in"]
    BY <1>1 DEF WriteBuffered, Returns
  <2> QED BY <1>0, <2>1, <2>2 DEF Between
<1>2. CASE Buffered(p) /\ ~Cleanup(u)
  <2>1. PICK v \in Program : handle[v].path = p /\ pc[v] \in Between
    BY <1>0, <1>2 DEF Kept
  <2>2. handle'[v].path = p /\ pc'[v] \in Between
    <3>1. CASE Opens(u)
      BY <1>0, <2>1, <3>1 DEF Opens, Open, Between
    <3>2. CASE Writes(u)
      <4>1. UNCHANGED handle /\ \E to \in Between : pc' = [pc EXCEPT ![u] = to]
        BY <3>2 DEF Writes, Write, WriteBuffered, NoBuffer, WriteDirect, Returns, Between
      <4> QED BY <1>0, <2>1, <4>1
    <3>3. CASE Reads(u) \/ Store(u) \/ GetInformation(u)
      BY <1>0, <2>1, <3>3 DEF Reads, ReadHit, Fetch, Store, GetInformation, Between
    <3>4. CASE Create(u)
      BY <1>0, <2>1, <3>4 DEF Create, Between
    <3>5. CASE Created(u) \/ Register(u) \/ Renamed(u)
      BY <1>0, <2>1, <3>5 DEF Created, Register, Renamed, Invalidate, Between
    <3>6. CASE \E seen \in Answers : SetDelete(u, seen)
      BY <1>0, <2>1, <3>6 DEF SetDelete, Between
    <3>7. CASE Flush(u) \/ Delete(u)
      BY <1>0, <2>1, <3>7 DEF Flush, Delete, Between
    <3>8. CASE Closed(u) \/ Deleted(u)
      BY <1>0, <2>1, <3>8 DEF Closed, Deleted, Invalidate, Between
    <3>9. CASE \E q \in Path : Rename(u, q)
      <4>1. PICK q \in Path : Rename(u, q)
        BY <3>9
      <4>2. p # handle[u].path
        BY <1>2, <4>1 DEF Rename
      <4> QED BY <1>0, <2>1, <4>1, <4>2 DEF Rename, Between
    <3> QED BY <1>2, <3>1, <3>2, <3>3, <3>4, <3>5, <3>6, <3>7, <3>8, <3>9 DEF Step
  <2> QED BY <2>2
<1>3. CASE Cleanup(u)
  <2>1. buffers' = Without(buffers, handle[u].path)
    BY <1>3 DEF Cleanup
  <2>2. Buffered(p) /\ p # handle[u].path
    BY <2>1 DEF Buffered, Without
  <2>3. PICK v \in Program : handle[v].path = p /\ pc[v] \in Between
    BY <1>0, <2>2 DEF Kept
  <2>4. v # u
    BY <2>2, <2>3
  <2> QED BY <1>0, <1>3, <2>3, <2>4 DEF Cleanup, Between
<1>4. CASE UNCHANGED buffers
  BY <1>2, <1>3, <1>4 DEF Buffered
<1>5. CASE Register(u)
  <2>1. buffers' = With(buffers, handle[u].path, NewBuffer)
    BY <1>5 DEF Register
  <2>2. Buffered(p)
    BY <2>1 DEF Buffered, With, NewBuffer
  <2> QED BY <1>2, <1>3, <2>2
<1>6. CASE WriteBuffered(u)
  <2>2. \E b : buffers' = [buffers EXCEPT ![given[u].path] = b]
    BY <1>6 DEF WriteBuffered
  <2>3. p = given[u].path \/ Buffered(p)
    BY <2>2 DEF Buffered
  <2> QED BY <1>1, <1>2, <1>3, <1>6, <2>3
<1> QED BY <1>3, <1>4, <1>5, <1>6, DataFrame

-----------------------------------------------------------------------------
(* The listing. *)

\* Every step keeps a cached listing true of the files nobody has open for writing.
LEMMA ListedStep ==
    ASSUME TypeOK, Calls, UnderWay, ListingCurrent, [Next]_vars
    PROVE  ListingCurrent'
<1>0. /\ DOMAIN pc = Program /\ DOMAIN handle = Program /\ DOMAIN device = Path
      /\ Absent \notin Path /\ harmed \subseteq harmed'
  BY CountStep, NamesAssumption DEF TypeOK, ProgramType, DeviceType
\* A listing that is true now is true of files that are the same.
<1>1. ASSUME NEW seen, seen \in listing \/ (listing = {} /\ seen \in Answers), ~seen.failed,
             \A v \in Program : ~Window(v)', \A v \in Program : Window(v) => Window(v)',
             NEW p \in Path, p \notin harmed', ~Writing(p)', Writing(p) => Writing(p)',
             device'[p] = device[p]
      PROVE  p \in seen.names <=> Exists(p)'
  <2>1. CASE seen \in listing
    <3>1. p \in seen.names <=> Exists(p)
      BY <1>0, <1>1, <2>1 DEF ListingCurrent
    <3> QED BY <1>1, <3>1 DEF Exists
  <2>2. CASE listing = {} /\ seen \in Answers
    <3>1. seen.names = {x \in Path : Exists(x)}
      BY <1>1, <2>2 DEF Answers
    <3> QED BY <1>1, <3>1 DEF Exists
  <2> QED BY <1>1, <2>1, <2>2
<1>2. CASE Expire \/ UNCHANGED vars
  <2>1. CASE Expire
    BY <2>1 DEF Expire, ListingCurrent
  <2>2. CASE UNCHANGED vars
    BY <2>2 DEF vars, ListingCurrent, Window, Writing, Exists
  <2> QED BY <1>2, <2>1, <2>2
<1> SUFFICES ASSUME NEW u \in Program, Step(u) PROVE ListingCurrent'
  BY <1>2, Acts
<1> SUFFICES ASSUME NEW seen \in listing', ~seen.failed, \A v \in Program : ~Window(v)',
                    NEW p \in Path, p \notin harmed', ~Writing(p)'
             PROVE  p \in seen.names <=> Exists(p)'
  BY DEF ListingCurrent
<1>3. listing' # {} /\ pc'[u] \notin {"created", "closing", "deleted", "renamed"}
  BY DEF Window
<1>4. seen \in listing \/ (listing = {} /\ seen \in Answers)
  <2>1. CASE UNCHANGED listing
    BY <2>1
  <2>2. ASSUME NEW x \in Answers, Look(x)
        PROVE  seen \in listing \/ (listing = {} /\ seen \in Answers)
    BY <2>2 DEF Look, Answers
  <2> QED BY <1>3, <2>1, <2>2, CallFrame
<1>5. ASSUME device'[p] = device[p], \A v \in Program : Window(v) => Window(v)',
             Writing(p) => Writing(p)'
      PROVE  p \in seen.names <=> Exists(p)'
  BY <1>1, <1>4, <1>5
<1>6. CASE Opens(u)
  <2>1. /\ pc[u] = "out" /\ UNCHANGED device
        /\ \A v \in Program : v # u => pc'[v] = pc[v] /\ handle'[v] = handle[v]
    BY <1>0, <1>6 DEF Opens, Open
  <2>2. handle[u].path # p
    BY <1>0, <2>1 DEF Calls, NoHandle
  <2>3. \A v \in Program : Window(v) => Window(v)'
    BY <2>1 DEF Window
  <2>4. Writing(p) => Writing(p)'
    BY <2>1, <2>2 DEF Writing
  <2> QED BY <1>5, <2>1, <2>3, <2>4
<1>7. CASE Writes(u)
  <2>1. /\ UNCHANGED handle /\ pc[u] \in {"in", "write", "direct"}
        /\ \A v \in Program : v # u => pc'[v] = pc[v]
        /\ \/ UNCHANGED device
           \/ /\ pc[u] \in {"write", "direct"}
              /\ \E file : device' = [device EXCEPT ![given[u].path] = file]
    BY <1>0, <1>7 DEF Writes, Write, WriteBuffered, NoBuffer, WriteDirect, Returns
  <2>2. device'[p] = device[p]
    <3>1. CASE UNCHANGED device
      BY <3>1
    <3>2. CASE pc[u] \in {"write", "direct"}
      <4>1. given[u].path # p
        BY <1>0, <2>1, <3>2 DEF Writing, UnderWay
      <4> QED BY <1>0, <2>1, <4>1
    <3> QED BY <2>1, <3>1, <3>2
  <2> QED BY <1>5, <2>1, <2>2 DEF Window, Writing
<1>8. CASE Reads(u) \/ Store(u) \/ Register(u)
  <2>1. UNCHANGED <<device, handle>>
    BY <1>8 DEF Reads, ReadHit, Fetch, Store, Register
  <2>2. \A v \in Program : Window(v) => Window(v)'
    BY <1>0, <1>8 DEF Reads, ReadHit, Fetch, Store, Register, Window
  <2> QED BY <1>5, <2>1, <2>2 DEF Writing
<1>9. CASE GetInformation(u)
  BY <1>5, <1>9 DEF GetInformation, Window, Writing
<1>10. CASE \E x \in Answers : SetDelete(u, x)
  <2>1. UNCHANGED <<device, pc>> /\ handle' = [handle EXCEPT ![u].doomed = TRUE]
    BY <1>10 DEF SetDelete
  <2>2. \A v \in Program : handle'[v].path = handle[v].path /\ handle'[v].write = handle[v].write
    BY <1>0, <2>1 DEF TypeOK, ProgramType
  <2> QED BY <1>5, <2>1, <2>2 DEF Window, Writing
<1>11. CASE Cleanup(u)
  <2>1. /\ UNCHANGED <<device, handle>> /\ pc[u] = "in"
        /\ \A v \in Program : v # u => pc'[v] = pc[v]
    BY <1>0, <1>11 DEF Cleanup
  <2> QED BY <1>5, <2>1 DEF Window, Writing
<1>12. CASE Create(u) \/ Flush(u) \/ Delete(u)
  BY <1>0, <1>3, <1>12 DEF Create, Flush, Delete
<1>13. CASE Created(u) \/ Closed(u) \/ Deleted(u) \/ Renamed(u)
  BY <1>3, <1>13 DEF Created, Closed, Deleted, Renamed, Invalidate
<1>14. CASE \E q \in Path : Rename(u, q)
  <2>1. PICK q \in Path : Rename(u, q)
    BY <1>14
  <2>2. UNCHANGED <<handle, pc>> /\ harmed' = harmed \cup {handle[u].path, q}
    <3>1. \/ pc' = [pc EXCEPT ![u] = "renamed"]
          \/ UNCHANGED <<handle, pc>> /\ harmed' = harmed \cup {handle[u].path, q}
      BY <2>1 DEF Rename
    <3>2. pc' # [pc EXCEPT ![u] = "renamed"]
      BY <1>0, <1>3
    <3> QED BY <3>1, <3>2
  <2>3. p # handle[u].path /\ p # q
    BY <2>2
  <2>4. device'[p] = device[p]
    BY <1>0, <2>1, <2>3 DEF Rename, Moved
  <2> QED BY <1>5, <2>2, <2>4 DEF Window, Writing
<1> QED BY <1>6, <1>7, <1>8, <1>9, <1>10, <1>11, <1>12, <1>13, <1>14 DEF Step

-----------------------------------------------------------------------------
(* The acknowledged data. *)

\* An empty stretch covers nothing.
LEMMA NoCover ==
    ASSUME NEW b, b.off \in Nat, b.data = <<>>
    PROVE  \A i \in Nat : ~Covers(b, i)
  BY CoverBounds

\* What a file holds of the data put into it, and of its own.
LEMMA Spliced ==
    ASSUME NEW file \in Seq(Byte) \cup {Absent}, NEW off \in Nat, NEW data \in Seq(Byte),
           NEW i \in Nat, i >= 1
    PROVE  /\ i \in (off + 1)..(off + Len(data)) =>
                /\ i \in DOMAIN Content(Splice(file, off, data))
                /\ Splice(file, off, data)[i] = data[i - off]
           /\ i \notin (off + 1)..(off + Len(data)) /\ i \in DOMAIN Content(file) =>
                /\ i \in DOMAIN Content(Splice(file, off, data))
                /\ Splice(file, off, data)[i] = file[i]
<1> DEFINE sp == Splice(file, off, data)
<1>1. /\ sp \in Seq(Byte) /\ sp # Absent
      /\ DOMAIN sp = {k \in Nat : k >= 1 /\ (k <= off + Len(data) \/ k <= Len(Content(file)))}
      /\ \A k \in DOMAIN sp :
           /\ k \in (off + 1)..(off + Len(data)) => sp[k] = data[k - off]
           /\ k \notin (off + 1)..(off + Len(data)) /\ k \in DOMAIN Content(file) =>
                sp[k] = Content(file)[k]
  BY Splices
<1> HIDE DEF sp
<1>2. Content(sp) = sp
  BY <1>1 DEF Content
<1>3. /\ Content(file) \in Seq(Byte) /\ Len(Content(file)) \in Nat /\ Len(data) \in Nat
      /\ DOMAIN Content(file) = 1..Len(Content(file))
  BY Contents
<1>4. ASSUME i \in (off + 1)..(off + Len(data))
      PROVE  i \in DOMAIN Content(sp) /\ sp[i] = data[i - off]
  <2>1. i <= off + Len(data)
    BY <1>3, <1>4
  <2>2. i \in DOMAIN sp
    BY <1>1, <2>1
  <2> QED BY <1>1, <1>2, <1>4, <2>2
<1>5. ASSUME i \notin (off + 1)..(off + Len(data)), i \in DOMAIN Content(file)
      PROVE  i \in DOMAIN Content(sp) /\ sp[i] = file[i]
  <2>1. file # Absent
    <3>1. file = Absent => DOMAIN Content(file) = {}
      BY Contents
    <3> QED BY <1>5, <3>1
  <2>2. Content(file)[i] = file[i]
    BY <1>5, <2>1, Contents
  <2>3. i <= Len(Content(file))
    BY <1>3, <1>5
  <2>4. i \in DOMAIN sp
    BY <1>1, <2>3
  <2> QED BY <1>1, <1>2, <1>5, <2>2, <2>4
<1> QED BY <1>4, <1>5 DEF sp

\* Where a file holds a block.
Held(file, i, val) == i \in DOMAIN Content(file) /\ file[i] = val

\* A stretch that is put into a file leaves what was in front there in the file.
LEMMA Landed ==
    ASSUME NEW file \in Seq(Byte) \cup {Absent}, NEW s, s.off \in Nat, s.data \in Seq(Byte),
           NEW i \in Nat, i >= 1, NEW val,
           IF Covers(s, i) THEN s.data[i - s.off] = val ELSE Held(file, i, val)
    PROVE  Held(Splice(file, s.off, s.data), i, val)
<1>1. Covers(s, i) <=> i \in (s.off + 1)..(s.off + Len(s.data))
  BY DEF Covers
<1>2. CASE Covers(s, i)
  <2>1. i \in (s.off + 1)..(s.off + Len(s.data)) /\ s.data[i - s.off] = val
    BY <1>1, <1>2
  <2> QED BY <2>1, Spliced DEF Held
<1>3. CASE ~Covers(s, i)
  BY <1>1, <1>3, Spliced DEF Held
<1> QED BY <1>2, <1>3

\* A write through the buffer keeps what is acknowledged of its file.
LEMMA BufferedKept ==
    ASSUME TypeOK, Calls, UnderWay, Acks, NothingLost, TypeOK', Acks',
           NEW u \in Program, WriteBuffered(u),
           NEW p \in Path, p = given[u].path, p \notin harmed',
           NEW i \in DOMAIN acked'[p], NEW val, val = acked'[p][i]
    PROVE  Shows(p, i, val)'
<1> DEFINE off == given[u].off
           b == buffers[p]
           d == Head(given[u].data)
           w == Written(b, off, <<d>>)
<1>1. off = given[u].off /\ b = buffers[p] /\ d = Head(given[u].data) /\ w = Written(b, off, <<d>>)
  OBVIOUS
<1> HIDE DEF off, b, d, w
<1>2. /\ p \in DOMAIN buffers /\ off \in 0..(MaxLength - 1) /\ d \in 1..MaxWrites
      /\ buffers' = [buffers EXCEPT ![p] = IF NeedsFlush(w) THEN Flushed(w) ELSE w]
      /\ Acknowledge(p, off, d) /\ UNCHANGED taken
  BY <1>1, Buffering
<1>3. PICK last \in IF NeedsFlush(w) THEN Flushing(w, device[p])
                    ELSE {[file |-> device[p], ok |-> TRUE]} :
          /\ device' = [device EXCEPT ![p] = last.file]
          /\ Harm(p, Discards(b, off, <<d>>) \/ ~last.ok \/ OnItsWay(p))
  BY <1>1, Buffering
<1>4. p \notin harmed /\ ~Discards(b, off, <<d>>) /\ last.ok /\ ~OnItsWay(p)
  BY <1>3, Unharmed
<1>5. b \in BufferRecord
  BY <1>1, <1>2 DEF TypeOK, BufferType, BufferRecord
<1>6. /\ w \in BufferRecord /\ w.data # <<>>
      /\ Covers(w, off + 1) /\ w.data[off + 1 - w.off] = d
      /\ \A k \in Nat : k # off + 1 =>
            /\ Covers(w, k) <=> Covers(b, k)
            /\ Covers(b, k) => w.data[k - w.off] = b.data[k - b.off]
  <2>1. /\ b \in BufferRecord /\ off \in 0..(MaxLength - 1) /\ d \in 1..MaxWrites
        /\ w = Written(b, off, <<d>>)
    BY <1>1, <1>2, <1>5
  <2>2. /\ w \in BufferRecord /\ w.data # <<>>
        /\ ~Discards(b, off, <<d>>) =>
             /\ Covers(w, off + 1) /\ w.data[off + 1 - w.off] = d
             /\ \A k \in Nat : k # off + 1 =>
                   /\ Covers(w, k) <=> Covers(b, k)
                   /\ Covers(b, k) => w.data[k - w.off] = b.data[k - b.off]
    BY <2>1, Writing1
  <2> QED BY <1>4, <2>2
<1>7. i \in Nat /\ i >= 1 /\ off \in Nat
  <2>1. i \in 1..MaxLength
    BY DEF Acks
  <2>2. MaxLength \in Nat
    BY SizesAssumption
  <2> QED BY <1>2, <2>1, <2>2
<1>8. \A v \in Program : taken[v].path # p
  BY <1>4, NoSenders
<1>9. Senders(p, i) = {} /\ Senders(p, i)' = {}
  BY <1>2, <1>8 DEF Senders
\* In the buffer as it is written, or else in the file.
<1>10. \/ Covers(w, i) /\ w.data[i - w.off] = val
       \/ ~Covers(w, i) /\ i \in DOMAIN Content(device[p]) /\ device[p][i] = val
  <2>1. DOMAIN acked = Path /\ acked'[p] = With(acked[p], off + 1, d)
    BY <1>2 DEF Acknowledge, Acks
  <2>2. CASE i = off + 1
    <3>1. val = d
      BY <2>1, <2>2 DEF With
    <3>2. w.off \in Nat
      BY <1>6, SizesAssumption DEF BufferRecord
    <3>3. off + 1 - w.off = i - w.off
      BY <1>7, <2>2, <3>2
    <3>4. w.data[i - w.off] = d
      BY <1>6, <3>3
    <3> QED BY <1>6, <2>2, <3>1, <3>4
  <2>3. CASE i # off + 1
    <3>1. i \in DOMAIN acked[p] /\ val = acked[p][i]
      BY <2>1, <2>3 DEF With
    <3>2. Shows(p, i, val)
      BY <1>4, <3>1 DEF NothingLost
    <3>3. IF Covers(b, i) THEN b.data[i - b.off] = val
          ELSE i \in DOMAIN Content(device[p]) /\ device[p][i] = val
      BY <1>1, <1>2, <1>9, <3>2 DEF Shows
    <3> QED BY <1>6, <1>7, <2>3, <3>3
  <2> QED BY <2>2, <2>3
<1>11. p \in DOMAIN device /\ p \in DOMAIN buffers'
  BY <1>2 DEF TypeOK, DeviceType
<1>12. CASE ~NeedsFlush(w)
  <2>1. device'[p] = device[p] /\ buffers'[p] = w
    BY <1>2, <1>3, <1>11, <1>12
  <2> QED BY <1>9, <1>10, <1>11, <2>1 DEF Shows, Covers
<1>13. CASE NeedsFlush(w)
  <2>1. last \in WriteRange(device[p], w.off, w.data)
    BY <1>3, <1>6, <1>13 DEF Flushing
  <2>2. device[p] \in Seq(Byte) \cup {Absent} /\ w.off \in Nat /\ w.data \in Seq(Byte)
    BY <1>6, SizesAssumption DEF TypeOK, DeviceType, BufferRecord
  <2>3. device'[p] = Splice(device[p], w.off, w.data)
    <3>1. last.file = Splice(device[p], w.off, w.data)
      BY <1>4, <2>1, <2>2, Ranges
    <3> QED BY <1>3, <1>11, <3>1
  <2>4. i \in DOMAIN Content(device'[p]) /\ device'[p][i] = val
    <3>1. IF Covers(w, i) THEN w.data[i - w.off] = val ELSE Held(device[p], i, val)
      BY <1>10 DEF Held
    <3>2. Held(Splice(device[p], w.off, w.data), i, val)
      BY <1>7, <2>2, <3>1, Landed
    <3> QED BY <2>3, <3>2 DEF Held
  <2>5. ~Covers(buffers[p], i)'
    <3>1. buffers'[p] = Flushed(w)
      BY <1>2, <1>13
    <3>2. Flushed(w).off \in Nat /\ Flushed(w).data = <<>>
      BY <1>6, <2>2 DEF Flushed, BufferRecord
    <3>3. ~Covers(Flushed(w), i)
      BY <1>7, <3>2, NoCover
    <3> QED BY <3>1, <3>3 DEF Covers
  <2> QED BY <1>9, <2>4, <2>5 DEF Shows, Content
<1> QED BY <1>12, <1>13

\* Every step keeps what is acknowledged where the file will have it.
LEMMA LossStep ==
    ASSUME TypeOK, Calls, UnderWay, Acks, OneSender, NothingLost, [Next]_vars, TypeOK', Acks'
    PROVE  NothingLost'
<1> SUFFICES ASSUME NEW p \in Path, p \notin harmed',
                    NEW i \in DOMAIN acked'[p], NEW val, val = acked'[p][i]
             PROVE  Shows(p, i, val)'
  BY DEF NothingLost, Shows
<1>0. /\ p \notin harmed /\ i \in Nat /\ i >= 1
      /\ DOMAIN acked = Path /\ DOMAIN device = Path /\ DOMAIN taken = Program
  BY CountStep, SizesAssumption DEF Acks, TypeOK, DeviceType, ChunkType
<1>c. i \in DOMAIN acked[p] => Shows(p, i, acked[p][i])
  BY <1>0 DEF NothingLost
\* Nothing about the file has changed.
<1>1. ASSUME acked'[p] = acked[p], device'[p] = device[p], UNCHANGED taken,
             p \in DOMAIN buffers' <=> p \in DOMAIN buffers,
             p \in DOMAIN buffers => buffers'[p] = buffers[p]
      PROVE  Shows(p, i, val)'
  <2>1. Shows(p, i, val)
    BY <1>1, <1>c
  <2>2. Senders(p, i)' = Senders(p, i)
    BY <1>1 DEF Senders
  <2> QED BY <1>1, <2>1, <2>2 DEF Shows, Covers
\* A buffer covers blocks of its file only.
<1>2. \A q \in DOMAIN buffers : ~Buffered(q) => ~Covers(buffers[q], i)
  <2>1. \A q \in DOMAIN buffers : buffers[q].off \in Nat
    BY SizesAssumption DEF TypeOK, BufferType
  <2> QED BY <1>0, <2>1, NoCover DEF Buffered
<1>3. CASE Expire \/ UNCHANGED vars
  BY <1>1, <1>3 DEF Expire, vars
<1> SUFFICES ASSUME NEW u \in Program, Step(u) PROVE Shows(p, i, val)'
  BY <1>3, Acts
<1>4. CASE UNCHANGED <<device, acked, buffers, taken>>
  BY <1>1, <1>4
<1>5. CASE Create(u)
  <2> DEFINE q == handle[u].path
  <2>1. /\ device' \in {device, [device EXCEPT ![q] = <<>>]}
        /\ acked' = IF handle[u].new THEN acked ELSE [acked EXCEPT ![q] = <<>>]
        /\ Harm(q, handle[u].new /\ Exists(q)) /\ UNCHANGED <<buffers, taken>>
    BY <1>5 DEF Create
  <2>2. CASE p # q
    BY <1>0, <1>1, <2>1, <2>2
  <2>3. CASE p = q /\ ~handle[u].new
    <3>1. acked'[p] = <<>>
      BY <1>0, <2>1, <2>3
    <3> QED BY <3>1
  <2>4. CASE p = q /\ handle[u].new
    <3>1. ~Exists(p) /\ acked'[p] = acked[p]
      BY <2>1, <2>4, Unharmed
    <3>2. device[p] = Absent
      BY <3>1 DEF Exists
    <3>3. DOMAIN Content(device[p]) = {}
      BY <3>2 DEF Content
    <3>4. Shows(p, i, val)
      BY <1>c, <3>1
    <3>5. Senders(p, i)' = Senders(p, i)
      BY <2>1 DEF Senders
    <3> QED BY <2>1, <3>3, <3>4, <3>5 DEF Shows, Covers
  <2> QED BY <2>2, <2>3, <2>4
<1>6. CASE Delete(u)
  <2> DEFINE q == handle[u].path
  <2>1. /\ device' \in {device, [device EXCEPT ![q] = Absent]}
        /\ acked' = [acked EXCEPT ![q] = <<>>] /\ UNCHANGED <<buffers, taken>>
    BY <1>6 DEF Delete
  <2>2. p = q => acked'[p] = <<>>
    BY <1>0, <2>1
  <2>3. CASE p # q
    BY <1>0, <1>1, <2>1, <2>3
  <2> QED BY <2>2, <2>3
<1>7. CASE Register(u)
  <2> DEFINE q == handle[u].path
  <2>1. /\ buffers' = With(buffers, q, NewBuffer) /\ Harm(q, Buffered(q))
        /\ UNCHANGED <<device, acked, taken>>
    BY <1>7 DEF Register
  <2>2. CASE p # q
    BY <1>1, <2>1, <2>2 DEF With
  <2>3. CASE p = q
    <3>1. ~Buffered(p)
      BY <2>1, <2>3, Unharmed
    <3>2. p \in DOMAIN buffers => ~Covers(buffers[p], i)
      BY <1>2, <3>1
    <3>3. p \in DOMAIN buffers' /\ buffers'[p] = NewBuffer
      BY <2>1, <2>3 DEF With
    <3>4. ~Covers(NewBuffer, i)
      <4>1. NewBuffer.off \in Nat /\ NewBuffer.data = <<>>
        BY DEF NewBuffer
      <4> QED BY <1>0, <4>1, NoCover
    <3>5. Senders(p, i)' = Senders(p, i)
      BY <2>1 DEF Senders
    <3>6. Shows(p, i, val)
      BY <1>c, <2>1
    <3> QED BY <2>1, <3>2, <3>3, <3>4, <3>5, <3>6 DEF Shows, Covers
  <2> QED BY <2>2, <2>3
<1>8. CASE WriteBuffered(u)
  <2>2. CASE p = given[u].path
    BY <1>8, <2>2, BufferedKept
  <2>3. CASE p # given[u].path
    <3>1. /\ \E b : buffers' = [buffers EXCEPT ![given[u].path] = b]
          /\ \E f : device' = [device EXCEPT ![given[u].path] = f]
          /\ \E a : acked' = [acked EXCEPT ![given[u].path] = a]
          /\ UNCHANGED taken
      BY <1>8 DEF WriteBuffered, Acknowledge
    <3> QED BY <1>1, <2>3, <3>1
  <2> QED BY <2>2, <2>3
<1>9. CASE WriteDirect(u)
  <2> DEFINE q == given[u].path
             off == given[u].off
             d == Head(given[u].data)
  <2>1. /\ given[u].data = <<d>> /\ d \in 1..MaxWrites /\ off \in 0..(MaxLength - 1)
    BY <1>9 DEF WriteDirect, UnderWay
  <2>2. /\ UNCHANGED <<buffers, taken>>
        /\ acked' = acked \/ acked' = [acked EXCEPT ![q] = With(acked[q], off + 1, d)]
    BY <1>9 DEF WriteDirect, Acknowledge
  <2>3. PICK result \in WriteRange(device[q], off, <<d>>) :
          /\ device' = [device EXCEPT ![q] = result.file]
          /\ IF result.ok THEN Acknowledge(q, off, d) ELSE UNCHANGED acked
          /\ Harm(q, ~result.ok \/ OnItsWay(q) \/ Buffered(q))
    BY <1>9, <2>1 DEF WriteDirect
  <2>4. off \in Nat
    BY <2>1, SizesAssumption
  <2> HIDE DEF off, d
  <2>5. CASE p # q
    BY <1>0, <1>1, <2>2, <2>3, <2>5
  <2>6. CASE p = q
    <3>1. result.ok /\ ~OnItsWay(p) /\ ~Buffered(p)
      BY <2>3, <2>6, Unharmed
    <3>11. p \in DOMAIN buffers => ~Covers(buffers[p], i)
      BY <1>2, <3>1
    <3>2. <<d>> \in Seq(Byte) /\ Len(<<d>>) = 1 /\ <<d>>[1] = d
      <4>1. d \in Byte
        BY <2>1 DEF Byte
      <4> QED BY <4>1
    <3>3. device[p] \in Seq(Byte) \cup {Absent}
      BY DEF TypeOK, DeviceType
    <3>4. device'[p] = Splice(device[p], off, <<d>>)
      <4>1. result.file = Splice(device[p], off, <<d>>)
        BY <2>3, <2>4, <2>6, <3>1, <3>2, <3>3, Ranges
      <4> QED BY <1>0, <2>3, <2>6, <4>1
    <3>5. Senders(p, i) = {} /\ Senders(p, i)' = {}
      BY <2>2, <3>1, NoSenders DEF Senders
    <3>6. acked'[p] = With(acked[p], off + 1, d)
      BY <1>0, <2>3, <2>6, <3>1 DEF Acknowledge
    <3>7. \/ i = off + 1 /\ val = d
          \/ i # off + 1 /\ i \in DOMAIN Content(device[p]) /\ device[p][i] = val
      <4>1. CASE i = off + 1
        BY <3>6, <4>1 DEF With
      <4>2. CASE i # off + 1
        <5>1. i \in DOMAIN acked[p] /\ val = acked[p][i]
          BY <3>6, <4>2 DEF With
        <5> QED BY <1>c, <2>6, <3>5, <3>11, <4>2, <5>1 DEF Shows
      <4> QED BY <4>1, <4>2
    <3>8. i \in (off + 1)..(off + Len(<<d>>)) <=> i = off + 1
      BY <1>0, <2>4, <3>2
    <3>9. i = off + 1 => i - off = 1
      BY <2>4
    <3>10. i \in DOMAIN Content(device'[p]) /\ device'[p][i] = val
      <4> DEFINE s == [path |-> p, off |-> off, data |-> <<d>>]
      <4>1. s.off = off /\ s.data = <<d>>
        OBVIOUS
      <4>2. Covers(s, i) <=> i = off + 1
        BY <3>8, <4>1 DEF Covers
      <4> HIDE DEF s
      <4>3. IF Covers(s, i) THEN s.data[i - s.off] = val ELSE Held(device[p], i, val)
        BY <3>2, <3>7, <3>9, <4>1, <4>2 DEF Held
      <4>4. s.off \in Nat /\ s.data \in Seq(Byte)
        BY <2>4, <3>2, <4>1
      <4>5. Held(Splice(device[p], s.off, s.data), i, val)
        BY <1>0, <3>3, <4>3, <4>4, Landed
      <4> QED BY <3>4, <4>1, <4>5 DEF Held
    <3> QED BY <2>2, <2>6, <3>5, <3>10, <3>11 DEF Shows, Content, Covers
  <2> QED BY <2>5, <2>6
<1>10. CASE Cleanup(u)
  <2> DEFINE q == handle[u].path
             out == [path |-> q, off |-> buffers[q].off, data |-> buffers[q].data]
  <2>1. /\ buffers' = Without(buffers, q) /\ UNCHANGED <<device, acked>>
        /\ Buffered(q) => taken' = [taken EXCEPT ![u] = out]
        /\ ~Buffered(q) => taken' = taken
        /\ pc[u] = "in"
    BY <1>10 DEF Cleanup
  <2>2. out.path = q /\ out.off = buffers[q].off /\ out.data = buffers[q].data
    OBVIOUS
  <2>3. taken[u].path # p
    BY <2>1, NamesAssumption DEF Calls, Nothing
  <2>4. Shows(p, i, val)
    BY <1>c, <2>1
  <2> HIDE DEF out
  <2>5. CASE p # q
    <3>1. \A v \in Program : taken'[v].path = p <=> taken[v].path = p
      BY <1>0, <2>1, <2>2, <2>3, <2>5
    <3>2. \A v \in Program : taken[v].path = p => taken'[v] = taken[v]
      BY <1>0, <2>1, <2>3
    <3>3. Senders(p, i)' = Senders(p, i)
      BY <3>1, <3>2 DEF Senders, Covers
    <3>4. \A v \in Senders(p, i) : taken'[v] = taken[v]
      BY <3>2 DEF Senders
    <3>5. p \in DOMAIN buffers' <=> p \in DOMAIN buffers
      BY <2>1, <2>5 DEF Without
    <3>6. p \in DOMAIN buffers => buffers'[p] = buffers[p]
      BY <2>1, <2>5 DEF Without
    <3> QED BY <2>1, <2>4, <3>3, <3>4, <3>5, <3>6 DEF Shows, Covers
  <2>6. CASE p = q /\ ~Buffered(q)
    <3>1. p \in DOMAIN buffers => ~Covers(buffers[p], i)
      BY <1>2, <2>6
    <3>2. p \notin DOMAIN buffers' /\ taken' = taken
      BY <2>1, <2>6 DEF Without
    <3>3. Senders(p, i)' = Senders(p, i)
      BY <3>2 DEF Senders
    <3> QED BY <2>1, <2>4, <3>1, <3>2, <3>3 DEF Shows
  <2>7. CASE p = q /\ Buffered(q)
    <3>1. \A v \in Program : taken[v].path # p
      <4>1. ~OnItsWay(p)
        BY <1>0, <2>7 DEF OneSender
      <4> QED BY <4>1, NoSenders
    <3>2. p \notin DOMAIN buffers' /\ \A v \in Program : taken'[v] = IF v = u THEN out ELSE taken[v]
      BY <1>0, <2>1, <2>7 DEF Without
    <3>3. p \in DOMAIN buffers /\ Senders(p, i) = {}
      BY <2>7, <3>1 DEF Buffered, Senders
    <3>4. Senders(p, i)' = IF Covers(buffers[p], i) THEN {u} ELSE {}
      BY <2>2, <2>7, <3>1, <3>2 DEF Senders, Covers
    <3>5. IF Covers(buffers[p], i) THEN buffers[p].data[i - buffers[p].off] = val
          ELSE i \in DOMAIN Content(device[p]) /\ device[p][i] = val
      BY <2>4, <3>3 DEF Shows
    <3> QED BY <2>1, <2>2, <2>7, <3>2, <3>4, <3>5 DEF Shows
  <2> QED BY <2>5, <2>6, <2>7
<1>11. CASE Flush(u)
  <2> DEFINE q == taken[u].path
  <2>1. /\ taken' = [taken EXCEPT ![u] = Nothing] /\ UNCHANGED <<buffers, acked>> /\ pc[u] = "flush"
    BY <1>11 DEF Flush
  <2>2. PICK result \in WriteRange(device[q], taken[u].off, taken[u].data) :
          device' = [device EXCEPT ![q] = result.file] /\ Harm(q, ~result.ok)
    BY <1>11 DEF Flush
  <2>3. Nothing.path # p
    BY NamesAssumption DEF Nothing
  <2> HIDE DEF Nothing
  <2>4. Shows(p, i, val)
    BY <1>c, <2>1
  <2>5. \A v \in Program : taken'[v] = IF v = u THEN Nothing ELSE taken[v]
    BY <1>0, <2>1
  <2>6. CASE p # q
    <3>1. \A v \in Program : taken'[v].path = p <=> taken[v].path = p
      BY <2>3, <2>5, <2>6
    <3>2. \A v \in Program : taken[v].path = p => taken'[v] = taken[v]
      BY <2>5, <2>6
    <3>3. Senders(p, i)' = Senders(p, i)
      BY <3>1, <3>2 DEF Senders, Covers
    <3>4. \A v \in Senders(p, i) : taken'[v] = taken[v]
      BY <3>2 DEF Senders
    <3>5. device'[p] = device[p]
      BY <2>2, <2>6
    <3> QED BY <2>1, <2>4, <3>3, <3>4, <3>5 DEF Shows, Covers
  <2>7. CASE p = q
    <3>1. result.ok
      BY <2>2, <2>7, Unharmed
    <3>2. \A v \in Program : taken[v].path = p => v = u
      BY <1>0, <2>7 DEF OneSender
    <3>3. ~Buffered(p)
      <4>1. OnItsWay(p)
        BY <2>1, <2>7 DEF Calls, OnItsWay
      <4> QED BY <1>0, <4>1 DEF OneSender
    <3>4. p \in DOMAIN buffers => ~Covers(buffers[p], i)
      BY <1>2, <3>3
    <3>5. Senders(p, i)' = {}
      BY <2>3, <2>5, <3>2 DEF Senders
    <3>6. Senders(p, i) = IF Covers(taken[u], i) THEN {u} ELSE {}
      BY <2>7, <3>2 DEF Senders
    <3>7. IF Covers(taken[u], i) THEN taken[u].data[i - taken[u].off] = val
          ELSE i \in DOMAIN Content(device[p]) /\ device[p][i] = val
      BY <2>4, <3>4, <3>6 DEF Shows
    <3>8. /\ device[p] \in Seq(Byte) \cup {Absent} /\ taken[u].off \in Nat
          /\ taken[u].data \in Seq(Byte)
      BY SizesAssumption DEF TypeOK, DeviceType, ChunkType, Chunk
    <3>9. device'[p] = Splice(device[p], taken[u].off, taken[u].data)
      <4>1. result.file = Splice(device[p], taken[u].off, taken[u].data)
        BY <2>2, <2>7, <3>1, <3>8, Ranges
      <4> QED BY <1>0, <2>2, <2>7, <4>1
    <3>10. i \in DOMAIN Content(device'[p]) /\ device'[p][i] = val
      <4>1. IF Covers(taken[u], i) THEN taken[u].data[i - taken[u].off] = val
            ELSE Held(device[p], i, val)
        BY <3>7 DEF Held
      <4>2. Held(Splice(device[p], taken[u].off, taken[u].data), i, val)
        BY <1>0, <3>8, <4>1, Landed
      <4> QED BY <3>9, <4>2 DEF Held
    <3> QED BY <2>1, <3>4, <3>5, <3>10 DEF Shows, Content, Covers
  <2> QED BY <2>6, <2>7
<1>12. CASE \E q \in Path : Rename(u, q)
  <2>1. PICK q \in Path : Rename(u, q)
    BY <1>12
  <2> DEFINE r == handle[u].path
  <2>2. /\ r # q /\ device' = Moved(r, q) /\ UNCHANGED <<buffers, taken>>
        /\ acked' = [acked EXCEPT ![r] = <<>>, ![q] = acked[r]]
        /\ r \in Path
    BY <2>1 DEF Rename, Calls
  <2>3. \/ harmed' = harmed \cup {r, q}
        \/ /\ harmed' = harmed
           /\ \A x \in {r, q} : ~Buffered(x) /\ ~OnItsWay(x) /\ x \notin harmed
    BY <2>1 DEF Rename
  <2> HIDE DEF r
  <2>4. CASE p # r /\ p # q
    <3>1. acked'[p] = acked[p] /\ device'[p] = device[p]
      BY <1>0, <2>2, <2>4 DEF Moved
    <3> QED BY <1>1, <2>2, <3>1
  <2>5. CASE p = r
    <3>1. acked'[p] = <<>>
      BY <1>0, <2>2, <2>5
    <3> QED BY <3>1
  <2>6. CASE p = q
    <3>1. /\ ~Buffered(q) /\ ~OnItsWay(q) /\ ~Buffered(r) /\ ~OnItsWay(r) /\ r \notin harmed
      BY <2>3, <2>6
    <3>2. acked'[p] = acked[r] /\ device'[p] = device[r]
      BY <1>0, <2>2, <2>6 DEF Moved
    <3>3. Shows(r, i, val)
      BY <2>2, <3>1, <3>2 DEF NothingLost
    <3>4. Senders(r, i) = {} /\ Senders(q, i)' = {}
      BY <2>2, <3>1, NoSenders DEF Senders
    <3>5. /\ r \in DOMAIN buffers => ~Covers(buffers[r], i)
          /\ q \in DOMAIN buffers => ~Covers(buffers[q], i)
      BY <1>2, <3>1
    <3>6. i \in DOMAIN Content(device[r]) /\ device[r][i] = val
      BY <3>3, <3>4, <3>5 DEF Shows
    <3>7. q \in DOMAIN buffers' => ~Covers(buffers[q], i)'
      BY <2>2, <3>5 DEF Covers
    <3> QED BY <2>6, <3>2, <3>4, <3>6, <3>7 DEF Shows, Content
  <2> QED BY <2>4, <2>5, <2>6
<1> QED BY <1>4, <1>5, <1>6, <1>7, <1>8, <1>9, <1>10, <1>11, <1>12, DataFrame

-----------------------------------------------------------------------------
(* The theorems. *)

\* The mount begins with no buffer, nothing taken and no listing.
LEMMA Initially ==
    ASSUME Init
    PROVE  IInv
<1>1. TypeOK
  <2>1. DeviceType
    <3>1. <<Old>> \in Seq(Byte)
      BY DEF Byte
    <3> QED BY <3>1 DEF Init, DeviceType
  <2>2. BufferType
    <3>1. DOMAIN <<>> = {}
      OBVIOUS
    <3> QED BY <3>1 DEF Init, BufferType
  <2>3. ListingType
    BY DEF Init, ListingType
  <2>4. CacheType
    <3>1. caches = <<>> /\ Len(<<>>) = 0 /\ 1..0 = {} /\ 0 <= MaxCaches
      BY SizesAssumption DEF Init
    <3> QED BY <3>1 DEF CacheType, Slots
  <2>5. ProgramType
    BY DEF Init, ProgramType, NoHandle
  <2>6. ChunkType
    <3>1. <<>> \in Seq(Byte) /\ 0 \in 0..MaxLength
      BY SizesAssumption
    <3> QED BY <3>1 DEF Init, ChunkType, Chunk, Nothing
  <2>7. CountType
    BY SizesAssumption DEF Init, CountType
  <2> QED BY <2>1, <2>2, <2>3, <2>4, <2>5, <2>6, <2>7 DEF TypeOK
<1>2. Calls /\ UnderWay
  BY DEF Init, Calls, UnderWay
<1>3. DOMAIN acked = Path /\ \A p \in Path : DOMAIN acked[p] = {}
  <2>1. DOMAIN <<>> = {}
    OBVIOUS
  <2> QED BY <2>1 DEF Init
<1>4. Acks /\ NothingLost
  BY <1>3 DEF Acks, NothingLost
<1>5. OneSender
  BY NamesAssumption DEF Init, OneSender, OnItsWay, Nothing
<1>6. Kept
  <2>1. DOMAIN buffers = {}
    <3>1. DOMAIN <<>> = {}
      OBVIOUS
    <3> QED BY <3>1 DEF Init
  <2> QED BY <2>1 DEF Kept, Buffered
<1>7. ListingCurrent
  BY DEF Init, ListingCurrent
<1> QED BY <1>1, <1>2, <1>4, <1>5, <1>6, <1>7 DEF IInv

\* Every step keeps the inductive invariant.
LEMMA Keeps ==
    ASSUME IInv, [Next]_vars
    PROVE  IInv'
<1>1. TypeOK' /\ Calls' /\ UnderWay' /\ Acks'
  BY TypeStep, CallStep, UnderWayStep, AckStep DEF IInv
<1> QED BY <1>1, SenderStep, LossStep, KeptStep, ListedStep DEF IInv

\* The mount keeps the inductive invariant.
THEOREM Invariance == Spec => []IInv
<1>1. Init => IInv
  BY Initially
<1>2. IInv /\ [Next]_vars => IInv'
  BY Keeps
<1> QED BY <1>1, <1>2, PTL DEF Spec

\* Every variable has its type; a path has one read-ahead chunk at most; and a buffer that is
\* kept between two calls needs no flush.
THEOREM TypeCorrect == Spec => []TypeOK
<1>1. IInv => TypeOK
  BY DEF IInv
<1> QED BY <1>1, Invariance, PTL

\* What WriteFile has acknowledged is in the buffer, on its way, or on the device, with nothing
\* older in front of it, but for the paths of which the code gives data up.
THEOREM AcknowledgedIsKept == Spec => []NothingLost
<1>1. IInv => NothingLost
  BY DEF IInv
<1> QED BY <1>1, Invariance, PTL

\* When no program has a file open, no data waits in a buffer.
THEOREM BuffersEmptied == Spec => []NothingLeftBehind
<1>1. IInv => NothingLeftBehind
  BY DEF IInv, Kept, Between, NothingLeftBehind
<1> QED BY <1>1, Invariance, PTL

\* A cached listing is true of every file that nobody has open for writing.
THEOREM ListingTrue == Spec => []ListingCurrent
<1>1. IInv => ListingCurrent
  BY DEF IInv
<1> QED BY <1>1, Invariance, PTL
=============================================================================
