------------------------- MODULE Application_proofs -------------------------
(***************************************************************************)
(* The window's threads, for every number of panels, devices, folders,     *)
(* clicks, lost connections, pairing sessions and workers: what the file   *)
(* panels show and wait for (FilePanels) and what the pairing dialog shows *)
(* and saves (Pairing).  In both the UI thread takes the queue of messages *)
(* out under its mutex and applies it message by message while the other   *)
(* threads go on.                                                          *)
(***************************************************************************)
EXTENDS FilePanels, Pairing, TLAPS

-----------------------------------------------------------------------------
(* The file panels: the inductive invariant. *)

Path == Folder \cup {None}
Entry == {None} \cup [slot : Slot, path : Path, root : BOOLEAN]
Panels == [slot : Slot \cup {None}, path : Path, shown : Entry, pending : Slot \cup {None},
           gen : Nat, needs : BOOLEAN, loading : BOOLEAN]
LeftView == {None} \cup [path : Path, shown : Entry]
Task == [kind : {"list", "root"}, panel : Panel, slot : Slot, path : Path, gen : Nat]
ListMsg == [kind : {"list"}, panel : Panel, slot : Slot, path : Path, gen : Nat,
            shown : Entry]
ReadyMsg == [kind : {"ready"}, slot : Slot]
DeniedMsg == [kind : {"denied"}, slot : Slot, root : BOOLEAN]
RootMsg == [kind : {"root"}, panel : Panel, slot : Slot, gen : Nat, root : BOOLEAN]
Message == ListMsg \cup ReadyMsg \cup DeniedMsg \cup RootMsg
WorkerPc == {"test", "dozing", "asleep", "run", "restart", "exited"}

DevicesTyped ==
    /\ connected \in [Slot -> BOOLEAN] /\ running \in [Slot -> BOOLEAN]
    /\ wanted \in [Slot -> BOOLEAN] /\ root \in [Slot -> BOOLEAN]
    /\ rootPending \in [Slot -> BOOLEAN] /\ cached \in [Slot -> Entry]
WorkerTyped ==
    /\ worker \in [pc : WorkerPc, task : {None} \cup Task]
    /\ worker.pc \in {"run", "restart"} => worker.task \in Task
    /\ worker.pc = "restart" => worker.task.kind = "root"
PanelsTyped ==
    /\ panel \in [Panel -> Panels] /\ views \in [Panel -> [Slot -> LeftView]]
    /\ DevicesTyped
    /\ queue \in Seq(Task) /\ messages \in Seq(Message) /\ drained \in Seq(Message)
    /\ WorkerTyped
    /\ throws \in Nat

\* Nothing is queued when the worker goes to sleep, and ~App knows whether it did.
NothingQueued == worker.pc \in {"dozing", "asleep"} => queue = <<>> /\ (ui = "join" => missed)

\* Once ~App runs nobody waits for a listing.
Forgotten == ui # "runs" => panel = [p \in Panel |-> Start]

\* A panel that waits for a device lists when that is there; meanwhile it is still of
\* the device it showed before.
WaitsToList ==
    \A p \in Panel : panel[p].pending # None => panel[p].needs /\ OnDevice(panel[p])

\* The listings that are queued, being fetched, on their way or about to be applied.
Lists == {t \in Range(queue) \cup Fetching \cup Range(messages) \cup Range(drained) :
             t.kind = "list"}

\* A listing is of no later request than the panel's last one, and the one of the last
\* is of the panel's device and of its folder, unless the panel is to list again.
RequestsMatch ==
    ui = "runs" => \A t \in Lists :
        LET x == panel[t.panel] IN
        /\ t.gen <= x.gen
        /\ t.gen = x.gen => t.slot = x.slot /\ (t.path = x.path \/ x.needs)

\* After its i-th message the queue still holds one that makes panels list s again.
Restart(m, s) == m.kind \in {"ready", "root"} /\ m.slot = s
Told(q, s, i) == \E j \in DOMAIN q : j > i /\ Restart(q[j], s)

\* What a panel or a message shows is what the server of now would list, or nothing.
Current(shown, s, f) == shown \in {None, Listing(s, f)}

MessagesCurrent ==
    \A i \in DOMAIN messages :
        LET m == messages[i] IN
        m.kind = "list" => Current(m.shown, m.slot, m.path) \/ Told(messages, m.slot, i)
DrainedCurrent ==
    \A i \in DOMAIN drained :
        LET m == drained[i] IN
        m.kind = "list" => \/ Current(m.shown, m.slot, m.path)
                           \/ Told(drained, m.slot, i) \/ Told(messages, m.slot, 0)
PanelsCurrent ==
    \A p \in Panel :
        LET x == panel[p] IN
        OnDevice(x) /\ ~x.needs /\ ~x.loading =>
            \/ Current(x.shown, x.slot, x.path)
            \/ Told(drained, x.slot, 0) \/ Told(messages, x.slot, 0)

PanelsInv ==
    /\ PanelsTyped /\ NothingQueued /\ Forgotten /\ WaitsToList
    /\ RequestsMatch /\ AwaitedIsComing
    /\ MessagesCurrent /\ DrainedCurrent /\ PanelsCurrent

-----------------------------------------------------------------------------
(* Queues. *)

\* A queue with an element appended holds that element besides.
LEMMA AppendedRange ==
    ASSUME NEW S, NEW q \in Seq(S), NEW e \in S
    PROVE  Append(q, e) \in Seq(S) /\ Range(Append(q, e)) = Range(q) \cup {e}
<1>1. Append(q, e) \in Seq(S) /\ DOMAIN Append(q, e) = 1..(Len(q) + 1) /\ DOMAIN q = 1..Len(q)
      /\ Len(q) \in Nat
  OBVIOUS
<1>2. \A i \in 1..Len(q) : Append(q, e)[i] = q[i]
  OBVIOUS
<1>3. Append(q, e)[Len(q) + 1] = e
  OBVIOUS
<1>4. \A z : z \in Range(Append(q, e)) <=> z \in Range(q) \cup {e}
  BY <1>1, <1>2, <1>3 DEF Range
<1> QED BY <1>1, <1>4

\* A queue that is not empty holds its head and the rest.
LEMMA HeadAndTail ==
    ASSUME NEW S, NEW q \in Seq(S), q # <<>>
    PROVE  /\ Tail(q) \in Seq(S) /\ Head(q) \in S
           /\ Range(q) = {Head(q)} \cup Range(Tail(q))
<1>1. /\ Len(q) \in Nat /\ Len(q) > 0 /\ DOMAIN q = 1..Len(q)
      /\ Tail(q) \in Seq(S) /\ DOMAIN Tail(q) = 1..(Len(q) - 1)
      /\ Head(q) = q[1] /\ Head(q) \in S
  OBVIOUS
<1>2. \A i \in 1..(Len(q) - 1) : Tail(q)[i] = q[i + 1]
  OBVIOUS
<1>3. \A z : z \in Range(q) => z \in {Head(q)} \cup Range(Tail(q))
  <2> SUFFICES ASSUME NEW i \in 1..Len(q), i # 1 PROVE q[i] \in Range(Tail(q))
    BY <1>1 DEF Range
  <2>1. i - 1 \in 1..(Len(q) - 1) /\ Tail(q)[i - 1] = q[i]
    BY <1>1, <1>2
  <2> QED BY <2>1, <1>1 DEF Range
<1>4. \A z : z \in {Head(q)} \cup Range(Tail(q)) => z \in Range(q)
  BY <1>1, <1>2 DEF Range
<1> QED BY <1>1, <1>3, <1>4

\* What the messages after the i-th tell, once another one has been posted.
LEMMA AppendedTold ==
    ASSUME NEW S, NEW q \in Seq(S), NEW e \in S, NEW s, NEW i \in Nat, i <= Len(q)
    PROVE  Told(Append(q, e), s, i) <=> Told(q, s, i) \/ Restart(e, s)
<1>1. DOMAIN Append(q, e) = 1..(Len(q) + 1) /\ DOMAIN q = 1..Len(q) /\ Len(q) \in Nat
  OBVIOUS
<1>2. \A j \in 1..Len(q) : Append(q, e)[j] = q[j]
  OBVIOUS
<1>3. Append(q, e)[Len(q) + 1] = e
  OBVIOUS
<1> QED BY <1>1, <1>2, <1>3 DEF Told

\* What the messages tell, once the first one has been applied.
LEMMA RestTold ==
    ASSUME NEW S, NEW q \in Seq(S), q # <<>>, NEW s
    PROVE  /\ Told(q, s, 0) <=> Restart(Head(q), s) \/ Told(Tail(q), s, 0)
           /\ \A i \in Nat : Told(q, s, i + 1) <=> Told(Tail(q), s, i)
<1>1. /\ Len(q) \in Nat /\ Len(q) > 0 /\ DOMAIN q = 1..Len(q)
      /\ DOMAIN Tail(q) = 1..(Len(q) - 1) /\ Head(q) = q[1]
  OBVIOUS
<1>2. \A i \in 1..(Len(q) - 1) : Tail(q)[i] = q[i + 1]
  OBVIOUS
<1>3. ASSUME NEW i \in Nat PROVE Told(q, s, i + 1) <=> Told(Tail(q), s, i)
  <2>1. ASSUME Told(q, s, i + 1) PROVE Told(Tail(q), s, i)
    <3>1. PICK j \in 1..Len(q) : j > i + 1 /\ Restart(q[j], s)
      BY <2>1, <1>1 DEF Told
    <3>2. j - 1 \in 1..(Len(q) - 1) /\ j - 1 > i /\ Tail(q)[j - 1] = q[j]
      BY <3>1, <1>1, <1>2
    <3> QED BY <3>1, <3>2, <1>1 DEF Told
  <2>2. ASSUME Told(Tail(q), s, i) PROVE Told(q, s, i + 1)
    BY <2>2, <1>1, <1>2 DEF Told
  <2> QED BY <2>1, <2>2
<1>4. Told(q, s, 0) <=> Restart(Head(q), s) \/ Told(q, s, 0 + 1)
  <2>1. ASSUME NEW j \in DOMAIN q, j > 0, Restart(q[j], s)
        PROVE  Restart(Head(q), s) \/ Told(q, s, 0 + 1)
    <3>1. CASE j = 1
      BY <2>1, <3>1, <1>1
    <3>2. CASE j > 1
      BY <2>1, <3>2, <1>1 DEF Told
    <3> QED BY <3>1, <3>2, <1>1
  <2>2. Restart(Head(q), s) => Told(q, s, 0)
    BY <1>1 DEF Told
  <2>3. Told(q, s, 0 + 1) => Told(q, s, 0)
    BY <1>1 DEF Told
  <2> QED BY <2>1, <2>2, <2>3 DEF Told
<1>5. Told(q, s, 0 + 1) <=> Told(Tail(q), s, 0)
  BY <1>3
<1> QED BY <1>3, <1>4, <1>5

-----------------------------------------------------------------------------
(* What the UI thread does to a panel. *)

\* A panel that is to list again: nothing it waits for is taken over from another
\* request, and it is of another device only with a new generation.
Restless(x, y) ==
    /\ y \in Panels /\ y.needs /\ y.gen >= x.gen
    /\ y.loading => x.loading /\ y.gen = x.gen
    /\ y.gen = x.gen => y.slot = x.slot
    /\ y.pending # None => OnDevice(y) \/ (x.pending = y.pending /\ x.slot = y.slot)

\* A listing that is dropped leaves a panel that waits for nothing, a generation on.
LEMMA Discarding ==
    ASSUME NEW x \in Panels
    PROVE  /\ Discard(x) \in Panels
           /\ Discard(x).gen = x.gen + 1 /\ ~Discard(x).loading
           /\ Discard(x).slot = x.slot /\ Discard(x).path = x.path
           /\ Discard(x).pending = x.pending
<1>1. x.gen \in Nat /\ x.gen + 1 \in Nat
  BY DEF Panels
<1> DEFINE n == x.gen + 1
<1>2. Discard(x) = [x EXCEPT !.gen = n, !.loading = FALSE]
  BY DEF Discard
<1> HIDE DEF n
<1>3. n \in Nat
  BY <1>1 DEF n
<1> QED BY <1>2, <1>3 DEF Panels, n

\* Going to another folder leaves the generation, and what the panel waits for.
LEMMA Navigating ==
    ASSUME NEW x \in Panels, NEW f \in Path
    PROVE  Restless(x, Navigated(x, f))
<1>1. /\ Navigated(x, f) \in Panels /\ Navigated(x, f).needs
      /\ Navigated(x, f).gen = x.gen /\ Navigated(x, f).loading = x.loading
      /\ Navigated(x, f).slot = x.slot /\ Navigated(x, f).pending = x.pending
  BY DEF Navigated, Panels
<1>2. x.gen \in Nat
  BY DEF Panels
<1> QED BY <1>1, <1>2 DEF Restless

\* Opening a device session drops what the panel waits for, unless it is open already.
LEMMA Opening ==
    ASSUME NEW p \in Panel, NEW x \in Panels, NEW s \in Slot, PanelsTyped, Home \in Folder,
           ~(x.slot = s /\ x.pending = None)
    PROVE  Restless(x, Opened(p, x, s))
<1> DEFINE view == IF views[p][s] # None THEN views[p][s] ELSE [path |-> Home, shown |-> cached[s]]
<1>1. views[p][s] \in LeftView /\ cached[s] \in Entry
  BY DEF PanelsTyped, DevicesTyped
<1>2. view.path \in Path /\ view.shown \in Entry
  <2>1. CASE views[p][s] # None
    BY <1>1, <2>1 DEF LeftView
  <2>2. CASE views[p][s] = None
    BY <1>1, <2>2 DEF Path
  <2> QED BY <2>1, <2>2
<1>3. Discard(x) \in Panels /\ Discard(x).gen = x.gen + 1 /\ ~Discard(x).loading
  BY Discarding
<1> DEFINE y == [Discard(x) EXCEPT !.slot = s, !.path = view.path, !.shown = view.shown,
                                   !.pending = None, !.needs = TRUE]
<1>4. Opened(p, x, s) = y
  BY DEF Opened
<1> HIDE DEF view
<1>5. y \in Panels /\ y.needs /\ y.gen = x.gen + 1 /\ ~y.loading /\ y.pending = None
  BY <1>2, <1>3 DEF Panels
<1>6. x.gen \in Nat
  BY DEF Panels
<1> QED BY <1>4, <1>5, <1>6 DEF Restless

\* A device that is there makes the panels of its slot list again, and leaves the others.
LEMMA ReadyPanels ==
    ASSUME NEW p \in Panel, NEW x \in Panels, NEW m \in ReadyMsg, PanelsTyped,
           Home \in Folder, None \notin Slot
    PROVE  \/ Ready(p, x, m) = x /\ (x.slot # m.slot \/ x.pending # None)
           \/ Restless(x, Ready(p, x, m))
<1>1. m.slot \in Slot
  BY DEF ReadyMsg
<1>2. CASE x.pending = m.slot
  <2>1. Restless(x, Opened(p, x, m.slot))
    BY <1>1, <1>2, Opening
  <2> QED BY <2>1, <1>2 DEF Ready
<1>3. CASE x.pending # m.slot /\ (x.slot # m.slot \/ x.pending # None)
  BY <1>3 DEF Ready
<1>4. CASE x.pending # m.slot /\ x.slot = m.slot /\ x.pending = None /\ x.path = Top
  <2> DEFINE y == [Discard(x) EXCEPT !.path = Home, !.shown = cached[m.slot], !.needs = TRUE]
  <2>1. Discard(x) \in Panels /\ Discard(x).gen = x.gen + 1 /\ ~Discard(x).loading
        /\ Discard(x).pending = None
    BY <1>4, Discarding
  <2>2. cached[m.slot] \in Entry
    BY <1>1 DEF PanelsTyped, DevicesTyped
  <2>3. y \in Panels /\ y.needs /\ y.gen = x.gen + 1 /\ ~y.loading /\ y.pending = None
    BY <2>1, <2>2 DEF Panels, Path
  <2>4. x.gen \in Nat
    BY DEF Panels
  <2>5. Ready(p, x, m) = y
    BY <1>4 DEF Ready
  <2> QED BY <2>3, <2>4, <2>5 DEF Restless
<1>5. CASE x.pending # m.slot /\ x.slot = m.slot /\ x.pending = None /\ x.path # Top
  <2> DEFINE y == [x EXCEPT !.needs = TRUE]
  <2>1. y \in Panels /\ y.needs /\ y.gen = x.gen /\ y.loading = x.loading /\ y.slot = x.slot
        /\ y.pending = x.pending
    BY DEF Panels
  <2>2. x.gen \in Nat
    BY DEF Panels
  <2>3. Ready(p, x, m) = y
    BY <1>5 DEF Ready
  <2> QED BY <2>1, <2>2, <2>3 DEF Restless
<1> QED BY <1>2, <1>3, <1>4, <1>5

\* A change of root makes the panels of its slot list again, and leaves the others.
LEMMA RootedPanels ==
    ASSUME NEW p \in Panel, NEW x \in Panels, NEW m \in RootMsg, {Home, Top} \subseteq Folder
    PROVE  \/ Rooted(p, x, m) = x /\ (x.slot # m.slot \/ x.pending # None)
           \/ Restless(x, Rooted(p, x, m))
<1>1. CASE x.slot # m.slot \/ x.pending # None
  BY <1>1 DEF Rooted
<1>2. CASE x.slot = m.slot /\ x.pending = None
  <2> DEFINE y == [Discard(x) EXCEPT !.needs = TRUE]
  <2>1. Discard(x) \in Panels /\ Discard(x).gen = x.gen + 1 /\ ~Discard(x).loading
        /\ Discard(x).pending = None
    BY <1>2, Discarding
  <2>2. y \in Panels /\ y.needs /\ y.gen = x.gen + 1 /\ ~y.loading /\ y.pending = None
    BY <2>1 DEF Panels
  <2>3. x.gen \in Nat
    BY DEF Panels
  <2>4. Rooted(p, x, m) \in {y, Navigated(y, Top), Navigated(y, Home)}
    BY <1>2 DEF Rooted
  <2> HIDE DEF y
  <2>5. ASSUME NEW f \in {Top, Home}
        PROVE  /\ Navigated(y, f) \in Panels /\ Navigated(y, f).needs
               /\ Navigated(y, f).gen = y.gen /\ ~Navigated(y, f).loading
               /\ Navigated(y, f).pending = None
    BY <2>2 DEF Navigated, Panels, Path
  <2> QED BY <2>2, <2>3, <2>4, <2>5 DEF Restless
<1> QED BY <1>1, <1>2

\* A listing that comes is shown by a panel that waits for it and names its folder; it
\* ends the waiting of the panel that asked for it, and changes nothing for the others.
LEMMA ListedPanels ==
    ASSUME NEW x \in Panels, NEW m \in ListMsg
    PROVE  /\ Listed(x, m) \in Panels
           /\ Listed(x, m) = [x EXCEPT !.loading = Listed(x, m).loading,
                                       !.shown = Listed(x, m).shown]
           /\ x.gen # m.gen => Listed(x, m) = x
           /\ x.gen = m.gen => ~Listed(x, m).loading
           /\ x.gen = m.gen /\ x.pending = None /\ x.slot = m.slot /\ x.path = m.path =>
                 Listed(x, m).shown = m.shown
  BY DEF Listed, Accepts, Panels, ListMsg

-----------------------------------------------------------------------------
(* The file panels: types. *)

\* The application starts with every variable in its range.
LEMMA PanelsTypedInit ==
    ASSUME NamesAssumption, Init PROVE PanelsTyped
<1>1. Start \in Panels
  BY DEF NamesAssumption, Start, Panels, Path, Entry
<1>2. panel \in [Panel -> Panels] /\ views \in [Panel -> [Slot -> LeftView]]
  BY <1>1 DEF Init, LeftView
<1>3. DevicesTyped
  BY DEF Init, DevicesTyped, Entry
<1>4. queue \in Seq(Task) /\ messages \in Seq(Message) /\ drained \in Seq(Message)
  BY DEF Init
<1>5. WorkerTyped /\ throws \in Nat
  BY DEF Init, WorkerTyped, WorkerPc
<1> QED BY <1>2, <1>3, <1>4, <1>5 DEF PanelsTyped

-----------------------------------------------------------------------------
(* The file panels: clicks, and the panels that the poll thread empties. *)

\* Nothing but the panels changes, and those that change are to list again.
PanelsOnly ==
    /\ panel' \in [Panel -> Panels] /\ views' \in [Panel -> [Slot -> LeftView]]
    /\ \A q \in Panel : panel'[q] = panel[q] \/ Restless(panel[q], panel'[q])
    /\ connected' \in [Slot -> BOOLEAN]
    /\ UNCHANGED <<running, wanted, root, rootPending, cached, queue, worker, messages,
                   drained, ui, throws, missed>>

\* One panel becomes another that is to list again.
LEMMA OnePanel ==
    ASSUME PanelsTyped, NEW p \in Panel, NEW y, Restless(panel[p], y), Change(p, y)
    PROVE  /\ panel' \in [Panel -> Panels]
           /\ \A q \in Panel : panel'[q] = panel[q] \/ Restless(panel[q], panel'[q])
           /\ UNCHANGED <<rootPending, queue, worker>>
<1>1. panel \in [Panel -> Panels] /\ y \in Panels
  BY DEF PanelsTyped, Restless
<1>2. panel' = [panel EXCEPT ![p] = y] /\ UNCHANGED <<rootPending, queue, worker>>
  BY DEF Change
<1> QED BY <1>1, <1>2

\* What is remembered of a device that a panel leaves is a view of it.
LEMMA Remembering ==
    ASSUME PanelsTyped, NEW p \in Panel, NEW x \in Panels
    PROVE  [views EXCEPT ![p] = Remembered(p, x)] \in [Panel -> [Slot -> LeftView]]
<1>1. views \in [Panel -> [Slot -> LeftView]]
  BY DEF PanelsTyped
<1>2. [path |-> x.path, shown |-> x.shown] \in LeftView /\ x.slot \in Slot \cup {None}
  BY DEF LeftView, Panels
<1>3. Remembered(p, x) \in [Slot -> LeftView]
  <2>1. CASE x.slot \in Slot
    BY <1>1, <1>2, <2>1 DEF Remembered
  <2>2. CASE x.slot = None
    BY <1>1, <2>2 DEF Remembered, OnDevice
  <2> QED BY <1>2, <2>1, <2>2
<1> QED BY <1>1, <1>3

\* Going to a folder, and F5.
LEMMA NavigateEffect ==
    ASSUME PanelsTyped, NEW p \in Panel,
           RefreshWanted(p) \/ \E f \in Folder : Navigate(p, f)
    PROVE  PanelsOnly
<1>1. panel[p] \in Panels
  BY DEF PanelsTyped
<1>2. CASE RefreshWanted(p)
  <2> DEFINE y == [panel[p] EXCEPT !.needs = TRUE]
  <2>1. y \in Panels /\ y.needs /\ y.gen = panel[p].gen /\ y.loading = panel[p].loading
        /\ y.slot = panel[p].slot /\ panel[p].gen \in Nat /\ y.pending = panel[p].pending
    BY <1>1 DEF Panels
  <2>2. Restless(panel[p], y)
    BY <2>1 DEF Restless
  <2>3. Act /\ Change(p, y) /\ UNCHANGED views
    BY <1>2 DEF RefreshWanted
  <2>4. /\ panel' \in [Panel -> Panels]
        /\ \A q \in Panel : panel'[q] = panel[q] \/ Restless(panel[q], panel'[q])
        /\ UNCHANGED <<rootPending, queue, worker>>
    BY <2>2, <2>3, OnePanel
  <2> QED BY <2>3, <2>4 DEF PanelsOnly, Act, PanelsTyped, DevicesTyped
<1>3. ASSUME NEW f \in Folder, Navigate(p, f) PROVE PanelsOnly
  <2>1. Restless(panel[p], Navigated(panel[p], f))
    BY <1>1, Navigating DEF Path
  <2>2. Act /\ Change(p, Navigated(panel[p], f)) /\ UNCHANGED views
    BY <1>3 DEF Navigate
  <2>3. /\ panel' \in [Panel -> Panels]
        /\ \A q \in Panel : panel'[q] = panel[q] \/ Restless(panel[q], panel'[q])
        /\ UNCHANGED <<rootPending, queue, worker>>
    BY <2>1, <2>2, OnePanel
  <2> QED BY <2>2, <2>3 DEF PanelsOnly, Act, PanelsTyped, DevicesTyped
<1> QED BY <1>2, <1>3

\* "This PC", and a device that is not connected yet: the listing under way is dropped.
LEMMA LeaveEffect ==
    ASSUME NamesAssumption, PanelsTyped, NEW p \in Panel,
           ShowPc(p) \/ \E s \in Slot : AwaitDevice(p, s)
    PROVE  PanelsOnly
<1>1. panel[p] \in Panels /\ panel[p].gen \in Nat
  BY DEF PanelsTyped, Panels
<1>2. Discard(panel[p]) \in Panels /\ Discard(panel[p]).gen = panel[p].gen + 1
      /\ ~Discard(panel[p]).loading /\ Discard(panel[p]).slot = panel[p].slot
  BY <1>1, Discarding
<1>3. CASE ShowPc(p)
  <2> DEFINE y == [Discard(panel[p]) EXCEPT !.slot = None, !.path = None, !.shown = None,
                                            !.pending = None, !.needs = TRUE]
  <2>1. y \in Panels /\ y.needs /\ y.gen = panel[p].gen + 1 /\ ~y.loading /\ y.pending = None
    BY <1>2 DEF Panels, Path, Entry
  <2>2. Restless(panel[p], y)
    BY <1>1, <2>1 DEF Restless
  <2>3. Act /\ Change(p, y) /\ views' = [views EXCEPT ![p] = Remembered(p, panel[p])]
    BY <1>3 DEF ShowPc
  <2>4. /\ panel' \in [Panel -> Panels]
        /\ \A q \in Panel : panel'[q] = panel[q] \/ Restless(panel[q], panel'[q])
        /\ UNCHANGED <<rootPending, queue, worker>>
    BY <2>2, <2>3, OnePanel
  <2>5. views' \in [Panel -> [Slot -> LeftView]]
    BY <1>1, <2>3, Remembering
  <2> QED BY <2>3, <2>4, <2>5 DEF PanelsOnly, Act, PanelsTyped, DevicesTyped
<1>4. ASSUME NEW s \in Slot, AwaitDevice(p, s) PROVE PanelsOnly
  <2> DEFINE y == [Discard(panel[p]) EXCEPT !.shown = None, !.path = Home, !.needs = TRUE,
                                            !.pending = s]
  <2>1. y \in Panels /\ y.needs /\ y.gen = panel[p].gen + 1 /\ ~y.loading
        /\ y.slot = panel[p].slot
    BY <1>2 DEF Panels, Path, Entry, NamesAssumption
  <2>0. panel[p].slot # None
    BY <1>4 DEF AwaitDevice, OnDevice
  <2>2. Restless(panel[p], y)
    BY <1>1, <2>0, <2>1 DEF Restless, OnDevice
  <2>3. Act /\ Change(p, y) /\ views' = [views EXCEPT ![p] = Remembered(p, panel[p])]
    BY <1>4 DEF AwaitDevice
  <2>4. /\ panel' \in [Panel -> Panels]
        /\ \A q \in Panel : panel'[q] = panel[q] \/ Restless(panel[q], panel'[q])
        /\ UNCHANGED <<rootPending, queue, worker>>
    BY <2>2, <2>3, OnePanel
  <2>5. views' \in [Panel -> [Slot -> LeftView]]
    BY <1>1, <2>3, Remembering
  <2> QED BY <2>3, <2>4, <2>5 DEF PanelsOnly, Act, PanelsTyped, DevicesTyped
<1> QED BY <1>3, <1>4

\* The menu of locations: a panel that waited for its own device waits no more, and is
\* to list; any other opens the session.
LEMMA ShowDeviceEffect ==
    ASSUME NamesAssumption, PanelsTyped, WaitsToList, NEW p \in Panel, NEW s \in Slot,
           ShowDevice(p, s)
    PROVE  PanelsOnly
<1> DEFINE x == [panel[p] EXCEPT !.pending = None]
<1>1. panel[p] \in Panels /\ panel[p].gen \in Nat
  BY DEF PanelsTyped, Panels
<1>2. x \in Panels /\ x.gen = panel[p].gen /\ x.slot = panel[p].slot /\ x.pending = None
      /\ x.needs = panel[p].needs /\ x.loading = panel[p].loading
  BY <1>1 DEF Panels
<1>3. /\ Act /\ Change(p, Opened(p, x, s))
      /\ panel[p].slot # s \/ panel[p].pending # None
      /\ views' = IF x.slot = s THEN views ELSE [views EXCEPT ![p] = Remembered(p, x)]
  BY DEF ShowDevice
<1> HIDE DEF x
<1>4. Restless(panel[p], Opened(p, x, s))
  <2>1. CASE x.slot = s
    <3>1. Opened(p, x, s) = x
      BY <1>2, <2>1 DEF Opened
    <3>2. x.needs
      BY <1>2, <1>3, <2>1 DEF WaitsToList
    <3> QED BY <1>1, <1>2, <3>1, <3>2 DEF Restless
  <2>2. CASE x.slot # s
    <3>1. Restless(x, Opened(p, x, s))
      BY <1>2, <2>2, Opening DEF NamesAssumption
    <3> QED BY <1>2, <3>1 DEF Restless
  <2> QED BY <2>1, <2>2
<1>5. /\ panel' \in [Panel -> Panels]
      /\ \A q \in Panel : panel'[q] = panel[q] \/ Restless(panel[q], panel'[q])
      /\ UNCHANGED <<rootPending, queue, worker>>
  BY <1>3, <1>4, OnePanel
<1>6. views' \in [Panel -> [Slot -> LeftView]]
  BY <1>2, <1>3, Remembering DEF PanelsTyped
<1> QED BY <1>3, <1>5, <1>6 DEF PanelsOnly, Act, PanelsTyped, DevicesTyped

\* A connection that is found lost: the panels of session 0 are emptied.
LEMMA NoticeEffect ==
    ASSUME PanelsTyped, NEW s \in Slot, Notice(s)
    PROVE  PanelsOnly
<1>1. panel \in [Panel -> Panels]
  BY DEF PanelsTyped
<1> DEFINE y(q) == [panel[q] EXCEPT !.shown = None, !.needs = TRUE]
<1>2. ASSUME NEW q \in Panel PROVE y(q) \in Panels /\ Restless(panel[q], y(q))
  <2>1. /\ y(q) \in Panels /\ y(q).needs /\ y(q).gen = panel[q].gen /\ panel[q].gen \in Nat
        /\ y(q).loading = panel[q].loading /\ y(q).slot = panel[q].slot
        /\ y(q).pending = panel[q].pending
    BY <1>1 DEF Panels, Entry
  <2> QED BY <2>1 DEF Restless
<1>3. panel' = [q \in Panel |-> IF s = Primary /\ panel[q].slot = s THEN y(q) ELSE panel[q]]
  BY DEF Notice
<1> HIDE DEF y
<1>4. /\ panel' \in [Panel -> Panels]
      /\ \A q \in Panel : panel'[q] = panel[q] \/ Restless(panel[q], panel'[q])
  BY <1>1, <1>2, <1>3
<1>5. connected' \in [Slot -> BOOLEAN]
  BY DEF Notice, PanelsTyped, DevicesTyped
<1> QED BY <1>4, <1>5 DEF PanelsOnly, Notice, PanelsTyped

-----------------------------------------------------------------------------
(* The file panels: what keeps the parts of the invariant. *)

\* A message is of one of four kinds.
LEMMA Kinds ==
    ASSUME NEW m \in Message
    PROVE  /\ m.kind \in {"list", "ready", "denied", "root"}
           /\ m.kind = "list" => m \in ListMsg
           /\ m.kind = "ready" => m \in ReadyMsg
           /\ m.kind = "denied" => m \in DeniedMsg
           /\ m.kind = "root" => m \in RootMsg
  BY DEF Message, ListMsg, ReadyMsg, DeniedMsg, RootMsg

\* What is listed names a panel, a device and a folder.
LEMMA ListsTyped ==
    ASSUME PanelsTyped, NEW t \in Lists
    PROVE  t.panel \in Panel /\ t.slot \in Slot /\ t.path \in Path /\ t.gen \in Nat
<1>1. ASSUME t \in Task PROVE t.panel \in Panel /\ t.slot \in Slot /\ t.path \in Path /\ t.gen \in Nat
  BY <1>1 DEF Task
<1>2. ASSUME t \in Message PROVE t.panel \in Panel /\ t.slot \in Slot /\ t.path \in Path /\ t.gen \in Nat
  <2>1. t.kind = "list"
    BY DEF Lists
  <2>2. t \in ListMsg
    BY <1>2, <2>1, Kinds
  <2> QED BY <2>2 DEF ListMsg
<1>3. Range(queue) \subseteq Task
  <2>1. queue \in Seq(Task)
    BY DEF PanelsTyped
  <2> QED BY <2>1 DEF Range
<1>4. Range(messages) \subseteq Message /\ Range(drained) \subseteq Message
  <2>1. messages \in Seq(Message) /\ drained \in Seq(Message)
    BY DEF PanelsTyped
  <2> QED BY <2>1 DEF Range
<1>5. Fetching \subseteq Task
  BY DEF Fetching, PanelsTyped, WorkerTyped
<1> QED BY <1>1, <1>2, <1>3, <1>4, <1>5 DEF Lists

\* The same request.
Same(t, u) == t.panel = u.panel /\ t.slot = u.slot /\ t.path = u.path /\ t.gen = u.gen

\* No listing appears, and panels change only to list again: what is on its way goes on
\* being of the panel's device and folder.
LEMMA MatchKept ==
    ASSUME PanelsTyped, RequestsMatch, ui' = "runs" => ui = "runs",
           \A q \in Panel : panel'[q] = panel[q] \/ Restless(panel[q], panel'[q]),
           \A t \in Lists' : \E u \in Lists : Same(t, u)
    PROVE  RequestsMatch'
<1> SUFFICES ASSUME ui' = "runs", NEW t \in Lists'
             PROVE  /\ t.gen <= panel'[t.panel].gen
                    /\ t.gen = panel'[t.panel].gen =>
                          /\ t.slot = panel'[t.panel].slot
                          /\ t.path = panel'[t.panel].path \/ panel'[t.panel].needs
  BY DEF RequestsMatch
<1>1. PICK u \in Lists : Same(t, u)
  OBVIOUS
<1>2. u.panel \in Panel /\ u.gen \in Nat
  BY ListsTyped
<1>3. /\ u.gen <= panel[u.panel].gen
      /\ u.gen = panel[u.panel].gen =>
            u.slot = panel[u.panel].slot /\ (u.path = panel[u.panel].path \/ panel[u.panel].needs)
  BY DEF RequestsMatch
<1>4. panel[u.panel].gen \in Nat
  BY <1>2 DEF PanelsTyped, Panels
<1>5. t.panel = u.panel /\ t.slot = u.slot /\ t.path = u.path /\ t.gen = u.gen
  BY <1>1 DEF Same
<1>6. CASE panel'[u.panel] = panel[u.panel]
  BY <1>3, <1>5, <1>6
<1>7. CASE Restless(panel[u.panel], panel'[u.panel])
  <2>1. /\ panel'[u.panel].gen \in Nat /\ panel'[u.panel].needs
        /\ panel'[u.panel].gen >= panel[u.panel].gen
        /\ panel'[u.panel].gen = panel[u.panel].gen => panel'[u.panel].slot = panel[u.panel].slot
    BY <1>7 DEF Restless, Panels
  <2> QED BY <1>2, <1>3, <1>4, <1>5, <2>1
<1> QED BY <1>2, <1>6, <1>7

\* No listing is lost, and panels change only to list again: who waits does not wait in
\* vain.
LEMMA AwaitKept ==
    ASSUME AwaitedIsComing, throws' = throws,
           \A q \in Panel : panel'[q] = panel[q] \/ Restless(panel[q], panel'[q]),
           \A t \in Lists : \E u \in Lists' : Same(t, u)
    PROVE  AwaitedIsComing'
<1> SUFFICES ASSUME NEW p \in Panel, panel'[p].loading, ~(throws' > 0)
             PROVE  \E u \in Lists' : u.panel = p /\ u.gen = panel'[p].gen
  BY DEF AwaitedIsComing, Lists
<1>1. panel[p].loading /\ panel'[p].gen = panel[p].gen
  BY DEF Restless
<1>2. PICK t \in Lists : t.panel = p /\ t.gen = panel[p].gen
  BY <1>1 DEF AwaitedIsComing, Lists
<1> QED BY <1>1, <1>2 DEF Same

\* The server does not change, nothing it has told is lost, and panels change only to
\* list again: what a panel shows stays what the server would list.
LEMMA CurrentKept ==
    ASSUME PanelsCurrent, root' = root,
           \A q \in Panel : panel'[q] = panel[q] \/ Restless(panel[q], panel'[q]),
           \A q \in Panel : OnDevice(panel[q]) /\ (Told(drained, panel[q].slot, 0)
                                                     \/ Told(messages, panel[q].slot, 0)) =>
              \/ panel'[q].needs
              \/ Told(drained', panel[q].slot, 0) \/ Told(messages', panel[q].slot, 0)
    PROVE  PanelsCurrent'
<1> SUFFICES ASSUME NEW p \in Panel, OnDevice(panel'[p]), ~panel'[p].needs, ~panel'[p].loading
             PROVE  \/ Current(panel[p].shown, panel[p].slot, panel[p].path)'
                    \/ Told(drained', panel'[p].slot, 0) \/ Told(messages', panel'[p].slot, 0)
  BY DEF PanelsCurrent, OnDevice, Current, Listing, Told, Restart
<1>1. panel'[p] = panel[p]
  BY DEF Restless
<1>2. \/ Current(panel[p].shown, panel[p].slot, panel[p].path)
      \/ Told(drained, panel[p].slot, 0) \/ Told(messages, panel[p].slot, 0)
  BY <1>1 DEF PanelsCurrent, OnDevice
<1>3. CASE Current(panel[p].shown, panel[p].slot, panel[p].path)
  BY <1>1, <1>3 DEF Current, Listing
<1>4. CASE Told(drained, panel[p].slot, 0) \/ Told(messages, panel[p].slot, 0)
  BY <1>1, <1>4 DEF OnDevice
<1> QED BY <1>2, <1>3, <1>4

\* Panels that wait for a device still list when it is there.
LEMMA WaitKept ==
    ASSUME WaitsToList,
           \A q \in Panel : panel'[q] = panel[q] \/ Restless(panel[q], panel'[q])
    PROVE  WaitsToList'
  BY DEF WaitsToList, Restless, OnDevice

\* The messages are what they were, and so is the server.
LEMMA QueuesKept ==
    ASSUME MessagesCurrent, DrainedCurrent, UNCHANGED <<messages, drained, root>>
    PROVE  MessagesCurrent' /\ DrainedCurrent'
<1>1. MessagesCurrent'
  BY DEF MessagesCurrent, Current, Listing, Told, Restart
<1>2. DrainedCurrent'
  BY DEF DrainedCurrent, Current, Listing, Told, Restart
<1> QED BY <1>1, <1>2

\* A step of the panels alone keeps the invariant.
LEMMA PanelsOnlyKept ==
    ASSUME PanelsInv, ui = "runs", PanelsOnly
    PROVE  PanelsInv'
<1>1. PanelsTyped'
  BY DEF PanelsOnly, PanelsInv, PanelsTyped, DevicesTyped, WorkerTyped
<1>2. Lists' = Lists
  BY DEF PanelsOnly, Lists, Fetching
<1>3. \A t \in Lists : \E u \in Lists : Same(t, u)
  BY DEF Same
<1>4. RequestsMatch'
  BY <1>2, <1>3, MatchKept DEF PanelsInv, PanelsOnly
<1>5. AwaitedIsComing'
  BY <1>2, <1>3, AwaitKept DEF PanelsInv, PanelsOnly
<1>6. PanelsCurrent'
  <2>1. /\ root' = root /\ drained' = drained /\ messages' = messages
        /\ \A q \in Panel : panel'[q] = panel[q] \/ Restless(panel[q], panel'[q])
    BY DEF PanelsOnly
  <2> QED BY <2>1, CurrentKept DEF PanelsInv
<1>7. WaitsToList'
  BY WaitKept DEF PanelsInv, PanelsOnly
<1>8. MessagesCurrent' /\ DrainedCurrent'
  BY QueuesKept DEF PanelsInv, PanelsOnly
<1>9. NothingQueued' /\ Forgotten'
  BY DEF PanelsInv, PanelsOnly, NothingQueued, Forgotten
<1> QED BY <1>1, <1>4, <1>5, <1>6, <1>7, <1>8, <1>9 DEF PanelsInv

\* Nothing that a panel shows or waits for changes: a step of the threads alone.
LEMMA QuietKept ==
    ASSUME PanelsInv, PanelsTyped', NothingQueued', Forgotten', Lists' = Lists,
           ui' = "runs" => ui = "runs",
           UNCHANGED <<panel, messages, drained, root, throws>>
    PROVE  PanelsInv'
<1>1. \A t \in Lists : \E u \in Lists : Same(t, u)
  BY DEF Same
<1>2. RequestsMatch'
  BY <1>1, MatchKept DEF PanelsInv
<1>3. AwaitedIsComing'
  BY <1>1, AwaitKept DEF PanelsInv
<1>4. PanelsCurrent'
  BY CurrentKept DEF PanelsInv
<1>5. WaitsToList'
  BY WaitKept DEF PanelsInv
<1>6. MessagesCurrent' /\ DrainedCurrent'
  BY QueuesKept DEF PanelsInv
<1> QED BY <1>2, <1>3, <1>4, <1>5, <1>6 DEF PanelsInv

\* A message is posted: the server is what it was, but for a device whose panels the
\* message makes list again; and a listing that is posted is of the server of now.
LEMMA PostKept ==
    ASSUME PanelsTyped, MessagesCurrent, DrainedCurrent, PanelsCurrent,
           NEW e \in Message, messages' = Append(messages, e), UNCHANGED <<panel, drained>>,
           \A s \in Slot : root'[s] = root[s] \/ Restart(e, s),
           e.kind = "list" => Current(e.shown, e.slot, e.path)'
    PROVE  MessagesCurrent' /\ DrainedCurrent' /\ PanelsCurrent'
<1>1. /\ messages \in Seq(Message) /\ Len(messages) \in Nat
      /\ DOMAIN messages = 1..Len(messages) /\ DOMAIN messages' = 1..(Len(messages) + 1)
      /\ messages'[Len(messages) + 1] = e
      /\ \A i \in 1..Len(messages) : messages'[i] = messages[i] /\ messages[i] \in Message
  BY DEF PanelsTyped
<1>2. \A s : \A i \in 0..Len(messages) : Told(messages', s, i) <=> Told(messages, s, i) \/ Restart(e, s)
  <2> SUFFICES ASSUME NEW s, NEW i \in 0..Len(messages)
               PROVE  Told(messages', s, i) <=> Told(messages, s, i) \/ Restart(e, s)
    OBVIOUS
  <2>1. i \in Nat /\ i <= Len(messages)
    BY <1>1
  <2> QED BY <1>1, <2>1, AppendedTold
<1>3. ASSUME NEW s \in Slot, NEW f, NEW shown, Current(shown, s, f)
      PROVE  Current(shown, s, f)' \/ Restart(e, s)
  BY <1>3 DEF Current, Listing
<1>4. MessagesCurrent'
  <2> SUFFICES ASSUME NEW i \in 1..(Len(messages) + 1), messages'[i].kind = "list"
               PROVE  \/ Current(messages[i].shown, messages[i].slot, messages[i].path)'
                      \/ Told(messages', messages'[i].slot, i)
    BY <1>1 DEF MessagesCurrent, Told, Restart
  <2>1. CASE i = Len(messages) + 1
    BY <2>1, <1>1
  <2>2. CASE i # Len(messages) + 1
    <3>1. i \in 1..Len(messages) /\ messages'[i] = messages[i] /\ messages[i] \in ListMsg
      BY <2>2, <1>1, Kinds
    <3>2. messages[i].slot \in Slot
      BY <3>1 DEF ListMsg
    <3>3. \/ Current(messages[i].shown, messages[i].slot, messages[i].path)
          \/ Told(messages, messages[i].slot, i)
      BY <3>1, <1>1 DEF MessagesCurrent
    <3>4. Told(messages', messages[i].slot, i)
            <=> Told(messages, messages[i].slot, i) \/ Restart(e, messages[i].slot)
      BY <3>1, <1>1, <1>2
    <3> QED BY <3>1, <3>2, <3>3, <3>4, <1>3
  <2> QED BY <2>1, <2>2
<1>5. DrainedCurrent'
  <2>1. drained \in Seq(Message)
    BY DEF PanelsTyped
  <2> SUFFICES ASSUME NEW i \in DOMAIN drained, drained[i].kind = "list"
               PROVE  \/ Current(drained[i].shown, drained[i].slot, drained[i].path)'
                      \/ Told(drained, drained[i].slot, i)
                      \/ Told(messages', drained[i].slot, 0)
    BY DEF DrainedCurrent, Told, Restart
  <2>2. drained[i] \in ListMsg
    BY <2>1, Kinds
  <2>3. drained[i].slot \in Slot
    BY <2>2 DEF ListMsg
  <2>4. \/ Current(drained[i].shown, drained[i].slot, drained[i].path)
        \/ Told(drained, drained[i].slot, i) \/ Told(messages, drained[i].slot, 0)
    BY DEF DrainedCurrent
  <2>5. Told(messages', drained[i].slot, 0)
          <=> Told(messages, drained[i].slot, 0) \/ Restart(e, drained[i].slot)
    BY <1>1, <1>2
  <2> QED BY <2>3, <2>4, <2>5, <1>3
<1>6. PanelsCurrent'
  <2> SUFFICES ASSUME NEW p \in Panel, OnDevice(panel[p]), ~panel[p].needs, ~panel[p].loading
               PROVE  \/ Current(panel[p].shown, panel[p].slot, panel[p].path)'
                      \/ Told(drained, panel[p].slot, 0) \/ Told(messages', panel[p].slot, 0)
    BY DEF PanelsCurrent, OnDevice, Told, Restart
  <2>1. panel[p].slot \in Slot
    BY DEF PanelsTyped, Panels, OnDevice
  <2>2. \/ Current(panel[p].shown, panel[p].slot, panel[p].path)
        \/ Told(drained, panel[p].slot, 0) \/ Told(messages, panel[p].slot, 0)
    BY DEF PanelsCurrent
  <2>3. Told(messages', panel[p].slot, 0)
          <=> Told(messages, panel[p].slot, 0) \/ Restart(e, panel[p].slot)
    BY <1>1, <1>2
  <2> QED BY <2>1, <2>2, <2>3, <1>3
<1> QED BY <1>4, <1>5, <1>6

-----------------------------------------------------------------------------
(* The file panels: the worker. *)

\* What is in the queues, as sets.
LEMMA QueueTypes ==
    ASSUME PanelsTyped
    PROVE  /\ queue \in Seq(Task) /\ messages \in Seq(Message) /\ drained \in Seq(Message)
           /\ Range(queue) \subseteq Task /\ Range(messages) \subseteq Message
           /\ Range(drained) \subseteq Message
<1>1. queue \in Seq(Task) /\ messages \in Seq(Message) /\ drained \in Seq(Message)
  BY DEF PanelsTyped
<1> QED BY <1>1 DEF Range

\* The worker leaves its loop or goes to sleep: it was fetching nothing.
LEMMA WorkerWaitsKept ==
    ASSUME PanelsInv, Exit \/ Doze \/ Sleep
    PROVE  PanelsInv'
<1>1. /\ worker.pc \in {"test", "dozing"}
      /\ \E pc \in {"exited", "dozing", "asleep"} : worker' = [worker EXCEPT !.pc = pc]
      /\ UNCHANGED <<panel, views, rootPending, wanted, drained, ui, acts, missed>>
      /\ UNCHANGED <<connected, running, root, cached, queue, messages, losses, throws>>
  BY DEF Exit, Doze, Sleep, Step, Working
<1>2. worker \in [pc : WorkerPc, task : {None} \cup Task]
  BY DEF PanelsInv, PanelsTyped, WorkerTyped
<1>3. worker' \in [pc : WorkerPc, task : {None} \cup Task] /\ worker'.pc \in {"exited", "dozing", "asleep"}
  BY <1>1, <1>2 DEF WorkerPc
<1>4. PanelsTyped'
  BY <1>1, <1>3 DEF PanelsInv, PanelsTyped, DevicesTyped, WorkerTyped
<1>5. NothingQueued'
  BY <1>2 DEF PanelsInv, NothingQueued, Exit, Doze, Sleep, Step, Working, WorkerPc
<1>6. Lists' = Lists
  BY <1>1, <1>3 DEF Lists, Fetching
<1>7. Forgotten'
  BY <1>1 DEF PanelsInv, Forgotten
<1> QED BY <1>1, <1>4, <1>5, <1>6, <1>7, QuietKept

\* The worker takes the oldest task.
LEMMA TakeKept ==
    ASSUME PanelsInv, Take
    PROVE  PanelsInv'
<1>1. /\ worker.pc = "test" /\ queue # <<>>
      /\ worker' = [pc |-> "run", task |-> Head(queue)] /\ queue' = Tail(queue)
      /\ UNCHANGED <<panel, views, rootPending, wanted, drained, ui, acts, missed>>
      /\ UNCHANGED <<connected, running, root, cached, messages, losses, throws>>
  BY DEF Take, Working
<1>2. PanelsTyped /\ queue \in Seq(Task)
  BY DEF PanelsInv, PanelsTyped
<1>3. /\ Tail(queue) \in Seq(Task) /\ Head(queue) \in Task
      /\ Range(queue) = {Head(queue)} \cup Range(Tail(queue))
  BY <1>1, <1>2, HeadAndTail
<1>4. WorkerTyped'
  BY <1>1, <1>3 DEF WorkerTyped, WorkerPc
<1>5. PanelsTyped'
  BY <1>1, <1>2, <1>3, <1>4 DEF PanelsTyped, DevicesTyped
<1>6. Lists' = Lists
  <2>1. Fetching = {} /\ Fetching' = {Head(queue)}
    BY <1>1 DEF Fetching
  <2>2. Range(queue) \cup Fetching = Range(queue') \cup Fetching'
    BY <1>1, <1>3, <2>1
  <2> QED BY <1>1, <2>2 DEF Lists
<1>7. NothingQueued' /\ Forgotten'
  BY <1>1 DEF PanelsInv, NothingQueued, Forgotten
<1> QED BY <1>1, <1>5, <1>6, <1>7, QuietKept

\* A task that ends: the worker is back at its test.
LEMMA FinishFacts ==
    ASSUME PanelsInv, Finish
    PROVE  /\ worker' = [pc |-> "test", task |-> None] /\ WorkerTyped' /\ Fetching' = {}
           /\ UNCHANGED <<panel, views, rootPending, wanted, drained, ui, acts, missed, queue>>
           /\ NothingQueued' /\ Forgotten'
<1>1. /\ worker' = [pc |-> "test", task |-> None]
      /\ UNCHANGED <<panel, views, rootPending, wanted, drained, ui, acts, missed, queue>>
  BY DEF Finish, Working
<1>2. WorkerTyped' /\ Fetching' = {}
  BY <1>1 DEF WorkerTyped, WorkerPc, Fetching
<1>3. NothingQueued' /\ Forgotten'
  BY <1>1 DEF PanelsInv, NothingQueued, Forgotten
<1> QED BY <1>1, <1>2, <1>3

\* A listing that comes back is of the server of now, or nothing.
LEMMA ListKept ==
    ASSUME PanelsInv, List
    PROVE  PanelsInv'
<1>0. PICK t : t = worker.task
  OBVIOUS
<1>1a. PICK shown \in {None} \cup (IF running[t.slot] THEN {Listing(t.slot, t.path)} ELSE {}) :
          PostUi([kind |-> "list", panel |-> t.panel, slot |-> t.slot, path |-> t.path,
                  gen |-> t.gen, shown |-> shown])
  BY <1>0 DEF List
<1>1b. PICK e : e = [kind |-> "list", panel |-> t.panel, slot |-> t.slot, path |-> t.path,
                     gen |-> t.gen, shown |-> shown]
  OBVIOUS
<1>1. /\ shown \in {None} \cup (IF running[t.slot] THEN {Listing(t.slot, t.path)} ELSE {})
      /\ e = [kind |-> "list", panel |-> t.panel, slot |-> t.slot, path |-> t.path,
              gen |-> t.gen, shown |-> shown]
      /\ PostUi(e)
  BY <1>1a, <1>1b
<1>2. /\ worker.pc = "run" /\ t.kind = "list" /\ Finish
      /\ UNCHANGED <<connected, running, root, cached, losses, throws>>
  BY <1>0 DEF List
<1>3. t \in Task
  BY <1>0, <1>2 DEF PanelsInv, PanelsTyped, WorkerTyped
<1>4. Current(shown, t.slot, t.path) /\ Current(shown, t.slot, t.path)'
  BY <1>1, <1>2 DEF Current, Listing
<1>5. shown \in Entry
  <2>1. root[t.slot] \in BOOLEAN
    BY <1>3 DEF Task, PanelsInv, PanelsTyped, DevicesTyped
  <2> QED BY <1>3, <1>4, <2>1 DEF Current, Listing, Entry, Task
<1>6. e \in ListMsg
  BY <1>1, <1>3, <1>5 DEF Task, ListMsg
<1>7. e \in Message /\ messages' = Append(messages, e) /\ messages \in Seq(Message)
  BY <1>1, <1>6 DEF Message, PostUi, PanelsInv, PanelsTyped
<1>8. /\ worker' = [pc |-> "test", task |-> None] /\ WorkerTyped' /\ Fetching' = {}
      /\ UNCHANGED <<panel, views, rootPending, wanted, drained, ui, acts, missed, queue>>
      /\ NothingQueued' /\ Forgotten'
  BY <1>2, FinishFacts
<1>9. messages' \in Seq(Message) /\ Range(messages') = Range(messages) \cup {e}
  BY <1>7, AppendedRange
<1>10. PanelsTyped'
  BY <1>2, <1>8, <1>9 DEF PanelsInv, PanelsTyped, DevicesTyped
<1>11. e.kind = "list" /\ Same(t, e) /\ e.shown = shown /\ e.slot = t.slot /\ e.path = t.path
  BY <1>1 DEF Same
<1>12. Fetching = {t}
  BY <1>0, <1>2 DEF Fetching
<1>13. \A u \in Lists' : \E v \in Lists : Same(u, v)
  <2>1. ASSUME NEW u \in Lists' PROVE u \in Lists \/ u = e
    BY <1>8, <1>9 DEF Lists
  <2>2. t \in Lists
    BY <1>2, <1>12 DEF Lists
  <2> QED BY <2>1, <2>2, <1>11 DEF Same
<1>14. \A u \in Lists : \E v \in Lists' : Same(u, v)
  <2>1. ASSUME NEW u \in Lists PROVE u \in Lists' \/ u = t
    BY <1>8, <1>9, <1>12 DEF Lists
  <2>2. e \in Lists'
    BY <1>9, <1>11 DEF Lists
  <2> QED BY <2>1, <2>2, <1>11 DEF Same
<1>15. RequestsMatch' /\ AwaitedIsComing' /\ WaitsToList'
  BY <1>2, <1>8, <1>13, <1>14, MatchKept, AwaitKept, WaitKept DEF PanelsInv
<1>16. MessagesCurrent' /\ DrainedCurrent' /\ PanelsCurrent'
  <2>1. Current(e.shown, e.slot, e.path)'
    BY <1>4, <1>11
  <2> QED BY <1>2, <1>7, <1>8, <2>1, PostKept DEF PanelsInv
<1> QED BY <1>8, <1>10, <1>15, <1>16 DEF PanelsInv

\* A task that ends in an exception: no listing, and "throws" says so.
LEMMA ThrowKept ==
    ASSUME PanelsInv, Throw
    PROVE  PanelsInv'
<1>1. /\ worker.pc = "run" /\ throws' = throws + 1 /\ Finish
      /\ UNCHANGED <<connected, running, root, cached, messages, losses>>
  BY DEF Throw
<1>2. /\ WorkerTyped' /\ Fetching' = {}
      /\ UNCHANGED <<panel, views, rootPending, wanted, drained, ui, acts, missed, queue>>
      /\ NothingQueued' /\ Forgotten'
  BY <1>1, FinishFacts
<1>3. PanelsTyped'
  BY <1>1, <1>2 DEF PanelsInv, PanelsTyped, DevicesTyped
<1>4. \A u \in Lists' : \E v \in Lists : Same(u, v)
  BY <1>1, <1>2 DEF Lists, Same
<1>5. RequestsMatch' /\ WaitsToList'
  BY <1>2, <1>4, MatchKept, WaitKept DEF PanelsInv
<1>6. throws' > 0
  BY <1>1 DEF PanelsInv, PanelsTyped
<1>7. AwaitedIsComing'
  BY <1>6 DEF AwaitedIsComing
<1>8. PanelsCurrent'
  BY <1>1, <1>2, CurrentKept DEF PanelsInv
<1>9. MessagesCurrent' /\ DrainedCurrent'
  BY <1>1, <1>2, QueuesKept DEF PanelsInv
<1> QED BY <1>2, <1>3, <1>5, <1>7, <1>8, <1>9 DEF PanelsInv

\* The end of a root request, whatever came of it: the message that is posted makes the
\* device's panels list again, if the server has been restarted.
LEMMA RootEndsKept ==
    ASSUME PanelsInv, Finish, worker.pc \in {"run", "restart"}, worker.task.kind = "root",
           NEW e \in DeniedMsg \cup RootMsg, PostUi(e),
           connected' \in [Slot -> BOOLEAN], running' \in [Slot -> BOOLEAN],
           root' \in [Slot -> BOOLEAN], cached' \in [Slot -> Entry], throws' = throws,
           \A s \in Slot : root'[s] = root[s] \/ Restart(e, s)
    PROVE  PanelsInv'
<1>1. /\ WorkerTyped' /\ Fetching' = {}
      /\ UNCHANGED <<panel, views, rootPending, wanted, drained, ui, acts, missed, queue>>
      /\ NothingQueued' /\ Forgotten'
  BY FinishFacts
<1>2. e \in Message /\ e.kind # "list" /\ messages' = Append(messages, e) /\ messages \in Seq(Message)
  BY DEF Message, DeniedMsg, RootMsg, PostUi, PanelsInv, PanelsTyped
<1>3. messages' \in Seq(Message) /\ Range(messages') = Range(messages) \cup {e}
  BY <1>2, AppendedRange
<1>4. PanelsTyped'
  BY <1>1, <1>3 DEF PanelsInv, PanelsTyped, DevicesTyped
<1>5. Lists' = Lists
  BY <1>1, <1>2, <1>3 DEF Lists, Fetching
<1>6. \A t \in Lists : \E u \in Lists : Same(t, u)
  BY DEF Same
<1>7. RequestsMatch' /\ AwaitedIsComing' /\ WaitsToList'
  BY <1>1, <1>5, <1>6, MatchKept, AwaitKept, WaitKept DEF PanelsInv
<1>8. MessagesCurrent' /\ DrainedCurrent' /\ PanelsCurrent'
  BY <1>1, <1>2, PostKept DEF PanelsInv
<1> QED BY <1>1, <1>4, <1>7, <1>8 DEF PanelsInv

\* The server of a device comes up or goes down.
LEMMA ServerTypes ==
    ASSUME NamesAssumption, PanelsTyped, NEW s \in Slot,
           Down(s) \/ \E mode \in BOOLEAN : Up(s, mode)
    PROVE  /\ connected' \in [Slot -> BOOLEAN] /\ running' \in [Slot -> BOOLEAN]
           /\ root' \in [Slot -> BOOLEAN] /\ cached' \in [Slot -> Entry]
           /\ \A r \in Slot : root'[r] = root[r] \/ r = s
<1>1. /\ connected \in [Slot -> BOOLEAN] /\ running \in [Slot -> BOOLEAN]
      /\ root \in [Slot -> BOOLEAN] /\ cached \in [Slot -> Entry]
  BY DEF PanelsTyped, DevicesTyped
<1>2. CASE Down(s)
  BY <1>1, <1>2 DEF Down
<1>3. ASSUME NEW mode \in BOOLEAN, Up(s, mode)
      PROVE  /\ connected' \in [Slot -> BOOLEAN] /\ running' \in [Slot -> BOOLEAN]
             /\ root' \in [Slot -> BOOLEAN] /\ cached' \in [Slot -> Entry]
             /\ \A r \in Slot : root'[r] = root[r] \/ r = s
  <2>1. [slot |-> s, path |-> Home, root |-> mode] \in Entry
    BY DEF Entry, Path, NamesAssumption
  <2> QED BY <1>1, <1>3, <2>1 DEF Up
<1> QED BY <1>2, <1>3

\* Root is not to be had.
LEMMA DenyRootKept ==
    ASSUME PanelsInv, DenyRoot
    PROVE  PanelsInv'
<1>1. PICK t : t = worker.task
  OBVIOUS
<1>2. PICK e : e = [kind |-> "denied", slot |-> t.slot, root |-> running[t.slot] /\ root[t.slot]]
  OBVIOUS
<1>3. /\ worker.pc = "run" /\ t.kind = "root" /\ Finish /\ PostUi(e)
      /\ connected' = [connected EXCEPT ![t.slot] = running[t.slot]]
      /\ UNCHANGED <<running, root, cached, losses, throws>>
  BY <1>1, <1>2 DEF DenyRoot
<1>4. /\ connected \in [Slot -> BOOLEAN] /\ running \in [Slot -> BOOLEAN]
      /\ root \in [Slot -> BOOLEAN] /\ cached \in [Slot -> Entry]
  BY DEF PanelsInv, PanelsTyped, DevicesTyped
<1>5. t \in Task /\ t.slot \in Slot
  BY <1>1, <1>3 DEF PanelsInv, PanelsTyped, WorkerTyped, Task
<1>6. e \in DeniedMsg
  BY <1>2, <1>4, <1>5 DEF DeniedMsg
<1>7. connected' \in [Slot -> BOOLEAN] /\ running' \in [Slot -> BOOLEAN]
      /\ root' \in [Slot -> BOOLEAN] /\ cached' \in [Slot -> Entry]
      /\ \A s \in Slot : root'[s] = root[s] \/ Restart(e, s)
  BY <1>3, <1>4, <1>5
<1> QED BY <1>1, <1>3, <1>6, <1>7, RootEndsKept

\* The server has been restarted, with root or without, or is gone.
LEMMA SwitchRootKept ==
    ASSUME NamesAssumption, PanelsInv, SwitchRoot
    PROVE  PanelsInv'
<1>1. PICK t : t = worker.task
  OBVIOUS
<1>2. /\ worker.pc = "restart" /\ Finish /\ UNCHANGED <<losses, throws>>
      /\ \E mode \in BOOLEAN :
            /\ Up(t.slot, mode) \/ Down(t.slot)
            /\ PostUi([kind |-> "root", panel |-> t.panel, slot |-> t.slot, gen |-> t.gen,
                       root |-> mode])
  BY <1>1 DEF SwitchRoot
<1>3a. PICK mode \in BOOLEAN :
          /\ Up(t.slot, mode) \/ Down(t.slot)
          /\ PostUi([kind |-> "root", panel |-> t.panel, slot |-> t.slot, gen |-> t.gen,
                     root |-> mode])
  BY <1>2
<1>3b. PICK e : e = [kind |-> "root", panel |-> t.panel, slot |-> t.slot, gen |-> t.gen,
                     root |-> mode]
  OBVIOUS
<1>3. /\ mode \in BOOLEAN /\ (Up(t.slot, mode) \/ Down(t.slot))
      /\ e = [kind |-> "root", panel |-> t.panel, slot |-> t.slot, gen |-> t.gen,
              root |-> mode]
      /\ PostUi(e)
  BY <1>3a, <1>3b
<1>4. t \in Task /\ t.slot \in Slot /\ t.kind = "root" /\ PanelsTyped
  BY <1>1, <1>2 DEF PanelsInv, PanelsTyped, WorkerTyped, Task
<1>5. e \in RootMsg /\ Restart(e, t.slot)
  BY <1>3, <1>4 DEF RootMsg, Task, Restart
<1>6. /\ connected' \in [Slot -> BOOLEAN] /\ running' \in [Slot -> BOOLEAN]
      /\ root' \in [Slot -> BOOLEAN] /\ cached' \in [Slot -> Entry]
      /\ \A r \in Slot : root'[r] = root[r] \/ r = t.slot
  BY <1>3, <1>4, ServerTypes
<1>7. \A s \in Slot : root'[s] = root[s] \/ Restart(e, s)
  BY <1>5, <1>6
<1> QED BY <1>1, <1>2, <1>3, <1>4, <1>5, <1>6, <1>7, RootEndsKept

\* The server goes down for its restart.
LEMMA RestartServerKept ==
    ASSUME PanelsInv, RestartServer
    PROVE  PanelsInv'
<1>1. /\ worker.pc = "run" /\ worker.task.kind = "root"
      /\ worker' = [worker EXCEPT !.pc = "restart"]
      /\ connected' = [connected EXCEPT ![worker.task.slot] = FALSE]
      /\ UNCHANGED <<panel, views, rootPending, wanted, drained, ui, acts, missed>>
      /\ UNCHANGED <<running, root, cached, queue, messages, losses, throws>>
  BY DEF RestartServer, Step, Working
<1>2. worker \in [pc : WorkerPc, task : {None} \cup Task] /\ worker.task \in Task
      /\ connected \in [Slot -> BOOLEAN]
  BY <1>1 DEF PanelsInv, PanelsTyped, WorkerTyped, DevicesTyped
<1>3. worker' \in [pc : WorkerPc, task : {None} \cup Task] /\ worker'.pc = "restart"
      /\ worker'.task = worker.task
  BY <1>1, <1>2 DEF WorkerPc
<1>4. connected' \in [Slot -> BOOLEAN]
  BY <1>1, <1>2
<1>5. WorkerTyped'
  BY <1>1, <1>2, <1>3 DEF WorkerTyped
<1>6. PanelsTyped'
  BY <1>1, <1>4, <1>5 DEF PanelsInv, PanelsTyped, DevicesTyped
<1>7. NothingQueued' /\ Forgotten'
  BY <1>1, <1>3 DEF PanelsInv, NothingQueued, Forgotten
<1>8. Lists' = Lists
  BY <1>1, <1>3 DEF Lists, Fetching
<1> QED BY <1>1, <1>6, <1>7, <1>8, QuietKept

\* A connection is lost.
LEMMA LoseKept ==
    ASSUME PanelsInv, NEW s \in Slot, Lose(s)
    PROVE  PanelsInv'
<1>1. PanelsTyped'
  BY DEF Lose, PanelsInv, PanelsTyped, DevicesTyped, WorkerTyped
<1>2. NothingQueued' /\ Forgotten' /\ Lists' = Lists
  BY DEF Lose, PanelsInv, NothingQueued, Forgotten, Lists, Fetching
<1> QED BY <1>1, <1>2, QuietKept DEF Lose

\* A device is prepared: its panels are told.
LEMMA PrepareKept ==
    ASSUME NamesAssumption, PanelsInv, NEW s \in Slot, Prepare(s)
    PROVE  PanelsInv'
<1>1. PICK e : e = [kind |-> "ready", slot |-> s]
  OBVIOUS
<1>2. PICK mode \in {FALSE, wanted[s]} :
         Up(s, mode) /\ wanted' = IF s = Primary THEN [wanted EXCEPT ![s] = mode] ELSE wanted
  BY DEF Prepare
<1>3. /\ PostUi(e)
      /\ UNCHANGED <<panel, views, rootPending, queue, worker, drained, ui, throws, missed>>
  BY <1>1 DEF Prepare
<1>4. PanelsTyped /\ wanted \in [Slot -> BOOLEAN]
  BY DEF PanelsInv, PanelsTyped, DevicesTyped
<1>5. mode \in BOOLEAN /\ wanted' \in [Slot -> BOOLEAN]
  BY <1>2, <1>4
<1>6. /\ connected' \in [Slot -> BOOLEAN] /\ running' \in [Slot -> BOOLEAN]
      /\ root' \in [Slot -> BOOLEAN] /\ cached' \in [Slot -> Entry]
      /\ \A r \in Slot : root'[r] = root[r] \/ r = s
  BY <1>2, <1>4, <1>5, ServerTypes
<1>7. e \in Message /\ e.kind # "list" /\ Restart(e, s) /\ messages' = Append(messages, e)
      /\ messages \in Seq(Message)
  BY <1>1, <1>3 DEF Message, ReadyMsg, Restart, PostUi, PanelsInv, PanelsTyped
<1>8. messages' \in Seq(Message) /\ Range(messages') = Range(messages) \cup {e}
  BY <1>7, AppendedRange
<1>9. PanelsTyped'
  BY <1>3, <1>4, <1>5, <1>6, <1>8 DEF PanelsTyped, DevicesTyped, WorkerTyped
<1>10. Lists' = Lists
  BY <1>3, <1>7, <1>8 DEF Lists, Fetching
<1>11. \A t \in Lists : \E u \in Lists : Same(t, u)
  BY DEF Same
<1>12. RequestsMatch' /\ AwaitedIsComing' /\ WaitsToList'
  BY <1>3, <1>10, <1>11, MatchKept, AwaitKept, WaitKept DEF PanelsInv
<1>13. MessagesCurrent' /\ DrainedCurrent' /\ PanelsCurrent'
  BY <1>3, <1>6, <1>7, PostKept DEF PanelsInv
<1>14. NothingQueued' /\ Forgotten'
  BY <1>3 DEF PanelsInv, NothingQueued, Forgotten
<1> QED BY <1>9, <1>12, <1>13, <1>14 DEF PanelsInv

-----------------------------------------------------------------------------
(* The file panels: requests. *)

\* A task is queued for a worker that is woken, if it was asleep.
LEMMA PostAsyncFacts ==
    ASSUME PanelsInv, NEW t \in Task, PostAsync(t)
    PROVE  /\ queue' \in Seq(Task) /\ Range(queue') = Range(queue) \cup {t}
           /\ WorkerTyped' /\ Fetching' = Fetching /\ NothingQueued'
<1>1. queue' = Append(queue, t) /\ worker.pc # "dozing"
      /\ worker' = IF worker.pc = "asleep" THEN [worker EXCEPT !.pc = "test"] ELSE worker
  BY DEF PostAsync, Free, Woken
<1>2. queue \in Seq(Task) /\ WorkerTyped
  BY DEF PanelsInv, PanelsTyped
<1>3. queue' \in Seq(Task) /\ Range(queue') = Range(queue) \cup {t}
  BY <1>1, <1>2, AppendedRange
<1>4. CASE worker.pc = "asleep"
  <2>1. worker' = [worker EXCEPT !.pc = "test"]
    BY <1>1, <1>4
  <2>2. worker' \in [pc : WorkerPc, task : {None} \cup Task] /\ worker'.pc = "test"
    BY <1>2, <2>1 DEF WorkerTyped, WorkerPc
  <2> QED BY <1>3, <1>4, <2>2 DEF WorkerTyped, Fetching, NothingQueued
<1>5. CASE worker.pc # "asleep"
  BY <1>1, <1>2, <1>3, <1>5 DEF WorkerTyped, Fetching, NothingQueued
<1> QED BY <1>4, <1>5

\* Root is asked for.
LEMMA RequestRootKept ==
    ASSUME NamesAssumption, PanelsInv, NEW p \in Panel, RequestRoot(p)
    PROVE  PanelsInv'
<1>1. PICK t : t = [kind |-> "root", panel |-> p, slot |-> panel[p].slot, path |-> None,
                    gen |-> panel[p].gen]
  OBVIOUS
<1>2. /\ panel[p].slot # None /\ PostAsync(t) /\ ui = "runs"
      /\ rootPending' = [rootPending EXCEPT ![panel[p].slot] = TRUE]
      /\ UNCHANGED <<panel, views>>
      /\ UNCHANGED <<connected, running, wanted, root, cached, messages, drained, ui, losses,
                     throws, missed>>
  BY <1>1 DEF RequestRoot, OnDevice, Act, Drawing
<1>3. panel[p] \in Panels /\ rootPending \in [Slot -> BOOLEAN]
  BY DEF PanelsInv, PanelsTyped, DevicesTyped
<1>4. t \in Task /\ t.kind = "root"
  BY <1>1, <1>2, <1>3 DEF Panels, Task, Path
<1>5. /\ queue' \in Seq(Task) /\ Range(queue') = Range(queue) \cup {t}
      /\ WorkerTyped' /\ Fetching' = Fetching /\ NothingQueued'
  BY <1>2, <1>4, PostAsyncFacts
<1>6. rootPending' \in [Slot -> BOOLEAN]
  BY <1>2, <1>3
<1>7. PanelsTyped'
  BY <1>2, <1>5, <1>6 DEF PanelsInv, PanelsTyped, DevicesTyped
<1>8. Lists' = Lists
  BY <1>2, <1>4, <1>5 DEF Lists
<1>9. Forgotten'
  BY <1>2 DEF Forgotten
<1> QED BY <1>2, <1>5, <1>7, <1>8, <1>9, QuietKept

\* A folder of the PC is listed at once.
LEMMA RefreshPcKept ==
    ASSUME NamesAssumption, PanelsInv, NEW p \in Panel, RefreshPc(p)
    PROVE  PanelsInv'
<1>1. PICK y : y = [panel[p] EXCEPT !.needs = FALSE, !.loading = FALSE]
  OBVIOUS
<1>2. /\ panel[p].needs /\ panel[p].slot = None /\ ui = "runs"
      /\ panel' = [panel EXCEPT ![p] = y]
      /\ UNCHANGED <<views, deviceVars, queue, worker, messages, drained, ui, acts, losses,
                     throws, missed>>
  BY <1>1 DEF RefreshPc, OnDevice, Drawing
<1>3. panel \in [Panel -> Panels] /\ panel[p] \in Panels /\ PanelsTyped
  BY DEF PanelsInv, PanelsTyped
<1>4. /\ y \in Panels /\ ~y.needs /\ ~y.loading /\ y.gen = panel[p].gen /\ y.slot = None
      /\ y.pending = panel[p].pending /\ y.path = panel[p].path
  BY <1>1, <1>2, <1>3 DEF Panels
<1>5. panel' \in [Panel -> Panels] /\ panel'[p] = y /\ \A q \in Panel \ {p} : panel'[q] = panel[q]
  BY <1>2, <1>3, <1>4
<1>6. PanelsTyped'
  BY <1>2, <1>5 DEF PanelsInv, PanelsTyped, DevicesTyped, WorkerTyped, deviceVars
<1>7. NothingQueued' /\ Forgotten' /\ Lists' = Lists
  BY <1>2 DEF PanelsInv, NothingQueued, Forgotten, Lists, Fetching
<1>8. \A t \in Lists : t.panel \in Panel /\ t.slot # None
  BY <1>3, ListsTyped DEF NamesAssumption
<1>9. RequestsMatch'
  <2> SUFFICES ASSUME NEW t \in Lists
               PROVE  /\ t.gen <= panel'[t.panel].gen
                      /\ t.gen = panel'[t.panel].gen =>
                            /\ t.slot = panel'[t.panel].slot
                            /\ t.path = panel'[t.panel].path \/ panel'[t.panel].needs
    BY <1>7 DEF RequestsMatch
  <2>1. /\ t.gen <= panel[t.panel].gen
        /\ t.gen = panel[t.panel].gen =>
              t.slot = panel[t.panel].slot /\ (t.path = panel[t.panel].path \/ panel[t.panel].needs)
    BY <1>2 DEF PanelsInv, RequestsMatch
  <2>2. CASE t.panel = p
    BY <1>2, <1>4, <1>5, <1>8, <2>1, <2>2
  <2>3. CASE t.panel # p
    BY <1>5, <1>8, <2>1, <2>3
  <2> QED BY <2>2, <2>3
<1>10. AwaitedIsComing'
  <2> SUFFICES ASSUME NEW q \in Panel, panel'[q].loading, ~(throws' > 0)
               PROVE  \E u \in Lists' : u.panel = q /\ u.gen = panel'[q].gen
    BY DEF AwaitedIsComing, Lists
  <2>1. panel'[q] = panel[q] /\ throws' = throws
    BY <1>2, <1>4, <1>5
  <2>2. \E u \in Lists : u.panel = q /\ u.gen = panel[q].gen
    BY <2>1 DEF PanelsInv, AwaitedIsComing, Lists
  <2> QED BY <1>7, <2>1, <2>2
<1>11. PanelsCurrent'
  <2>1. \A q \in Panel : panel'[q] = panel[q] \/ panel'[q].slot = None
    BY <1>4, <1>5
  <2>2. UNCHANGED <<drained, messages, root>>
    BY <1>2 DEF deviceVars
  <2> QED BY <2>1, <2>2 DEF PanelsInv, PanelsCurrent, OnDevice, Current, Listing, Told, Restart
<1>12. WaitsToList'
  <2>1. \A q \in Panel : panel'[q] = panel[q] \/ panel'[q].pending = None
    BY <1>2, <1>4, <1>5 DEF PanelsInv, WaitsToList, OnDevice
  <2> QED BY <2>1 DEF PanelsInv, WaitsToList, OnDevice
<1>13. MessagesCurrent' /\ DrainedCurrent'
  BY <1>2, QueuesKept DEF PanelsInv, deviceVars
<1> QED BY <1>6, <1>7, <1>9, <1>10, <1>11, <1>12, <1>13 DEF PanelsInv

\* A folder of a device is asked for: with a generation that no listing has had.
LEMMA RefreshKept ==
    ASSUME NamesAssumption, PanelsInv, NEW p \in Panel, Refresh(p)
    PROVE  PanelsInv'
<1>1. PICK y : y = [panel[p] EXCEPT !.needs = FALSE, !.loading = TRUE, !.gen = @ + 1]
  OBVIOUS
<1>2. PICK t : t = [kind |-> "list", panel |-> p, slot |-> panel[p].slot,
                    path |-> panel[p].path, gen |-> panel[p].gen + 1]
  OBVIOUS
<1>3. /\ panel[p].needs /\ panel[p].slot # None /\ panel[p].pending = None /\ ui = "runs"
      /\ panel' = [panel EXCEPT ![p] = y]
      /\ PostAsync(t)
      /\ UNCHANGED <<views, deviceVars, messages, drained, ui, acts, losses, throws, missed>>
  BY <1>1, <1>2 DEF Refresh, OnDevice, Drawing
<1>4. panel \in [Panel -> Panels] /\ panel[p] \in Panels /\ PanelsTyped /\ panel[p].gen \in Nat
  BY DEF PanelsInv, PanelsTyped, Panels
<1>5. PICK n \in Nat : n = panel[p].gen + 1
  BY <1>4
<1>6. y = [panel[p] EXCEPT !.needs = FALSE, !.loading = TRUE, !.gen = n]
  BY <1>1, <1>5
<1>7. /\ y \in Panels /\ ~y.needs /\ y.loading /\ y.gen = n /\ y.slot = panel[p].slot
      /\ y.pending = None /\ y.path = panel[p].path
  BY <1>3, <1>4, <1>6 DEF Panels
<1>8. panel' \in [Panel -> Panels] /\ panel'[p] = y /\ \A q \in Panel \ {p} : panel'[q] = panel[q]
  BY <1>3, <1>4, <1>7
<1>9. t \in Task /\ t.kind = "list" /\ t.panel = p /\ t.slot = y.slot /\ t.path = y.path
      /\ t.gen = n
  BY <1>2, <1>3, <1>4, <1>5, <1>7 DEF Panels, Task
<1>10. /\ queue' \in Seq(Task) /\ Range(queue') = Range(queue) \cup {t}
       /\ WorkerTyped' /\ Fetching' = Fetching /\ NothingQueued'
  BY <1>3, <1>9, PostAsyncFacts
<1>11. PanelsTyped'
  BY <1>3, <1>8, <1>10 DEF PanelsInv, PanelsTyped, DevicesTyped, deviceVars
<1>12. Lists' = Lists \cup {t}
  BY <1>3, <1>9, <1>10 DEF Lists
<1>13. Forgotten'
  BY <1>3 DEF Forgotten
<1>14. \A u \in Lists : u.panel \in Panel /\ u.gen \in Nat
  BY <1>4, ListsTyped
<1>15. RequestsMatch'
  <2> SUFFICES ASSUME NEW u \in Lists'
               PROVE  /\ u.gen <= panel'[u.panel].gen
                      /\ u.gen = panel'[u.panel].gen =>
                            /\ u.slot = panel'[u.panel].slot
                            /\ u.path = panel'[u.panel].path \/ panel'[u.panel].needs
    BY DEF RequestsMatch
  <2>1. CASE u = t
    BY <1>7, <1>8, <1>9, <2>1
  <2>2. CASE u \in Lists
    <3>1. /\ u.gen <= panel[u.panel].gen
          /\ u.gen = panel[u.panel].gen =>
                u.slot = panel[u.panel].slot /\ (u.path = panel[u.panel].path \/ panel[u.panel].needs)
      BY <1>3, <2>2 DEF PanelsInv, RequestsMatch
    <3>2. CASE u.panel = p
      BY <1>4, <1>5, <1>7, <1>8, <1>14, <2>2, <3>1, <3>2
    <3>3. CASE u.panel # p
      BY <1>8, <1>14, <2>2, <3>1, <3>3
    <3> QED BY <3>2, <3>3
  <2> QED BY <1>12, <2>1, <2>2
<1>16. AwaitedIsComing'
  <2> SUFFICES ASSUME NEW q \in Panel, panel'[q].loading, ~(throws' > 0)
               PROVE  \E u \in Lists' : u.panel = q /\ u.gen = panel'[q].gen
    BY DEF AwaitedIsComing, Lists
  <2>1. CASE q = p
    BY <1>7, <1>8, <1>9, <1>12, <2>1
  <2>2. CASE q # p
    <3>1. panel'[q] = panel[q] /\ throws' = throws
      BY <1>3, <1>8, <2>2
    <3>2. \E u \in Lists : u.panel = q /\ u.gen = panel[q].gen
      BY <3>1 DEF PanelsInv, AwaitedIsComing, Lists
    <3> QED BY <1>12, <3>1, <3>2
  <2> QED BY <2>1, <2>2
<1>17. PanelsCurrent'
  <2>1. \A q \in Panel : panel'[q] = panel[q] \/ panel'[q].loading
    BY <1>7, <1>8
  <2>2. UNCHANGED <<drained, messages, root>>
    BY <1>3 DEF deviceVars
  <2> QED BY <2>1, <2>2 DEF PanelsInv, PanelsCurrent, OnDevice, Current, Listing, Told, Restart
<1>18. WaitsToList'
  <2>1. \A q \in Panel : panel'[q] = panel[q] \/ panel'[q].pending = None
    BY <1>7, <1>8
  <2> QED BY <2>1 DEF PanelsInv, WaitsToList, OnDevice
<1>19. MessagesCurrent' /\ DrainedCurrent'
  BY <1>3, QueuesKept DEF PanelsInv, deviceVars
<1> QED BY <1>10, <1>11, <1>13, <1>15, <1>16, <1>17, <1>18, <1>19 DEF PanelsInv

-----------------------------------------------------------------------------
(* The file panels: the messages, and the end. *)

\* The queue is taken out: what was on its way is about to be applied.
LEMMA DrainKept ==
    ASSUME PanelsInv, Drain
    PROVE  PanelsInv'
<1>1. /\ drained = <<>> /\ drained' = messages /\ messages' = <<>> /\ ui = "runs"
      /\ UNCHANGED <<panel, views, deviceVars, queue, worker, ui, acts, losses, throws, missed>>
  BY DEF Drain, Drawing
<1>2. PanelsTyped'
  BY <1>1 DEF PanelsInv, PanelsTyped, DevicesTyped, WorkerTyped, deviceVars
<1>3. Range(drained) = {} /\ Range(messages') = {} /\ Range(drained') = Range(messages)
  BY <1>1 DEF Range
<1>4. Lists' = Lists
  BY <1>1, <1>3 DEF Lists, Fetching
<1>5. \A t \in Lists : \E u \in Lists : Same(t, u)
  BY DEF Same
<1>6. RequestsMatch' /\ AwaitedIsComing' /\ WaitsToList'
  BY <1>1, <1>4, <1>5, MatchKept, AwaitKept, WaitKept DEF PanelsInv
<1>7. MessagesCurrent'
  BY <1>1 DEF MessagesCurrent
<1>8. DrainedCurrent'
  BY <1>1 DEF PanelsInv, MessagesCurrent, DrainedCurrent, Current, Listing, Told, Restart, deviceVars
<1>9. PanelsCurrent'
  <2>1. \A s : ~Told(drained, s, 0)
    BY <1>1 DEF Told
  <2>2. \A s : Told(messages, s, 0) => Told(drained', s, 0)
    BY <1>1
  <2> QED BY <1>1, <2>1, <2>2, CurrentKept DEF PanelsInv, deviceVars
<1>10. NothingQueued' /\ Forgotten'
  BY <1>1 DEF PanelsInv, NothingQueued, Forgotten
<1> QED BY <1>2, <1>6, <1>7, <1>8, <1>9, <1>10 DEF PanelsInv

\* What applying the oldest message leaves.
LEMMA ApplyFacts ==
    ASSUME PanelsInv, Apply, NEW m, m = Head(drained)
    PROVE  /\ m \in Message /\ drained' \in Seq(Message)
           /\ Range(drained) = {m} \cup Range(drained')
           /\ UNCHANGED <<connected, running, root, cached, queue, worker, messages, ui, acts,
                          losses, throws, missed>>
           /\ ui = "runs" /\ WorkerTyped' /\ DevicesTyped' /\ DrainedCurrent' /\ MessagesCurrent'
           /\ \A s : Told(drained, s, 0) <=> Restart(m, s) \/ Told(drained', s, 0)
           /\ views' \in [Panel -> [Slot -> LeftView]] /\ NothingQueued'
<1>1. PanelsTyped /\ drained \in Seq(Message) /\ drained # <<>> /\ drained' = Tail(drained)
      /\ ui = "runs"
      /\ UNCHANGED <<connected, running, root, cached, queue, worker, messages, ui, acts,
                     losses, throws, missed>>
  BY DEF PanelsInv, PanelsTyped, Apply
<1>2. m \in Message /\ drained' \in Seq(Message) /\ Range(drained) = {m} \cup Range(drained')
  BY <1>1, HeadAndTail
<1>3. \A s : /\ Told(drained, s, 0) <=> Restart(m, s) \/ Told(drained', s, 0)
             /\ \A i \in Nat : Told(drained, s, i + 1) <=> Told(drained', s, i)
  BY <1>1, RestTold
<1>4. /\ IF m.kind \in {"denied", "root"}
         THEN /\ rootPending' = [rootPending EXCEPT ![m.slot] = FALSE]
              /\ wanted' = [wanted EXCEPT ![m.slot] = m.root]
         ELSE UNCHANGED <<rootPending, wanted>>
      /\ views' = IF m.kind = "root" THEN [p \in Panel |-> [views[p] EXCEPT ![m.slot] = None]]
                  ELSE views
  BY DEF Apply
<1>5. m.kind \in {"denied", "root"} => m.slot \in Slot /\ m.root \in BOOLEAN
  BY <1>2, Kinds DEF DeniedMsg, RootMsg
<1>6. rootPending' \in [Slot -> BOOLEAN] /\ wanted' \in [Slot -> BOOLEAN]
  BY <1>1, <1>4, <1>5 DEF PanelsTyped, DevicesTyped
<1>7. DevicesTyped' /\ WorkerTyped'
  BY <1>1, <1>6 DEF PanelsTyped, DevicesTyped, WorkerTyped
<1>8. views' \in [Panel -> [Slot -> LeftView]]
  <2>1. CASE m.kind = "root"
    <3>1. \A p \in Panel : [views[p] EXCEPT ![m.slot] = None] \in [Slot -> LeftView]
      BY <1>1 DEF PanelsTyped, LeftView
    <3> QED BY <1>4, <2>1, <3>1
  <2>2. CASE m.kind # "root"
    BY <1>1, <1>4, <2>2 DEF PanelsTyped
  <2> QED BY <2>1, <2>2
<1>9. DrainedCurrent'
  <2>1. /\ DOMAIN drained = 1..Len(drained) /\ DOMAIN drained' = 1..(Len(drained) - 1)
        /\ Len(drained) \in Nat /\ \A i \in 1..(Len(drained) - 1) : drained'[i] = drained[i + 1]
    BY <1>1
  <2> SUFFICES ASSUME NEW i \in DOMAIN drained', drained'[i].kind = "list"
               PROVE  \/ Current(drained[i].shown, drained[i].slot, drained[i].path)'
                      \/ Told(drained', drained'[i].slot, i)
                      \/ Told(messages, drained'[i].slot, 0)
    BY <1>1 DEF DrainedCurrent
  <2>2. PICK n \in Message : n = drained[i + 1] /\ n = drained'[i]
    BY <1>1, <2>1
  <2>3. i \in Nat /\ i + 1 \in DOMAIN drained
    BY <2>1
  <2>4. Current(n.shown, n.slot, n.path) \/ Told(drained, n.slot, i + 1) \/ Told(messages, n.slot, 0)
    BY <2>2, <2>3 DEF PanelsInv, DrainedCurrent
  <2>5. Current(n.shown, n.slot, n.path) => Current(n.shown, n.slot, n.path)'
    BY <1>1 DEF Current, Listing
  <2>6. Told(drained, n.slot, i + 1) <=> Told(drained', n.slot, i)
    BY <1>3, <2>3
  <2> QED BY <2>2, <2>4, <2>5, <2>6
<1>10. MessagesCurrent'
  BY <1>1 DEF PanelsInv, MessagesCurrent, Current, Listing, Told, Restart
<1>11. NothingQueued'
  BY <1>1 DEF PanelsInv, NothingQueued
<1> QED BY <1>1, <1>2, <1>3, <1>7, <1>8, <1>9, <1>10, <1>11

\* A listing that comes is taken by the panel that still waits for it.
LEMMA ApplyListKept ==
    ASSUME PanelsInv, Apply, NEW m, m = Head(drained), m.kind = "list"
    PROVE  PanelsInv'
<1>1. /\ m \in Message /\ drained' \in Seq(Message)
      /\ Range(drained) = {m} \cup Range(drained')
      /\ UNCHANGED <<connected, running, root, cached, queue, worker, messages, ui, acts,
                     losses, throws, missed>>
      /\ ui = "runs" /\ WorkerTyped' /\ DevicesTyped' /\ DrainedCurrent' /\ MessagesCurrent'
      /\ \A s : Told(drained, s, 0) <=> Restart(m, s) \/ Told(drained', s, 0)
      /\ views' \in [Panel -> [Slot -> LeftView]] /\ NothingQueued'
  BY ApplyFacts
<1>2. PanelsTyped /\ panel \in [Panel -> Panels]
  BY DEF PanelsInv, PanelsTyped
<1>3. m \in ListMsg /\ m.panel \in Panel /\ m.slot \in Slot /\ m.gen \in Nat
  BY <1>1, Kinds DEF ListMsg
<1>4. PICK p \in Panel : p = m.panel
  BY <1>3
<1>5. PICK y : y = Listed(panel[p], m)
  OBVIOUS
<1>6. panel' = [q \in Panel |-> IF q = p THEN y ELSE panel[q]]
  BY <1>4, <1>5 DEF Apply
<1>7. /\ y \in Panels /\ y = [panel[p] EXCEPT !.loading = y.loading, !.shown = y.shown]
      /\ panel[p].gen # m.gen => y = panel[p]
      /\ panel[p].gen = m.gen => ~y.loading
      /\ panel[p].gen = m.gen /\ panel[p].pending = None /\ panel[p].slot = m.slot
           /\ panel[p].path = m.path => y.shown = m.shown
  <2>1. panel[p] \in Panels
    BY <1>2
  <2>2. PICK x \in Panels : x = panel[p] /\ y = Listed(x, m)
    BY <1>5, <2>1
  <2>3. /\ y \in Panels /\ y = [x EXCEPT !.loading = y.loading, !.shown = y.shown]
        /\ x.gen # m.gen => y = x
        /\ x.gen = m.gen => ~y.loading
        /\ x.gen = m.gen /\ x.pending = None /\ x.slot = m.slot /\ x.path = m.path =>
              y.shown = m.shown
    BY <1>3, <2>2, ListedPanels
  <2> QED BY <2>2, <2>3
<1>8. /\ y.gen = panel[p].gen /\ y.slot = panel[p].slot /\ y.path = panel[p].path
      /\ y.needs = panel[p].needs /\ y.pending = panel[p].pending
  <2>1. panel[p] \in Panels
    BY <1>2
  <2> QED BY <1>7, <2>1 DEF Panels
<1>9. panel' \in [Panel -> Panels] /\ panel'[p] = y /\ \A q \in Panel \ {p} : panel'[q] = panel[q]
  BY <1>2, <1>6, <1>7
<1>10. PanelsTyped'
  BY <1>1, <1>9 DEF PanelsInv, PanelsTyped
<1>11. m \in Lists /\ Lists' \subseteq Lists /\ Lists \subseteq Lists' \cup {m}
  BY <1>1 DEF Lists, Fetching
<1>12. \A u \in Lists : u.panel \in Panel
  BY <1>2, ListsTyped
<1>13. RequestsMatch'
  <2> SUFFICES ASSUME NEW u \in Lists'
               PROVE  /\ u.gen <= panel'[u.panel].gen
                      /\ u.gen = panel'[u.panel].gen =>
                            /\ u.slot = panel'[u.panel].slot
                            /\ u.path = panel'[u.panel].path \/ panel'[u.panel].needs
    BY DEF RequestsMatch
  <2>1. /\ u.gen <= panel[u.panel].gen
        /\ u.gen = panel[u.panel].gen =>
              u.slot = panel[u.panel].slot /\ (u.path = panel[u.panel].path \/ panel[u.panel].needs)
    BY <1>1, <1>11 DEF PanelsInv, RequestsMatch
  <2>2. CASE u.panel = p
    BY <1>8, <1>9, <2>1, <2>2
  <2>3. CASE u.panel # p
    BY <1>9, <1>11, <1>12, <2>1, <2>3
  <2> QED BY <2>2, <2>3
<1>14. AwaitedIsComing'
  <2> SUFFICES ASSUME NEW q \in Panel, panel'[q].loading, ~(throws' > 0)
               PROVE  \E u \in Lists' : u.panel = q /\ u.gen = panel'[q].gen
    BY DEF AwaitedIsComing, Lists
  <2>1. panel'[q] = panel[q] /\ throws' = throws /\ (q = p => panel[p].gen # m.gen)
    BY <1>1, <1>7, <1>9
  <2>2. PICK u \in Lists : u.panel = q /\ u.gen = panel[q].gen
    BY <2>1 DEF PanelsInv, AwaitedIsComing, Lists
  <2>3. u # m
    BY <1>4, <2>1, <2>2
  <2> QED BY <1>11, <2>1, <2>2, <2>3
<1>15. WaitsToList'
  BY <1>8, <1>9 DEF PanelsInv, WaitsToList, OnDevice
<1>16. \A s : ~Restart(m, s)
  BY DEF Restart
<1>17. PanelsCurrent'
  <2> SUFFICES ASSUME NEW q \in Panel, OnDevice(panel'[q]), ~panel'[q].needs, ~panel'[q].loading
               PROVE  \/ Current(panel[q].shown, panel[q].slot, panel[q].path)'
                      \/ Told(drained', panel'[q].slot, 0) \/ Told(messages, panel'[q].slot, 0)
    BY <1>1 DEF PanelsCurrent, OnDevice
  <2>1. CASE panel'[q] = panel[q]
    <3>1. \/ Current(panel[q].shown, panel[q].slot, panel[q].path)
          \/ Told(drained, panel[q].slot, 0) \/ Told(messages, panel[q].slot, 0)
      BY <2>1 DEF PanelsInv, PanelsCurrent, OnDevice
    <3>2. Current(panel[q].shown, panel[q].slot, panel[q].path)
            => Current(panel[q].shown, panel[q].slot, panel[q].path)'
      BY <1>1, <2>1 DEF Current, Listing
    <3> QED BY <1>1, <1>16, <2>1, <3>1, <3>2
  <2>2. CASE panel'[q] # panel[q]
    <3>1. q = p /\ panel[p].gen = m.gen /\ panel'[p] = y
      BY <1>7, <1>9, <2>2
    <3>2. panel[p].slot = m.slot /\ (m.path = panel[p].path \/ panel[p].needs)
      BY <1>1, <1>4, <1>11, <3>1 DEF PanelsInv, RequestsMatch
    <3>3. ~panel[p].needs /\ panel[p].pending = None
      BY <1>8, <3>1 DEF PanelsInv, WaitsToList
    <3>4. y.shown = m.shown
      BY <1>7, <3>1, <3>2, <3>3
    <3>0. 1 \in DOMAIN drained /\ drained[1] = m /\ DOMAIN drained \subseteq Nat
      <4>1. drained \in Seq(Message) /\ drained # <<>>
        BY <1>2 DEF PanelsTyped, Apply
      <4> QED BY <4>1
    <3>5. \/ Current(m.shown, m.slot, m.path)
          \/ Told(drained, m.slot, 1) \/ Told(messages, m.slot, 0)
      BY <3>0 DEF PanelsInv, DrainedCurrent
    <3>6. Told(drained, m.slot, 1) => Told(drained, m.slot, 0)
      BY <3>0 DEF Told
    <3>7. Current(m.shown, m.slot, m.path) => Current(m.shown, m.slot, m.path)'
      BY <1>1 DEF Current, Listing
    <3>8. panel'[q].shown = m.shown /\ panel'[q].slot = m.slot /\ panel'[q].path = m.path
      BY <1>8, <3>1, <3>2, <3>3, <3>4
    <3> QED BY <1>1, <1>16, <3>5, <3>6, <3>7, <3>8
  <2> QED BY <2>1, <2>2
<1>18. Forgotten'
  BY <1>1 DEF Forgotten
<1> QED BY <1>1, <1>10, <1>13, <1>14, <1>15, <1>17, <1>18 DEF PanelsInv

\* Any other message: the panels it makes list again, and the others as they were.
LEMMA ApplyRestKept ==
    ASSUME NamesAssumption, PanelsInv, Apply, NEW m, m = Head(drained), m.kind # "list"
    PROVE  PanelsInv'
<1>1. /\ m \in Message /\ drained' \in Seq(Message)
      /\ Range(drained) = {m} \cup Range(drained')
      /\ UNCHANGED <<connected, running, root, cached, queue, worker, messages, ui, acts,
                     losses, throws, missed>>
      /\ ui = "runs" /\ WorkerTyped' /\ DevicesTyped' /\ DrainedCurrent' /\ MessagesCurrent'
      /\ \A s : Told(drained, s, 0) <=> Restart(m, s) \/ Told(drained', s, 0)
      /\ views' \in [Panel -> [Slot -> LeftView]] /\ NothingQueued'
  BY ApplyFacts
<1>2. PanelsTyped /\ panel \in [Panel -> Panels]
  BY DEF PanelsInv, PanelsTyped
<1>3. panel' = [p \in Panel |->
                  CASE m.kind = "list" -> IF p = m.panel THEN Listed(panel[p], m) ELSE panel[p]
                    [] m.kind = "ready" -> Ready(p, panel[p], m)
                    [] m.kind = "root" -> Rooted(p, panel[p], m)
                    [] m.kind = "denied" -> panel[p]]
  BY DEF Apply
<1>4. /\ m.kind \in {"ready", "denied", "root"}
      /\ m.kind = "ready" => m \in ReadyMsg
      /\ m.kind = "root" => m \in RootMsg
  BY <1>1, Kinds
<1>5. ASSUME NEW p \in Panel
      PROVE  \/ /\ panel'[p] = panel[p]
                /\ Restart(m, panel[p].slot) => panel[p].pending # None
             \/ Restless(panel[p], panel'[p])
  <2>1. CASE m.kind = "ready"
    <3>1. panel'[p] = Ready(p, panel[p], m)
      BY <1>3, <2>1
    <3>2. \/ Ready(p, panel[p], m) = panel[p] /\ (panel[p].slot # m.slot \/ panel[p].pending # None)
          \/ Restless(panel[p], Ready(p, panel[p], m))
      BY <1>2, <1>4, <2>1, ReadyPanels DEF NamesAssumption
    <3> QED BY <3>1, <3>2 DEF Restart
  <2>2. CASE m.kind = "root"
    <3>1. panel'[p] = Rooted(p, panel[p], m)
      BY <1>3, <2>2
    <3>2. \/ Rooted(p, panel[p], m) = panel[p] /\ (panel[p].slot # m.slot \/ panel[p].pending # None)
          \/ Restless(panel[p], Rooted(p, panel[p], m))
      BY <1>2, <1>4, <2>2, RootedPanels DEF NamesAssumption
    <3> QED BY <3>1, <3>2 DEF Restart
  <2>3. CASE m.kind = "denied"
    BY <1>3, <2>3 DEF Restart
  <2> QED BY <1>4, <2>1, <2>2, <2>3
<1>6. \A p \in Panel : panel'[p] = panel[p] \/ Restless(panel[p], panel'[p])
  BY <1>5
<1>7. panel' \in [Panel -> Panels]
  <2>1. \A p \in Panel : panel'[p] \in Panels
    BY <1>2, <1>6 DEF Restless
  <2> QED BY <1>3, <2>1
<1>8. PanelsTyped'
  BY <1>1, <1>7 DEF PanelsInv, PanelsTyped
<1>9. Lists' = Lists
  BY <1>1 DEF Lists, Fetching
<1>10. \A t \in Lists : \E u \in Lists : Same(t, u)
  BY DEF Same
<1>11. RequestsMatch' /\ AwaitedIsComing' /\ WaitsToList'
  BY <1>1, <1>6, <1>9, <1>10, MatchKept, AwaitKept, WaitKept DEF PanelsInv
<1>12. PanelsCurrent'
  <2>1. ASSUME NEW q \in Panel, Restart(m, panel[q].slot)
        PROVE  panel'[q].needs
    <3>1. CASE panel'[q] = panel[q] /\ panel[q].pending # None
      BY <3>1 DEF PanelsInv, WaitsToList
    <3>2. CASE Restless(panel[q], panel'[q])
      BY <3>2 DEF Restless
    <3> QED BY <1>5, <2>1, <3>1, <3>2
  <2> QED BY <1>1, <1>6, <2>1, CurrentKept DEF PanelsInv
<1>13. Forgotten'
  BY <1>1 DEF Forgotten
<1> QED BY <1>1, <1>8, <1>11, <1>12, <1>13 DEF PanelsInv

\* ~App begins: nobody waits for anything any more.
LEMMA CloseKept ==
    ASSUME NamesAssumption, PanelsInv, Close
    PROVE  PanelsInv'
<1>1. /\ panel' = [p \in Panel |-> Start] /\ views' = [p \in Panel |-> [s \in Slot |-> None]]
      /\ connected' = [s \in Slot |-> FALSE] /\ running' = [s \in Slot |-> FALSE]
      /\ root' = [s \in Slot |-> FALSE] /\ rootPending' = [s \in Slot |-> FALSE]
      /\ cached' = [s \in Slot |-> None] /\ wanted' = [s \in Slot |-> FALSE]
      /\ messages' = <<>> /\ drained' = <<>> /\ queue' = <<>>
      /\ ui' = "notify" /\ UNCHANGED <<acts, losses, throws, worker, missed>>
  BY DEF Close, Leave, Forget
<1>2. Start \in Panels /\ Start.needs /\ ~Start.loading /\ Start.pending = None
  BY DEF NamesAssumption, Start, Panels, Path, Entry
<1>3. panel' \in [Panel -> Panels] /\ views' \in [Panel -> [Slot -> LeftView]]
  BY <1>1, <1>2 DEF LeftView
<1>4. DevicesTyped'
  BY <1>1 DEF DevicesTyped, Entry
<1>5. WorkerTyped'
  BY <1>1 DEF PanelsInv, PanelsTyped, WorkerTyped
<1>6. queue' \in Seq(Task) /\ messages' \in Seq(Message) /\ drained' \in Seq(Message)
  BY <1>1
<1>7. PanelsTyped'
  BY <1>1, <1>3, <1>4, <1>5, <1>6 DEF PanelsInv, PanelsTyped
<1>8. \A p \in Panel : panel'[p].needs /\ ~panel'[p].loading /\ panel'[p].pending = None
  BY <1>1, <1>2
<1>9. NothingQueued' /\ Forgotten' /\ RequestsMatch'
  BY <1>1 DEF NothingQueued, Forgotten, RequestsMatch
<1>10. WaitsToList' /\ AwaitedIsComing' /\ PanelsCurrent'
  BY <1>8 DEF WaitsToList, AwaitedIsComing, PanelsCurrent
<1>11. MessagesCurrent' /\ DrainedCurrent'
  BY <1>1 DEF MessagesCurrent, DrainedCurrent
<1> QED BY <1>7, <1>9, <1>10, <1>11 DEF PanelsInv

\* The worker is woken, or the notification falls between its test and its sleep.
LEMMA NotifyAllKept ==
    ASSUME PanelsInv, NotifyAll
    PROVE  PanelsInv'
<1>1. /\ ui = "notify" /\ ui' = "join" /\ UNCHANGED <<acts, losses, throws>>
      /\ UNCHANGED <<panel, views, deviceVars, messages, drained, queue>>
      /\ worker' = IF worker.pc = "asleep" THEN [worker EXCEPT !.pc = "test"] ELSE worker
      /\ missed' = (worker.pc = "dozing")
  BY DEF NotifyAll, Leave, Closing, Woken
<1>2. WorkerTyped /\ NothingQueued
  BY DEF PanelsInv, PanelsTyped
<1>3. WorkerTyped' /\ Fetching' = Fetching /\ NothingQueued'
  <2>1. CASE worker.pc = "asleep"
    <3>1. worker' = [worker EXCEPT !.pc = "test"]
      BY <1>1, <2>1
    <3>2. worker' \in [pc : WorkerPc, task : {None} \cup Task] /\ worker'.pc = "test"
      BY <1>2, <3>1 DEF WorkerTyped, WorkerPc
    <3> QED BY <2>1, <3>2 DEF WorkerTyped, Fetching, NothingQueued
  <2>2. CASE worker.pc # "asleep"
    <3>1. worker' = worker
      BY <1>1, <2>2
    <3> QED BY <1>1, <1>2, <2>2, <3>1 DEF WorkerTyped, Fetching, NothingQueued
  <2> QED BY <2>1, <2>2
<1>4. PanelsTyped'
  BY <1>1, <1>3 DEF PanelsInv, PanelsTyped, DevicesTyped, deviceVars
<1>5. Forgotten' /\ Lists' = Lists
  BY <1>1, <1>3 DEF PanelsInv, Forgotten, Lists
<1> QED BY <1>1, <1>3, <1>4, <1>5, QuietKept DEF deviceVars

\* ~App goes on when the worker has left its loop.
LEMMA JoinKept ==
    ASSUME PanelsInv, Join
    PROVE  PanelsInv'
<1>1. /\ ui # "runs" /\ ui' = "gone" /\ worker.pc = "exited"
      /\ UNCHANGED <<acts, losses, throws, worker, missed>>
      /\ UNCHANGED <<panel, views, deviceVars, messages, drained, queue>>
  BY DEF Join, Leave, Closing
<1>2. PanelsTyped'
  BY <1>1 DEF PanelsInv, PanelsTyped, DevicesTyped, WorkerTyped, deviceVars
<1>3. NothingQueued' /\ Forgotten' /\ Lists' = Lists
  BY <1>1 DEF PanelsInv, NothingQueued, Forgotten, Lists, Fetching
<1> QED BY <1>1, <1>2, <1>3, QuietKept DEF deviceVars

-----------------------------------------------------------------------------
(* The file panels: the theorems. *)

\* Every start of the application satisfies the invariant.
LEMMA PanelsInvInit ==
    ASSUME NamesAssumption, Init PROVE PanelsInv
<1>1. PanelsTyped
  BY PanelsTypedInit
<1>2. \A p \in Panel : panel[p].needs /\ ~panel[p].loading /\ panel[p].pending = None
  BY DEF Init, Start
<1>3. NothingQueued /\ Forgotten
  BY DEF Init, NothingQueued, Forgotten
<1>4. Lists = {}
  <2>1. Range(queue) = {} /\ Range(messages) = {} /\ Range(drained) = {}
    BY DEF Init, Range
  <2>2. Fetching = {}
    BY DEF Init, Fetching
  <2> QED BY <2>1, <2>2 DEF Lists
<1>5. RequestsMatch
  BY <1>4 DEF RequestsMatch
<1>6. WaitsToList /\ AwaitedIsComing /\ PanelsCurrent
  BY <1>2 DEF WaitsToList, AwaitedIsComing, PanelsCurrent
<1>7. MessagesCurrent /\ DrainedCurrent
  BY DEF Init, MessagesCurrent, DrainedCurrent
<1> QED BY <1>1, <1>3, <1>5, <1>6, <1>7 DEF PanelsInv

\* Every click keeps the invariant.
LEMMA ClicksKept ==
    ASSUME NamesAssumption, PanelsInv, NEW p \in Panel, Clicks(p)
    PROVE  PanelsInv'
<1>1. PanelsTyped /\ WaitsToList
  BY DEF PanelsInv
<1>2. ASSUME NEW f \in Folder, Navigate(p, f) PROVE PanelsInv'
  <2>1. PanelsOnly
    BY <1>1, <1>2, NavigateEffect
  <2> QED BY <1>2, <2>1, PanelsOnlyKept DEF Navigate, Act, Drawing
<1>3. CASE RefreshWanted(p)
  <2>1. PanelsOnly
    BY <1>1, <1>3, NavigateEffect
  <2> QED BY <1>3, <2>1, PanelsOnlyKept DEF RefreshWanted, Act, Drawing
<1>4. CASE ShowPc(p)
  <2>1. PanelsOnly
    BY <1>1, <1>4, LeaveEffect
  <2> QED BY <1>4, <2>1, PanelsOnlyKept DEF ShowPc, Act, Drawing
<1>5. CASE RequestRoot(p)
  BY <1>5, RequestRootKept
<1>6. ASSUME NEW s \in Slot, ShowDevice(p, s) PROVE PanelsInv'
  <2>1. PanelsOnly
    BY <1>1, <1>6, ShowDeviceEffect
  <2>2. ui = "runs"
    BY <1>6 DEF ShowDevice, Act, Drawing
  <2> QED BY <2>1, <2>2, PanelsOnlyKept
<1>7. ASSUME NEW s \in Slot, AwaitDevice(p, s) PROVE PanelsInv'
  <2>1. PanelsOnly
    BY <1>1, <1>7, LeaveEffect
  <2> QED BY <1>7, <2>1, PanelsOnlyKept DEF AwaitDevice, Act, Drawing
<1> QED BY <1>2, <1>3, <1>4, <1>5, <1>6, <1>7 DEF Clicks

\* Every step of the worker keeps the invariant.
LEMMA WorkKept ==
    ASSUME NamesAssumption, PanelsInv, Work
    PROVE  PanelsInv'
<1>1. CASE Exit \/ Doze \/ Sleep
  BY <1>1, WorkerWaitsKept
<1>2. CASE Take
  BY <1>2, TakeKept
<1>3. CASE List
  BY <1>3, ListKept
<1>4. CASE Throw
  BY <1>4, ThrowKept
<1>5. CASE DenyRoot
  BY <1>5, DenyRootKept
<1>6. CASE RestartServer
  BY <1>6, RestartServerKept
<1>7. CASE SwitchRoot
  BY <1>7, SwitchRootKept
<1> QED BY <1>1, <1>2, <1>3, <1>4, <1>5, <1>6, <1>7 DEF Work

\* Every step of the application keeps the invariant.
LEMMA PanelsInvNext ==
    ASSUME NamesAssumption, PanelsInv, [Next]_vars
    PROVE  PanelsInv'
<1>1. ASSUME NEW p \in Panel, Clicks(p) \/ RefreshPc(p) \/ Refresh(p) PROVE PanelsInv'
  BY <1>1, ClicksKept, RefreshPcKept, RefreshKept
<1>2. CASE Drain
  BY <1>2, DrainKept
<1>3. CASE Apply
  <2>1. PICK m : m = Head(drained)
    OBVIOUS
  <2> QED BY <1>3, <2>1, ApplyListKept, ApplyRestKept
<1>4. CASE Work
  BY <1>4, WorkKept
<1>5. CASE Poll
  <2>1. ASSUME NEW s \in Slot, Notice(s) PROVE PanelsInv'
    <3>1. PanelsOnly
      BY <2>1, NoticeEffect DEF PanelsInv
    <3>2. ui = "runs"
      BY <2>1 DEF Notice, Polling
    <3> QED BY <3>1, <3>2, PanelsOnlyKept
  <2> QED BY <1>5, <2>1, LoseKept, PrepareKept DEF Poll
<1>6. CASE End
  BY <1>6, CloseKept, NotifyAllKept, JoinKept DEF End
<1>7. CASE UNCHANGED vars
  <2>1. PanelsTyped'
    BY <1>7 DEF PanelsInv, PanelsTyped, DevicesTyped, WorkerTyped, vars, deviceVars
  <2>2. NothingQueued' /\ Forgotten' /\ Lists' = Lists
    BY <1>7 DEF PanelsInv, NothingQueued, Forgotten, Lists, Fetching, vars
  <2> QED BY <1>7, <2>1, <2>2, QuietKept DEF vars, deviceVars
<1> QED BY <1>1, <1>2, <1>3, <1>4, <1>5, <1>6, <1>7 DEF Next

\* The invariant holds of every run of the application.
THEOREM PanelsInvariance == Spec => []PanelsInv
<1>1. Init => PanelsInv
  BY PanelsInvInit, NamesAssumption
<1>2. PanelsInv /\ [Next]_vars => PanelsInv'
  BY PanelsInvNext, NamesAssumption
<1> QED BY <1>1, <1>2, PTL DEF Spec

\* A panel that waits for nothing shows the folder and the device it names, as the server
\* of now sees them, or nothing, whatever came in between.
THEOREM NothingStaleStands == Spec => []ShowsItsFolder
<1>1. PanelsInv => ShowsItsFolder
  <2> SUFFICES ASSUME PanelsInv, NEW p \in Panel, Settled(panel[p])
               PROVE  panel[p].shown \in {None, Listing(panel[p].slot, panel[p].path)}
    BY DEF ShowsItsFolder
  <2>1. /\ OnDevice(panel[p]) /\ ~panel[p].needs /\ ~panel[p].loading
        /\ ~Expected(panel[p].slot)
    BY DEF Settled
  <2>2. ~Told(drained, panel[p].slot, 0) /\ ~Told(messages, panel[p].slot, 0)
    BY <2>1 DEF Expected, Told, Restart, Range
  <2>3. Current(panel[p].shown, panel[p].slot, panel[p].path)
    BY <2>1, <2>2 DEF PanelsInv, PanelsCurrent
  <2> QED BY <2>3 DEF Current
<1> QED BY <1>1, PanelsInvariance, PTL

\* No panel waits in vain: while it says that it is loading, its listing is on its way.
THEOREM NoWaitInVain == Spec => []AwaitedIsComing
<1>1. PanelsInv => AwaitedIsComing
  BY DEF PanelsInv
<1> QED BY <1>1, PanelsInvariance, PTL

\* The worker never sleeps through its work, nor through the end that it was told of.
THEOREM NoLostWakeup == Spec => []NothingSleptThrough
<1>1. PanelsInv => NothingSleptThrough
  BY DEF PanelsInv, NothingQueued, NothingSleptThrough
<1> QED BY <1>1, PanelsInvariance, PTL

-----------------------------------------------------------------------------
(* The pairing dialog: the inductive invariant. *)

PairerPc == {"exited", "discover", "pair", "pairing", "connect", "check", "post", "leave"}
Frames == {"drain", "apply", "poll", "click", "join", "gone"}
Jobs == [pc : PairerPc, gen : Nat, action : {0, 1, 2}, found : BOOLEAN, paired : BOOLEAN,
         connected : BOOLEAN, error : BOOLEAN]
PairResult == [gen : Nat, paired : BOOLEAN, connected : BOOLEAN, error : BOOLEAN,
               final : BOOLEAN]

PairingTyped ==
    /\ frame \in Frames /\ dialog \in BOOLEAN /\ useQr \in BOOLEAN
    /\ generation \in Nat /\ done \in BOOLEAN /\ ready \in Nat /\ error \in BOOLEAN
    /\ expired \in BOOLEAN /\ shutdown \in BOOLEAN /\ busy \in BOOLEAN
    /\ pairer \in Jobs /\ results \in Seq(PairResult) /\ batch \in Seq(PairResult)
    /\ overtaken \in BOOLEAN

\* Results are applied in their part of the frame only, and a worker is busy until it
\* exits.
Places ==
    /\ shutdown <=> frame \in {"join", "gone"}
    /\ batch # <<>> => frame = "apply"
    /\ busy <=> pairer.pc # "exited"

\* What is of the session that counts: only while its dialog is open.
Open == dialog /\ ~shutdown
Within(g) == g <= generation /\ (g = generation => Open)
Generations ==
    /\ busy => Within(pairer.gen)
    /\ \A i \in DOMAIN results : Within(results[i].gen)
    /\ \A i \in DOMAIN batch : Within(batch[i].gen)

\* Who says that a phone is connected has paired it, and then the phone has accepted.
Truth(r, phones) == (r.connected => r.paired) /\ (r.paired => r.gen \in phones)
Truthful ==
    /\ busy => Truth(pairer, accepted) /\ (pairer.action = 2 => pairer.paired)
    /\ \A i \in DOMAIN results : Truth(results[i], accepted)
    /\ \A i \in DOMAIN batch : Truth(batch[i], accepted)

\* Every message of session g after the i-th says that the phone is paired.
Later(q, i, g) == \A j \in DOMAIN q : j > i /\ q[j].gen = g => q[j].paired

\* Once the phone is known to be paired, by the dialog or by a message, whatever comes
\* after it knows that too: the later messages and the worker.
WorkerKnows == busy /\ pairer.gen = generation => pairer.paired
NeverForgotten ==
    ~overtaken =>
        /\ done => Later(batch, 0, generation) /\ Later(results, 0, generation) /\ WorkerKnows
        /\ \A i \in DOMAIN batch : batch[i].gen = generation /\ batch[i].paired =>
              Later(batch, i, generation) /\ Later(results, 0, generation) /\ WorkerKnows
        /\ \A i \in DOMAIN results : results[i].gen = generation /\ results[i].paired =>
              Later(results, i, generation) /\ WorkerKnows

\* A progress message that is still queued is followed by its worker's result, or the
\* worker will post one.
Posting == {"pairing", "connect", "check", "post"}
Answer(q, i, g) == \E j \in DOMAIN q : j > i /\ q[j].gen = g /\ q[j].final
Followed ==
    \A i \in DOMAIN results : results[i].gen = generation /\ ~results[i].final =>
        Answer(results, i, generation) \/ (pairer.gen = generation /\ pairer.pc \in Posting)

PairingInv ==
    /\ PairingTyped /\ Places /\ Generations /\ Truthful /\ NeverForgotten /\ Followed
    /\ SessionsApart

-----------------------------------------------------------------------------
(* The pairing dialog: the queue. *)

\* What a queue is like with a result appended.
LEMMA AppendedResult ==
    ASSUME NEW q \in Seq(PairResult), NEW e \in PairResult
    PROVE  /\ Append(q, e) \in Seq(PairResult)
           /\ DOMAIN q = 1..Len(q) /\ Len(q) \in Nat /\ DOMAIN Append(q, e) = 1..(Len(q) + 1)
           /\ \A i \in 1..Len(q) : Append(q, e)[i] = q[i]
           /\ Append(q, e)[Len(q) + 1] = e
  OBVIOUS

\* What the later messages say, once another one has been posted.
LEMMA AppendedLater ==
    ASSUME NEW q \in Seq(PairResult), NEW e \in PairResult, NEW g, NEW i \in 0..Len(q)
    PROVE  /\ Later(q, i, g) /\ (e.gen = g => e.paired) => Later(Append(q, e), i, g)
           /\ Answer(q, i, g) \/ (e.gen = g /\ e.final) => Answer(Append(q, e), i, g)
<1>1. /\ DOMAIN q = 1..Len(q) /\ Len(q) \in Nat /\ DOMAIN Append(q, e) = 1..(Len(q) + 1)
      /\ \A j \in 1..Len(q) : Append(q, e)[j] = q[j]
      /\ Append(q, e)[Len(q) + 1] = e
  BY AppendedResult
<1>2. ASSUME Later(q, i, g), e.gen = g => e.paired PROVE Later(Append(q, e), i, g)
  BY <1>1, <1>2 DEF Later
<1>3. ASSUME Answer(q, i, g) PROVE Answer(Append(q, e), i, g)
  BY <1>1, <1>3 DEF Answer
<1>4. ASSUME e.gen = g, e.final PROVE Answer(Append(q, e), i, g)
  BY <1>1, <1>4 DEF Answer
<1> QED BY <1>2, <1>3, <1>4

\* What is left when the first message has been applied.
LEMMA RestOfBatch ==
    ASSUME NEW q \in Seq(PairResult), q # <<>>
    PROVE  /\ Tail(q) \in Seq(PairResult) /\ Head(q) \in PairResult /\ Head(q) = q[1]
           /\ 1 \in DOMAIN q
           /\ \A i \in DOMAIN Tail(q) : i \in Nat /\ i + 1 \in DOMAIN q /\ Tail(q)[i] = q[i + 1]
           /\ \A g, i \in Nat : Later(q, i + 1, g) => Later(Tail(q), i, g)
           /\ \A g : Later(q, 0, g) => Later(Tail(q), 0, g)
<1>1. /\ DOMAIN q = 1..Len(q) /\ Len(q) \in Nat /\ Len(q) > 0
      /\ DOMAIN Tail(q) = 1..(Len(q) - 1) /\ Tail(q) \in Seq(PairResult)
      /\ Head(q) = q[1] /\ Head(q) \in PairResult
  OBVIOUS
<1>2. \A i \in 1..(Len(q) - 1) : Tail(q)[i] = q[i + 1]
  OBVIOUS
<1>3. \A i \in DOMAIN Tail(q) : i \in Nat /\ i + 1 \in DOMAIN q /\ Tail(q)[i] = q[i + 1]
  BY <1>1, <1>2
<1>4. ASSUME NEW g, NEW i \in Nat, Later(q, i + 1, g) PROVE Later(Tail(q), i, g)
  BY <1>3, <1>4 DEF Later
<1>5. ASSUME NEW g, Later(q, 0, g) PROVE Later(Tail(q), 0, g)
  BY <1>3, <1>5 DEF Later
<1> QED BY <1>1, <1>3, <1>4, <1>5

-----------------------------------------------------------------------------
(* The pairing dialog: the worker. *)

\* What no step of the worker changes.
Aside == UNCHANGED <<frame, dialog, useQr, generation, done, ready, error, expired, shutdown,
                     batch, scanned, saved, started, overtaken>>

\* A step of the worker that goes on with what it knows, and that the phone has agreed to.
Progress ==
    /\ Aside /\ busy' = busy /\ busy
    /\ pairer' \in Jobs /\ pairer'.pc # "exited"
    /\ pairer'.gen = pairer.gen /\ pairer'.action = pairer.action
    /\ pairer.paired => pairer'.paired
    /\ accepted \subseteq accepted' /\ Truth(pairer', accepted')

\* More phones do not make a true message false.
LEMMA MorePhones ==
    ASSUME NEW r, NEW A, NEW B, A \subseteq B, Truth(r, A)
    PROVE  Truth(r, B)
  BY DEF Truth

\* A step of the worker that posts nothing.
LEMMA SilentKept ==
    ASSUME PairingInv, Progress, results' = results,
           pairer.gen = generation /\ pairer.pc \in Posting => pairer'.pc \in Posting
    PROVE  PairingInv'
<1>1. PairingTyped'
  BY DEF PairingInv, PairingTyped, Progress, Aside
<1>2. Places'
  BY DEF PairingInv, Places, Progress, Aside
<1>3. Generations'
  BY DEF PairingInv, Generations, Within, Open, Progress, Aside
<1>4. Truthful'
  BY MorePhones DEF PairingInv, Truthful, Progress, Aside
<1>5. NeverForgotten'
  BY DEF PairingInv, NeverForgotten, WorkerKnows, Progress, Aside
<1>6. Followed'
  BY DEF PairingInv, Followed, Progress, Aside
<1>7. SessionsApart'
  BY DEF PairingInv, SessionsApart, Progress, Aside
<1> QED BY <1>1, <1>2, <1>3, <1>4, <1>5, <1>6, <1>7 DEF PairingInv

\* A step of the worker that posts what it knows.
LEMMA PostingKept ==
    ASSUME PairingInv, Progress, NEW final \in BOOLEAN, results' = Append(results, Result(final)),
           pairer'.paired = pairer.paired,
           final \/ pairer'.pc \in Posting, ~final => pairer.pc \notin Posting
    PROVE  PairingInv'
<1>1. PICK e : e = Result(final)
  OBVIOUS
<1>2. e \in PairResult /\ e.gen = pairer.gen /\ e.paired = pairer.paired /\ e.final = final
      /\ e.connected = pairer.connected
  BY <1>1 DEF Result, PairResult, PairingInv, PairingTyped, Jobs
<1>3. /\ results' \in Seq(PairResult) /\ results \in Seq(PairResult)
      /\ DOMAIN results = 1..Len(results) /\ Len(results) \in Nat
      /\ DOMAIN results' = 1..(Len(results) + 1)
      /\ \A i \in 1..Len(results) : results'[i] = results[i]
      /\ results'[Len(results) + 1] = e
  BY <1>1, <1>2, AppendedResult DEF PairingInv, PairingTyped
<1>4. PairingTyped'
  BY <1>3 DEF PairingInv, PairingTyped, Progress, Aside
<1>5. Places'
  BY DEF PairingInv, Places, Progress, Aside
<1>6. Generations'
  <2>1. Within(pairer.gen)
    BY DEF PairingInv, Generations, Progress
  <2>2. \A i \in DOMAIN results' : Within(results'[i].gen)
    BY <1>2, <1>3, <2>1 DEF PairingInv, Generations
  <2> QED BY <2>1, <2>2 DEF PairingInv, Generations, Within, Open, Progress, Aside
<1>7. Truthful'
  <2>1. Truth(pairer, accepted)
    BY DEF PairingInv, Truthful, Progress
  <2>2. Truth(e, accepted')
    BY <1>2, <2>1 DEF Truth, Progress
  <2>3. \A i \in DOMAIN results' : Truth(results'[i], accepted')
    BY <1>3, <2>2, MorePhones DEF PairingInv, Truthful, Progress
  <2> QED BY <2>3, MorePhones DEF PairingInv, Truthful, Progress, Aside
<1>8. NeverForgotten'
  <2> SUFFICES ASSUME ~overtaken PROVE NeverForgotten'
    BY DEF NeverForgotten, Progress, Aside
  <2>1. /\ done => Later(batch, 0, generation) /\ Later(results, 0, generation) /\ WorkerKnows
        /\ \A i \in DOMAIN batch : batch[i].gen = generation /\ batch[i].paired =>
              Later(batch, i, generation) /\ Later(results, 0, generation) /\ WorkerKnows
        /\ \A i \in DOMAIN results : results[i].gen = generation /\ results[i].paired =>
              Later(results, i, generation) /\ WorkerKnows
    BY DEF PairingInv, NeverForgotten
  <2>2. WorkerKnows => WorkerKnows' /\ (e.gen = generation => e.paired)
    BY <1>2 DEF WorkerKnows, Progress, Aside
  <2>3. ASSUME NEW i \in 0..Len(results), Later(results, i, generation), WorkerKnows
        PROVE  Later(results', i, generation)
    BY <1>1, <1>2, <1>3, <2>2, <2>3, AppendedLater
  <2>4. 0 \in 0..Len(results)
    BY <1>3
  <2>5. ASSUME NEW i \in DOMAIN results', results'[i].gen = generation, results'[i].paired
        PROVE  Later(results', i, generation) /\ WorkerKnows'
    <3>1. CASE i = Len(results) + 1
      <4>1. WorkerKnows'
        BY <1>2, <1>3, <2>5, <3>1 DEF WorkerKnows, Progress, Aside
      <4>2. Later(results', i, generation)
        BY <1>3, <3>1 DEF Later
      <4> QED BY <4>1, <4>2
    <3>2. CASE i \in 1..Len(results)
      BY <1>3, <2>1, <2>2, <2>3, <2>5, <3>2
    <3> QED BY <1>3, <3>1, <3>2
  <2>6. generation' = generation /\ batch' = batch /\ done' = done
    BY DEF Progress, Aside
  <2> QED BY <2>1, <2>2, <2>3, <2>4, <2>5, <2>6 DEF NeverForgotten
<1>9. Followed'
  <2> SUFFICES ASSUME NEW i \in DOMAIN results', results'[i].gen = generation, ~results'[i].final
               PROVE  \/ Answer(results', i, generation)
                      \/ pairer'.gen = generation /\ pairer'.pc \in Posting
    BY DEF Followed, Progress, Aside
  <2>1. CASE i = Len(results) + 1
    BY <1>2, <1>3, <2>1 DEF Progress
  <2>2. CASE i \in 1..Len(results)
    <3>1. \/ Answer(results, i, generation)
          \/ pairer.gen = generation /\ pairer.pc \in Posting
      BY <1>3, <2>2 DEF PairingInv, Followed
    <3>2. i \in 0..Len(results)
      BY <2>2
    <3>3. Answer(results, i, generation) \/ (e.gen = generation /\ e.final)
      BY <1>2, <3>1
    <3> QED BY <1>1, <1>2, <1>3, <3>2, <3>3, AppendedLater
  <2> QED BY <1>3, <2>1, <2>2
<1>10. SessionsApart'
  BY DEF PairingInv, SessionsApart, Progress, Aside
<1> QED BY <1>4, <1>5, <1>6, <1>7, <1>8, <1>9, <1>10 DEF PairingInv
\* The worker's steps, one by one.
LEMMA DiscoverKept ==
    ASSUME PairingInv, Discover
    PROVE  PairingInv'
<1>1. pairer \in Jobs /\ busy /\ pairer.pc = "discover" /\ Truth(pairer, accepted)
  BY DEF PairingInv, PairingTyped, Places, Truthful, Discover, At
<1>2. PICK f \in BOOLEAN, e \in BOOLEAN :
          pairer' = [pairer EXCEPT !.pc = "pair", !.found = f, !.error = e]
  <2>1. CASE \E seen \in BOOLEAN :
               pairer' = [pairer EXCEPT !.pc = "pair",
                                        !.found = seen /\ (pairer.paired \/ scanned = pairer.gen)]
    <3>1. PICK seen \in BOOLEAN :
               pairer' = [pairer EXCEPT !.pc = "pair",
                                        !.found = seen /\ (pairer.paired \/ scanned = pairer.gen)]
      BY <2>1
    <3>2. (seen /\ (pairer.paired \/ scanned = pairer.gen)) \in BOOLEAN
      OBVIOUS
    <3>3. pairer.error \in BOOLEAN
      BY <1>1 DEF Jobs
    <3>4. pairer' = [pairer EXCEPT !.pc = "pair",
                                   !.found = seen /\ (pairer.paired \/ scanned = pairer.gen),
                                   !.error = pairer.error]
      BY <1>1, <3>1 DEF Jobs
    <3> QED BY <3>2, <3>3, <3>4
  <2>2. CASE pairer' = [pairer EXCEPT !.pc = "pair", !.error = pairer.action = 0 /\ ~Cancelled]
    <3>1. (pairer.action = 0 /\ ~Cancelled) \in BOOLEAN /\ pairer.found \in BOOLEAN
      BY <1>1 DEF Jobs
    <3>2. pairer' = [pairer EXCEPT !.pc = "pair", !.found = pairer.found,
                                   !.error = pairer.action = 0 /\ ~Cancelled]
      BY <1>1, <2>2 DEF Jobs
    <3> QED BY <3>1, <3>2
  <2> QED BY <2>1, <2>2 DEF Discover
<1>3. Aside /\ busy' = busy /\ results' = results /\ accepted' = accepted
  BY DEF Discover, WorkerOnly, Aside, uiVars
<1>4. /\ pairer' \in Jobs /\ pairer'.pc = "pair" /\ pairer'.gen = pairer.gen
      /\ pairer'.action = pairer.action /\ pairer'.paired = pairer.paired
      /\ pairer'.connected = pairer.connected
  BY <1>1, <1>2 DEF Jobs, PairerPc
<1>5. Progress
  BY <1>1, <1>3, <1>4 DEF Progress, Truth
<1>6. pairer.pc \notin Posting
  BY <1>1 DEF Posting
<1> QED BY <1>3, <1>5, <1>6, SilentKept

\* A message goes out before the pairing, and nothing if there is no pairing.
LEMMA PairKept ==
    ASSUME PairingInv, Pair
    PROVE  PairingInv'
<1>1. pairer \in Jobs /\ busy /\ pairer.pc = "pair" /\ Truth(pairer, accepted)
  BY DEF PairingInv, PairingTyped, Places, Truthful, Pair, At
<1>2. Aside /\ busy' = busy /\ accepted' = accepted
  BY DEF Pair, WorkerOnly, Aside, uiVars
<1>3. pairer.pc \notin Posting
  BY <1>1 DEF Posting
<1>4. CASE /\ pairer' = [pairer EXCEPT !.pc = "pairing", !.found = FALSE]
           /\ results' = Append(results, Result(FALSE))
  <2>1. /\ pairer' \in Jobs /\ pairer'.pc = "pairing" /\ pairer'.gen = pairer.gen
        /\ pairer'.action = pairer.action /\ pairer'.paired = pairer.paired
        /\ pairer'.connected = pairer.connected
    BY <1>1, <1>4 DEF Jobs, PairerPc
  <2>2. Progress
    BY <1>1, <1>2, <2>1 DEF Progress, Truth
  <2>3. pairer'.pc \in Posting
    BY <2>1 DEF Posting
  <2> QED BY <1>3, <1>4, <2>1, <2>2, <2>3, PostingKept
<1>5. CASE /\ pairer' = [pairer EXCEPT !.pc = "connect", !.found = FALSE]
           /\ UNCHANGED results
  <2>1. /\ pairer' \in Jobs /\ pairer'.pc = "connect" /\ pairer'.gen = pairer.gen
        /\ pairer'.action = pairer.action /\ pairer'.paired = pairer.paired
        /\ pairer'.connected = pairer.connected
    BY <1>1, <1>5 DEF Jobs, PairerPc
  <2>2. Progress
    BY <1>1, <1>2, <2>1 DEF Progress, Truth
  <2> QED BY <1>3, <1>5, <2>2, SilentKept
<1> QED BY <1>4, <1>5 DEF Pair

\* The phone accepts before the worker says so.
LEMMA PairedKept ==
    ASSUME PairingInv, Paired
    PROVE  PairingInv'
<1>1. pairer \in Jobs /\ busy /\ pairer.pc = "pairing" /\ Truth(pairer, accepted)
  BY DEF PairingInv, PairingTyped, Places, Truthful, Paired, At
<1>2. Aside /\ busy' = busy /\ results' = results
  BY DEF Paired, WorkerOnly, Aside, uiVars
<1>3. /\ pairer' \in Jobs /\ pairer'.pc \in {"connect", "check"} /\ pairer'.gen = pairer.gen
      /\ pairer'.action = pairer.action /\ pairer'.connected = pairer.connected
      /\ accepted \subseteq accepted' /\ (pairer.paired => pairer'.paired)
      /\ Truth(pairer', accepted')
  <2>1. CASE /\ accepted' = accepted \cup {pairer.gen}
             /\ \E next \in {"connect", "check"} :
                   pairer' = [pairer EXCEPT !.pc = next, !.paired = TRUE, !.error = next = "check"]
    <3>1. PICK next \in {"connect", "check"} :
             pairer' = [pairer EXCEPT !.pc = next, !.paired = TRUE, !.error = next = "check"]
      BY <2>1
    <3>2. /\ pairer' \in Jobs /\ pairer'.pc = next /\ pairer'.gen = pairer.gen
          /\ pairer'.action = pairer.action /\ pairer'.connected = pairer.connected
          /\ pairer'.paired
      BY <1>1, <3>1 DEF Jobs, PairerPc
    <3> QED BY <2>1, <3>2 DEF Truth
  <2>2. CASE /\ accepted' \in {accepted, accepted \cup {pairer.gen}}
             /\ pairer' = [pairer EXCEPT !.pc = "connect", !.error = pairer.error \/ ~Cancelled]
    <3>1. /\ pairer' \in Jobs /\ pairer'.pc = "connect" /\ pairer'.gen = pairer.gen
          /\ pairer'.action = pairer.action /\ pairer'.connected = pairer.connected
          /\ pairer'.paired = pairer.paired
      BY <1>1, <2>2 DEF Jobs, PairerPc
    <3> QED BY <1>1, <2>2, <3>1 DEF Truth
  <2> QED BY <2>1, <2>2 DEF Paired
<1>4. Progress
  BY <1>1, <1>2, <1>3 DEF Progress
<1>5. pairer'.pc \in Posting
  BY <1>3 DEF Posting
<1> QED BY <1>2, <1>4, <1>5, SilentKept

\* Nobody connects to a phone that is not paired.
LEMMA ConnectKept ==
    ASSUME PairingInv, Connect
    PROVE  PairingInv'
<1>1. pairer \in Jobs /\ busy /\ pairer.pc = "connect" /\ Truth(pairer, accepted)
      /\ (pairer.action = 2 => pairer.paired)
  BY DEF PairingInv, PairingTyped, Places, Truthful, Connect, At
<1>2. Aside /\ busy' = busy /\ results' = results /\ accepted' = accepted
  BY DEF Connect, WorkerOnly, Aside, uiVars
<1>3. /\ pairer' \in Jobs /\ pairer'.pc = "check" /\ pairer'.gen = pairer.gen
      /\ pairer'.action = pairer.action /\ pairer'.paired = pairer.paired
      /\ pairer'.connected => pairer.paired
  <2>1. CASE /\ pairer.action = 2 \/ pairer.paired
             /\ \E threw \in BOOLEAN :
                   pairer' = [pairer EXCEPT !.pc = "check", !.connected = TRUE,
                                            !.error = @ \/ threw]
    BY <1>1, <2>1 DEF Jobs, PairerPc
  <2>2. CASE pairer' = [pairer EXCEPT !.pc = "check", !.error = pairer.error \/ ~Cancelled]
    BY <1>1, <2>2 DEF Jobs, PairerPc, Truth
  <2>3. CASE pairer' = [pairer EXCEPT !.pc = "check"]
    BY <1>1, <2>3 DEF Jobs, PairerPc, Truth
  <2> QED BY <2>1, <2>2, <2>3 DEF Connect
<1>4. Progress
  BY <1>1, <1>2, <1>3 DEF Progress, Truth
<1>5. pairer'.pc \in Posting
  BY <1>3 DEF Posting
<1> QED BY <1>2, <1>4, <1>5, SilentKept

\* A worker of the session that is open is not cancelled.
LEMMA CheckKept ==
    ASSUME PairingInv, Check
    PROVE  PairingInv'
<1>1. pairer \in Jobs /\ busy /\ pairer.pc = "check" /\ Truth(pairer, accepted)
      /\ Within(pairer.gen)
  BY DEF PairingInv, PairingTyped, Places, Generations, Truthful, Check, At
<1>2. Aside /\ busy' = busy /\ results' = results /\ accepted' = accepted
  BY DEF Check, WorkerOnly, Aside, uiVars
<1>3. /\ pairer' \in Jobs /\ pairer'.pc = (IF Cancelled THEN "leave" ELSE "post")
      /\ pairer'.gen = pairer.gen /\ pairer'.action = pairer.action
      /\ pairer'.paired = pairer.paired /\ pairer'.connected = pairer.connected
  BY <1>1 DEF Check, Jobs, PairerPc
<1>4. Progress
  BY <1>1, <1>2, <1>3 DEF Progress, Truth
<1>5. pairer.gen = generation => pairer'.pc \in Posting
  BY <1>1, <1>3 DEF Within, Open, Cancelled, Posting
<1> QED BY <1>2, <1>4, <1>5, SilentKept

\* The result is of the worker's own session.
LEMMA SayKept ==
    ASSUME PairingInv, Post
    PROVE  PairingInv'
<1>1. pairer \in Jobs /\ busy /\ pairer.pc = "post" /\ Truth(pairer, accepted)
  BY DEF PairingInv, PairingTyped, Places, Truthful, Post, At
<1>2. Aside /\ busy' = busy /\ accepted' = accepted
  BY DEF Post, WorkerOnly, Aside, uiVars
<1>3. /\ pairer' \in Jobs /\ pairer'.pc = "leave"
      /\ pairer'.gen = pairer.gen /\ pairer'.action = pairer.action
      /\ pairer'.paired = pairer.paired /\ pairer'.connected = pairer.connected
  BY <1>1 DEF Post, Jobs, PairerPc
<1>4. Progress
  BY <1>1, <1>2, <1>3 DEF Progress, Truth
<1>5. PICK final \in BOOLEAN : final /\ final = TRUE
  OBVIOUS
<1>6. results' = Append(results, Result(final))
  BY <1>5 DEF Post
<1> QED BY <1>3, <1>4, <1>5, <1>6, PostingKept

\* What the worker had to say has been posted when it stops being busy.
LEMMA NotBusyKept ==
    ASSUME PairingInv, NotBusy
    PROVE  PairingInv'
<1>1. pairer.pc = "leave" /\ pairer' = Idle /\ busy' = FALSE /\ results' = results
      /\ accepted' = accepted /\ Aside
  BY DEF NotBusy, At, WorkerOnly, Aside, uiVars
<1>2. PairingTyped'
  BY <1>1 DEF PairingInv, PairingTyped, Jobs, PairerPc, Idle, Aside
<1>3. Places'
  BY <1>1 DEF PairingInv, Places, Idle, Aside
<1>4. Generations' /\ Truthful'
  BY <1>1 DEF PairingInv, Generations, Within, Open, Truthful, Aside
<1>5. NeverForgotten'
  BY <1>1 DEF PairingInv, NeverForgotten, WorkerKnows, Aside
<1>6. Followed'
  BY <1>1 DEF PairingInv, Followed, Posting, Aside
<1>7. SessionsApart'
  BY <1>1 DEF PairingInv, SessionsApart, Aside
<1> QED BY <1>2, <1>3, <1>4, <1>5, <1>6, <1>7 DEF PairingInv
-----------------------------------------------------------------------------
(* The pairing dialog: the frames of the user interface. *)

\* The queue becomes the batch: what it said of the messages, the batch says now.
LEMMA TakeResultsKept ==
    ASSUME PairingInv, TakeResults
    PROVE  PairingInv'
<1>1. /\ batch = <<>> /\ batch' = results /\ results' = <<>> /\ frame' = "apply"
      /\ frame = "drain"
      /\ UNCHANGED <<dialog, useQr, generation, done, ready, error, expired, shutdown, busy,
                     pairer, accepted, saved, overtaken>>
  BY DEF PairingInv, Places, TakeResults, uiVars
<1>2. DOMAIN results' = {}
  BY <1>1
<1>3. PairingTyped'
  BY <1>1 DEF PairingInv, PairingTyped, Frames
<1>4. Places'
  BY <1>1 DEF PairingInv, Places
<1>5. Generations' /\ Truthful'
  BY <1>1, <1>2 DEF PairingInv, Generations, Truthful, Within, Open
<1>6. NeverForgotten'
  BY <1>1, <1>2 DEF PairingInv, NeverForgotten, Later, WorkerKnows
<1>7. Followed'
  BY <1>2 DEF Followed
<1>8. SessionsApart'
  BY <1>1 DEF PairingInv, SessionsApart
<1> QED BY <1>3, <1>4, <1>5, <1>6, <1>7, <1>8 DEF PairingInv

\* A result is taken exactly if it is of the session that is open.
LEMMA OneResult ==
    ASSUME PairingInv, ApplyResult, NEW m, m = Head(batch)
    PROVE  /\ m \in PairResult /\ m = batch[1] /\ 1 \in DOMAIN batch /\ batch' = Tail(batch)
           /\ Truth(m, accepted) /\ ~shutdown
           /\ (m.gen = generation /\ dialog /\ Taken(m)) \/ (m.gen # generation /\ Ignored)
           /\ UNCHANGED <<frame, dialog, useQr, generation, shutdown, busy, pairer, results,
                          accepted, overtaken>>
<1>1. batch \in Seq(PairResult) /\ batch # <<>> /\ frame = "apply" /\ batch' = Tail(batch)
      /\ UNCHANGED <<frame, dialog, useQr, generation, shutdown, busy, pairer, results,
                     accepted, overtaken>>
  BY DEF PairingInv, PairingTyped, ApplyResult
<1>2. m \in PairResult /\ m = batch[1] /\ 1 \in DOMAIN batch
  BY <1>1, RestOfBatch
<1>3. Truth(m, accepted) /\ Within(m.gen) /\ ~shutdown
  BY <1>1, <1>2 DEF PairingInv, Places, Generations, Truthful
<1>4. IF dialog /\ m.gen = generation THEN Taken(m) ELSE Ignored
  BY DEF ApplyResult, Applied
<1> QED BY <1>1, <1>2, <1>3, <1>4 DEF Within, Open

\* What the dialog knows after a result, it has from this one or from before.
LEMMA ApplyResultKept ==
    ASSUME PairingInv, ApplyResult
    PROVE  PairingInv' /\ (done /\ ~overtaken => done')
<1>1. PICK m : m = Head(batch)
  OBVIOUS
<1>2. /\ m \in PairResult /\ m = batch[1] /\ 1 \in DOMAIN batch /\ batch' = Tail(batch)
      /\ Truth(m, accepted) /\ ~shutdown
      /\ (m.gen = generation /\ dialog /\ Taken(m)) \/ (m.gen # generation /\ Ignored)
      /\ UNCHANGED <<frame, dialog, useQr, generation, shutdown, busy, pairer, results,
                     accepted, overtaken>>
  BY <1>1, OneResult
<1>3. /\ batch \in Seq(PairResult) /\ batch # <<>>
  BY DEF PairingInv, PairingTyped, ApplyResult
<1>4. /\ batch' \in Seq(PairResult)
      /\ \A i \in DOMAIN batch' : i \in Nat /\ i + 1 \in DOMAIN batch /\ batch'[i] = batch[i + 1]
      /\ \A i \in Nat : Later(batch, i + 1, generation) => Later(batch', i, generation)
      /\ Later(batch, 0, generation) => Later(batch', 0, generation)
  <2>1. generation \in Nat
    BY DEF PairingInv, PairingTyped
  <2> QED BY <1>2, <1>3, <2>1, RestOfBatch
<1>5. PairingTyped'
  <2>1. /\ done' \in BOOLEAN /\ ready' \in Nat /\ error' \in BOOLEAN /\ expired' \in BOOLEAN
    BY <1>2 DEF PairingInv, PairingTyped, PairResult, Taken, Ignored
  <2> QED BY <1>2, <1>4, <2>1 DEF PairingInv, PairingTyped
<1>6. Places'
  BY <1>2 DEF PairingInv, Places, ApplyResult
<1>7. Generations'
  BY <1>2, <1>4 DEF PairingInv, Generations, Within, Open
<1>8. Truthful'
  BY <1>2, <1>4 DEF PairingInv, Truthful
<1>9. ASSUME ~overtaken
      PROVE  /\ done => Later(batch, 0, generation) /\ Later(results, 0, generation) /\ WorkerKnows
             /\ \A i \in DOMAIN batch : batch[i].gen = generation /\ batch[i].paired =>
                  Later(batch, i, generation) /\ Later(results, 0, generation) /\ WorkerKnows
             /\ \A i \in DOMAIN results : results[i].gen = generation /\ results[i].paired =>
                  Later(results, i, generation) /\ WorkerKnows
  BY <1>9 DEF PairingInv, NeverForgotten
<1>10. done /\ ~overtaken => done'
  <2>1. CASE m.gen = generation /\ Taken(m)
    <3>1. done /\ ~overtaken => m.paired
      BY <1>2, <1>9, <2>1 DEF Later
    <3> QED BY <2>1, <3>1 DEF Taken
  <2>2. CASE Ignored
    BY <2>2 DEF Ignored
  <2> QED BY <1>2, <2>1, <2>2
<1>11. NeverForgotten'
  <2> SUFFICES ASSUME ~overtaken PROVE NeverForgotten'
    BY <1>2 DEF NeverForgotten
  <2>1. WorkerKnows' <=> WorkerKnows
    BY <1>2 DEF WorkerKnows
  <2>2. ASSUME done'
        PROVE  Later(batch', 0, generation) /\ Later(results, 0, generation) /\ WorkerKnows
    <3>1. CASE m.gen = generation /\ Taken(m)
      <4>1. m.paired
        BY <2>2, <3>1 DEF Taken
      <4>2. Later(batch, 1, generation) /\ Later(results, 0, generation) /\ WorkerKnows
        BY <1>2, <1>9, <3>1, <4>1
      <4>3. Later(batch, 0 + 1, generation) /\ 0 \in Nat
        BY <4>2
      <4> QED BY <1>4, <4>2, <4>3
    <3>2. CASE Ignored
      BY <1>4, <1>9, <2>2, <3>2 DEF Ignored
    <3> QED BY <1>2, <3>1, <3>2
  <2>3. ASSUME NEW i \in DOMAIN batch', batch'[i].gen = generation, batch'[i].paired
        PROVE  Later(batch', i, generation) /\ Later(results, 0, generation) /\ WorkerKnows
    BY <1>4, <1>9, <2>3
  <2> QED BY <1>2, <1>9, <2>1, <2>2, <2>3 DEF NeverForgotten
<1>12. Followed'
  BY <1>2 DEF PairingInv, Followed
<1>13. SessionsApart'
  <2>1. CASE m.gen = generation /\ dialog /\ Taken(m)
    <3>1. ready' \in {ready, generation} /\ (ready' # ready => m.paired)
      BY <1>2, <2>1 DEF Taken, Truth
    <3>2. saved' \subseteq accepted
      BY <1>2, <2>1 DEF PairingInv, SessionsApart, Taken, Truth
    <3>3. done' => generation \in accepted
      BY <1>2, <2>1 DEF Taken, Truth
    <3>4. ready' # 0 /\ ~overtaken => done'
      <4>1. CASE ready' = ready
        BY <1>10, <2>1, <4>1 DEF PairingInv, SessionsApart
      <4>2. CASE ready' # ready
        BY <2>1, <3>1, <4>2 DEF Taken
      <4> QED BY <4>1, <4>2
    <3> QED BY <1>2, <3>1, <3>2, <3>3, <3>4 DEF PairingInv, SessionsApart
  <2>2. CASE Ignored
    BY <1>2, <2>2 DEF PairingInv, SessionsApart, Ignored
  <2> QED BY <1>2, <2>1, <2>2
<1> QED BY <1>5, <1>6, <1>7, <1>8, <1>10, <1>11, <1>12, <1>13 DEF PairingInv

\* A step that only moves the frame on, or the time, or the phone.
Quiet ==
    /\ frame' \in Frames /\ expired' \in BOOLEAN
    /\ frame' \in {"join", "gone"} <=> frame \in {"join", "gone"}
    /\ batch # <<>> => frame' = "apply"
    /\ UNCHANGED <<dialog, useQr, generation, done, ready, error, shutdown, busy, pairer,
                   results, batch, accepted, saved, overtaken>>

\* Such a step changes nothing that the invariant speaks of.
LEMMA NothingSaidKept ==
    ASSUME PairingInv, Quiet
    PROVE  PairingInv'
<1>1. PairingTyped' /\ Places'
  BY DEF PairingInv, PairingTyped, Places, Quiet
<1>2. Generations' /\ Truthful'
  BY DEF PairingInv, Generations, Within, Open, Truthful, Quiet
<1>3. NeverForgotten' /\ Followed'
  BY DEF PairingInv, NeverForgotten, WorkerKnows, Followed, Quiet
<1>4. SessionsApart'
  BY DEF PairingInv, SessionsApart, Quiet
<1> QED BY <1>1, <1>2, <1>3, <1>4 DEF PairingInv

\* A worker starts with what the dialog knows, and when it is started and no result is
\* overtaken, no message of this session is left.
LEMMA StartKept ==
    ASSUME PairingInv, NEW action \in {0, 1, 2}, StartWorker(action), action = 2 => done,
           frame \in {"poll", "click"}, frame' \in {"drain", "click"}, dialog, expired' \in BOOLEAN,
           UNCHANGED <<dialog, useQr, generation, done, ready, shutdown, results, batch, accepted,
                       saved>>
    PROVE  PairingInv'
<1>1. /\ ~busy /\ pairer.pc = "exited" /\ batch = <<>> /\ ~shutdown
      /\ busy' = TRUE /\ error' = FALSE
      /\ pairer' = [pc |-> "discover", gen |-> generation, action |-> action, found |-> FALSE,
                    paired |-> done, connected |-> FALSE, error |-> FALSE]
      /\ overtaken' = (overtaken \/ \E i \in DOMAIN results : results[i].final
                                                          /\ results[i].gen = generation)
  BY DEF PairingInv, Places, StartWorker, Captured, Job
<1>2. PairingTyped'
  BY <1>1 DEF PairingInv, PairingTyped, Jobs, PairerPc, Frames
<1>3. Places'
  BY <1>1 DEF PairingInv, Places
<1>4. Generations'
  <2>1. Within(generation)' /\ pairer'.gen = generation
    BY <1>1 DEF PairingInv, PairingTyped, Within, Open
  <2> QED BY <1>1, <2>1 DEF PairingInv, Generations, Within, Open
<1>5. Truthful'
  <2>1. Truth(pairer', accepted)
    BY <1>1 DEF PairingInv, SessionsApart, Truth
  <2> QED BY <1>1, <2>1 DEF PairingInv, Truthful
<1>6. ASSUME NEW i \in DOMAIN results, results[i].gen = generation, ~results[i].final
      PROVE  Answer(results, i, generation)
  BY <1>1, <1>6 DEF PairingInv, Followed, Posting
<1>7. NeverForgotten'
  <2> SUFFICES ASSUME ~overtaken' PROVE NeverForgotten'
    BY DEF NeverForgotten
  <2>1. ASSUME NEW i \in DOMAIN results PROVE results[i].gen # generation
    BY <1>1, <1>6 DEF Answer
  <2>2. WorkerKnows' <=> done
    BY <1>1 DEF WorkerKnows
  <2>3. DOMAIN batch = {}
    BY <1>1
  <2> QED BY <2>1, <2>2, <2>3 DEF NeverForgotten, Later
<1>8. Followed'
  BY <1>6 DEF Followed
<1>9. SessionsApart'
  BY <1>1 DEF PairingInv, SessionsApart
<1> QED BY <1>2, <1>3, <1>4, <1>5, <1>7, <1>8, <1>9 DEF PairingInv

\* Nothing is of a session that has just begun: neither a message nor the worker.
LEMMA NewGenerationKept ==
    ASSUME PairingInv, generation' = generation + 1, batch = <<>>,
           dialog' \in BOOLEAN, useQr' \in BOOLEAN, done' \in BOOLEAN, ready' \in Nat,
           error' \in BOOLEAN, expired' \in BOOLEAN, shutdown' \in BOOLEAN,
           overtaken' \in BOOLEAN,
           frame' \in Frames, shutdown' <=> frame' \in {"join", "gone"},
           UNCHANGED <<busy, pairer, results, batch, accepted, saved>>,
           \/ done' = FALSE /\ ready' = 0
           \/ dialog' = FALSE
           \/ shutdown' /\ UNCHANGED <<dialog, done, ready, overtaken>>
    PROVE  PairingInv'
<1>1. /\ generation \in Nat
      /\ busy => pairer.gen <= generation /\ pairer.gen \in Nat
      /\ \A i \in DOMAIN results : results[i].gen <= generation
      /\ \A i \in DOMAIN results : results[i].gen \in Nat
  <2>1. generation \in Nat /\ pairer \in Jobs /\ results \in Seq(PairResult)
    BY DEF PairingInv, PairingTyped
  <2>2. \A i \in DOMAIN results : results[i] \in PairResult
    BY <2>1
  <2>3. pairer.gen \in Nat /\ \A i \in DOMAIN results : results[i].gen \in Nat
    BY <2>1, <2>2 DEF Jobs, PairResult
  <2>4. /\ busy => pairer.gen <= generation
        /\ \A i \in DOMAIN results : results[i].gen <= generation
    BY DEF PairingInv, Generations, Within
  <2> QED BY <2>1, <2>3, <2>4
<1>2. DOMAIN batch = {}
  OBVIOUS
<1>3. PairingTyped'
  BY DEF PairingInv, PairingTyped
<1>4. Places'
  BY DEF PairingInv, Places
<1>5. Generations'
  <2>1. \A g \in Nat : g <= generation => Within(g)'
    BY <1>1 DEF Within
  <2> QED BY <1>1, <1>2, <2>1 DEF Generations
<1>6. Truthful'
  BY DEF PairingInv, Truthful
<1>7. NeverForgotten'
  BY <1>1, <1>2 DEF NeverForgotten, Later, WorkerKnows
<1>8. Followed'
  BY <1>1 DEF Followed
<1>9. SessionsApart'
  BY DEF PairingInv, SessionsApart
<1> QED BY <1>3, <1>4, <1>5, <1>6, <1>7, <1>8, <1>9 DEF PairingInv
\* The worker that looks for the phone by itself knows what the dialog knows.
LEMMA PollKept ==
    ASSUME PairingInv, PollPairing
    PROVE  PairingInv'
<1>1. CASE MayPoll /\ StartWorker(0)
  <2>1. /\ frame = "poll" /\ frame' = "click" /\ dialog
        /\ UNCHANGED <<dialog, useQr, generation, done, ready, expired, shutdown, results, batch,
                       accepted, saved>>
    BY <1>1 DEF PollPairing, MayPoll
  <2>2. expired' \in BOOLEAN
    BY <2>1 DEF PairingInv, PairingTyped
  <2>3. PICK action \in {0, 1, 2} : action = 0
    OBVIOUS
  <2>4. StartWorker(action) /\ action # 2
    BY <1>1, <2>3
  <2> QED BY <2>1, <2>2, <2>4, StartKept
<1>2. CASE UNCHANGED <<busy, started, pairer, error, overtaken>>
  <2>1. frame = "poll" /\ batch = <<>>
    BY DEF PollPairing, PairingInv, Places
  <2>2. Quiet
    BY <1>2, <2>1 DEF PollPairing, Quiet, Frames, PairingInv, PairingTyped
  <2> QED BY <2>2, NothingSaidKept
<1> QED BY <1>1, <1>2 DEF PollPairing

\* Nor does a click lose what the dialog knows of its session.
LEMMA SubmitKept ==
    ASSUME PairingInv, Submit
    PROVE  PairingInv'
<1>1. PICK action \in {0, 1, 2} : action = IF done THEN 2 ELSE 1
  OBVIOUS
<1>2. /\ frame = "click" /\ frame' = "drain" /\ dialog /\ expired' = FALSE /\ StartWorker(action)
      /\ UNCHANGED <<dialog, useQr, generation, done, ready, shutdown, results, batch, accepted,
                     saved>>
  BY <1>1 DEF Submit, Click
<1>3. action = 2 => done
  BY <1>1
<1>4. expired' \in BOOLEAN
  BY <1>2
<1> QED BY <1>1, <1>2, <1>3, <1>4, StartKept

\* Nothing is of the new session yet.
LEMMA NewSessionKept ==
    ASSUME PairingInv, Click, NEW qr \in BOOLEAN, NewSession(qr), dialog' \in BOOLEAN
    PROVE  PairingInv'
<1>1. batch = <<>> /\ ~shutdown
  BY DEF Click, PairingInv, Places
<1>2. /\ generation' = generation + 1 /\ done' = FALSE /\ ready' = 0 /\ error' \in BOOLEAN
      /\ expired' = FALSE /\ useQr' = qr /\ overtaken' = FALSE /\ frame' = "drain"
      /\ UNCHANGED <<shutdown, busy, pairer, results, batch, accepted, saved>>
  BY DEF Click, NewSession
<1>3. frame' \in Frames /\ (shutdown' <=> frame' \in {"join", "gone"})
      /\ done' \in BOOLEAN /\ ready' \in Nat /\ expired' \in BOOLEAN /\ useQr' \in BOOLEAN
      /\ shutdown' \in BOOLEAN /\ overtaken' \in BOOLEAN
  BY <1>1, <1>2 DEF Frames, PairingInv, PairingTyped
<1> QED BY <1>1, <1>2, <1>3, NewGenerationKept

\* What the dialog leaves behind when it closes is of a session that is over.
LEMMA NoDialogKept ==
    ASSUME PairingInv, CloseDialog \/ ShutDown
    PROVE  PairingInv'
<1>1. /\ PairingTyped /\ Places /\ batch = <<>>
      /\ generation' = generation + 1
      /\ UNCHANGED <<useQr, done, ready, error, expired, busy, pairer, results, batch, accepted,
                     saved, overtaken>>
  BY DEF PairingInv, Places, CloseDialog, ShutDown, Click
<1>2. /\ dialog' \in BOOLEAN /\ shutdown' \in BOOLEAN /\ frame' \in Frames
      /\ shutdown' <=> frame' \in {"join", "gone"}
      /\ dialog' = FALSE \/ (shutdown' /\ UNCHANGED <<dialog, done, ready, overtaken>>)
  <2>1. CASE CloseDialog
    <3>1. frame = "click" /\ frame' = "drain" /\ dialog' = FALSE /\ shutdown' = shutdown
      BY <2>1 DEF CloseDialog, Click
    <3>2. shutdown = FALSE
      BY <1>1, <3>1 DEF PairingTyped, Places
    <3> QED BY <3>1, <3>2 DEF Frames
  <2>2. CASE ShutDown
    BY <1>1, <2>2 DEF ShutDown, PairingTyped, Frames
  <2> QED BY <2>1, <2>2
<1>3. /\ useQr' \in BOOLEAN /\ done' \in BOOLEAN /\ ready' \in Nat /\ error' \in BOOLEAN
      /\ expired' \in BOOLEAN /\ overtaken' \in BOOLEAN
  BY <1>1 DEF PairingTyped
<1>4. UNCHANGED <<busy, pairer, results, batch, accepted, saved>>
  BY <1>1
<1> QED BY <1>1, <1>2, <1>3, <1>4, NewGenerationKept

\* The steps that say nothing: of the frame, of the time and of the phone.
LEMMA QuietSteps ==
    ASSUME PairingInv,
           NoClick \/ Drained \/ JoinWorker \/ Scan \/ Withdraw \/ Expire \/ UNCHANGED pairingVars
    PROVE  PairingInv'
<1>1. PairingTyped /\ Places
  BY DEF PairingInv
<1>2. CASE NoClick
  BY <1>1, <1>2, NothingSaidKept DEF NoClick, Click, uiVars, Quiet, Frames, PairingTyped, Places
<1>3. CASE Drained
  BY <1>1, <1>3, NothingSaidKept DEF Drained, uiVars, Quiet, Frames, PairingTyped, Places
<1>4. CASE JoinWorker
  BY <1>1, <1>4, NothingSaidKept DEF JoinWorker, uiVars, Quiet, Frames, PairingTyped, Places
<1>5. CASE Scan \/ Withdraw
  BY <1>1, <1>5, NothingSaidKept DEF Scan, Withdraw, uiVars, Quiet, Frames, PairingTyped, Places
<1>6. CASE Expire
  BY <1>1, <1>6, NothingSaidKept DEF Expire, Quiet, Frames, PairingTyped, Places
<1>7. CASE UNCHANGED pairingVars
  BY <1>1, <1>7, NothingSaidKept DEF pairingVars, uiVars, Quiet, Frames, PairingTyped, Places
<1> QED BY <1>2, <1>3, <1>4, <1>5, <1>6, <1>7

\* Nothing is known, posted or open at first.
LEMMA PairingInvInit == PairingInit => PairingInv
<1> SUFFICES ASSUME PairingInit PROVE PairingInv
  OBVIOUS
<1>1. DOMAIN results = {} /\ DOMAIN batch = {}
  BY DEF PairingInit
<1>2. PairingTyped
  <2>1. pairer \in Jobs
    BY DEF PairingInit, Idle, Jobs, PairerPc
  <2>2. results \in Seq(PairResult) /\ batch \in Seq(PairResult)
    BY DEF PairingInit
  <2> QED BY <2>1, <2>2 DEF PairingInit, PairingTyped, Frames
<1>3. Places
  BY DEF PairingInit, Places, Idle
<1>4. Generations /\ Truthful /\ NeverForgotten /\ Followed
  BY <1>1 DEF PairingInit, Generations, Truthful, NeverForgotten, Followed, Idle
<1>5. SessionsApart
  BY DEF PairingInit, SessionsApart
<1> QED BY <1>2, <1>3, <1>4, <1>5 DEF PairingInv

\* Every step keeps it.
LEMMA PairingInvNext == PairingInv /\ [PairingNext]_pairingVars => PairingInv'
<1> SUFFICES ASSUME PairingInv, [PairingNext]_pairingVars PROVE PairingInv'
  OBVIOUS
<1>1. CASE TakeResults
  BY <1>1, TakeResultsKept
<1>2. CASE ApplyResult
  BY <1>2, ApplyResultKept
<1>3. CASE Drained \/ NoClick \/ JoinWorker \/ Scan \/ Withdraw \/ Expire \/ UNCHANGED pairingVars
  BY <1>3, QuietSteps
<1>4. CASE PollPairing
  BY <1>4, PollKept
<1>5. CASE OpenDialog \/ ChooseTab \/ NewCode
  <2>1. PICK qr \in BOOLEAN : NewSession(qr) /\ Click /\ dialog' \in BOOLEAN
    <3>1. useQr \in BOOLEAN /\ dialog \in BOOLEAN /\ (~useQr) \in BOOLEAN
      BY DEF PairingInv, PairingTyped
    <3>2. CASE OpenDialog
      BY <3>2 DEF OpenDialog
    <3>3. CASE ChooseTab
      BY <3>1, <3>3 DEF ChooseTab
    <3>4. CASE NewCode
      BY <3>1, <3>4 DEF NewCode
    <3> QED BY <1>5, <3>2, <3>3, <3>4
  <2> QED BY <2>1, NewSessionKept
<1>6. CASE CloseDialog \/ ShutDown
  BY <1>6, NoDialogKept
<1>7. CASE Submit
  BY <1>7, SubmitKept
<1>8. CASE PairingWork
  BY <1>8, DiscoverKept, PairKept, PairedKept, ConnectKept, CheckKept, SayKept, NotBusyKept
     DEF PairingWork
<1> QED BY <1>1, <1>2, <1>3, <1>4, <1>5, <1>6, <1>7, <1>8 DEF PairingNext, Frame, Buttons

\* The invariant of the dialog, its worker and the messages between them.
THEOREM PairingInvariance == PairingSpec => []PairingInv
<1>1. PairingInit => PairingInv
  BY PairingInvInit
<1>2. PairingInv /\ [PairingNext]_pairingVars => PairingInv'
  BY PairingInvNext
<1> QED BY <1>1, <1>2, PTL DEF PairingSpec

\* No result of an earlier session is shown or saved in a later one, whatever was in the
\* queue or under way when the user went on.
THEOREM NoOtherSession == PairingSpec => []SessionsApart
<1>1. PairingInv => SessionsApart
  BY DEF PairingInv
<1> QED BY <1>1, PairingInvariance, PTL

\* No result that comes late makes the dialog forget that the phone is paired.
THEOREM PairedIsNotForgotten == PairingSpec => PairedStays
<1>1. ASSUME PairingInv, [PairingNext]_pairingVars,
             done, generation' = generation, ~overtaken'
      PROVE  done'
  <2>1. generation + 1 # generation
    BY <1>1 DEF PairingInv, PairingTyped
  <2>2. CASE ApplyResult
    <3>1. ~overtaken
      BY <1>1, <2>2 DEF ApplyResult
    <3> QED BY <1>1, <2>2, <3>1, ApplyResultKept
  <2>3. CASE TakeResults \/ Drained \/ PollPairing \/ ShutDown \/ JoinWorker
    BY <1>1, <2>3 DEF TakeResults, Drained, PollPairing, ShutDown, JoinWorker, uiVars
  <2>4. CASE Buttons
    BY <1>1, <2>1, <2>4 DEF Buttons, NoClick, OpenDialog, ChooseTab, NewCode, CloseDialog, Submit,
                            NewSession, uiVars
  <2>5. CASE PairingWork
    BY <1>1, <2>5 DEF PairingWork, Discover, Pair, Paired, Connect, Check, Post, NotBusy,
                      WorkerOnly, uiVars
  <2>6. CASE Scan \/ Withdraw \/ Expire \/ UNCHANGED pairingVars
    BY <1>1, <2>6 DEF Scan, Withdraw, Expire, pairingVars, uiVars
  <2> QED BY <1>1, <2>2, <2>3, <2>4, <2>5, <2>6 DEF PairingNext, Frame
<1>2. PairingInv /\ [PairingNext]_pairingVars
        => [done /\ generation' = generation /\ ~overtaken' => done']_pairingVars
  BY <1>1
<1> QED BY <1>2, PairingInvariance, PTL DEF PairingSpec, PairedStays

=============================================================================
