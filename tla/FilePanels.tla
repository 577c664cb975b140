----------------------------- MODULE FilePanels -----------------------------
(***************************************************************************)
(* The file panels of the window and the threads that fill them: the UI    *)
(* thread asks for a listing, the async worker fetches it, and a message   *)
(* brings it back, by when the user may be in another folder or on another *)
(* device; the poll thread loses devices and prepares them again; a root   *)
(* request restarts the server of a device.  Worker and poll thread do     *)
(* their device work under m_deviceWorkMutex.  At the end App::~App stops  *)
(* the worker and waits for it.                                            *)
(*                                                                         *)
(* The entries of a panel stand for where they come from: the device, the  *)
(* folder and whether the server had root.  A panel shows a folder of a    *)
(* device or, with "slot" None, one of the PC, which is listed at once.    *)
(***************************************************************************)
EXTENDS Naturals, Sequences, Functions

CONSTANTS
    Panel,          \* m_leftPanel, m_rightPanel
    Slot,           \* the device sessions
    Primary,        \* session 0
    Folder,         \* the folders of a device
    Home, Top,      \* its storageRoot, and "/"
    None,
    MaxActs,        \* bound: what the user does
    MaxLosses,      \* bound: connections lost
    MaxThrows       \* bound: tasks that end in an exception

ASSUME NamesAssumption == /\ {Home, Top} \subseteq Folder /\ Primary \in Slot
                          /\ None \notin Folder \cup Slot
ASSUME BoundsAssumption == MaxActs \in Nat /\ MaxLosses \in Nat /\ MaxThrows \in Nat

VARIABLES
    panel,          \* the panels
    views,          \* session.views: what a panel showed of a device it has left
    connected,      \* session.connected
    wanted,         \* m_prefs: root is preferred for the device
    running,        \* client.isServerRunning()
    root,           \* client.useRoot(): the server runs as root
    rootPending,    \* session.rootRequestPending
    cached,         \* session.rootEntries, the listing of Home, None before the first one
    queue,          \* m_asyncQueue
    worker,         \* the async worker: where it is, and its task
    messages,       \* m_uiMessages
    drained,        \* what this frame has taken out of it and not yet applied
    ui,             \* the UI thread: "runs", or in ~App: "notify", "join", "gone"
    acts, losses, throws,       \* the bounded counters
    missed          \* history: ~App notified while the worker was falling asleep

deviceVars == <<connected, running, wanted, root, rootPending, cached>>
vars == <<panel, views, deviceVars, queue, worker, messages, drained, ui, acts,
          losses, throws, missed>>

\* What a listing of a folder gives at the moment.
Listing(s, f) == [slot |-> s, path |-> f, root |-> root[s]]

\* As App::App leaves the right panel: no device has been detected yet.
Start == [slot |-> Primary, path |-> Top, shown |-> None, pending |-> None,
          gen |-> 0, needs |-> TRUE, loading |-> FALSE]

Init ==
    /\ panel = [p \in Panel |-> Start]
    /\ views = [p \in Panel |-> [s \in Slot |-> None]]
    /\ connected = [s \in Slot |-> FALSE] /\ running = [s \in Slot |-> FALSE]
    /\ root = [s \in Slot |-> FALSE] /\ rootPending = [s \in Slot |-> FALSE]
    /\ cached = [s \in Slot |-> None] /\ wanted = [s \in Slot |-> FALSE]
    /\ queue = <<>> /\ worker = [pc |-> "test", task |-> None]
    /\ messages = <<>> /\ drained = <<>> /\ ui = "runs"
    /\ acts = 0 /\ losses = 0 /\ throws = 0 /\ missed = FALSE

OnDevice(x) == x.slot # None

\* The UI thread draws and handles clicks when it has applied what it has drained.
Drawing == ui = "runs" /\ drained = <<>>

-----------------------------------------------------------------------------
(* What changes a panel. *)

\* Mutant of Discard: the panel still waits for the listing it will not take.
DiscardLoading(x) == [x EXCEPT !.gen = @ + 1]

\* The listing under way is not wanted any more.
Discard(x) == [x EXCEPT !.gen = @ + 1, !.loading = FALSE]

\* navigateToDirectory, and Back and Forward: no new generation, and the
\* entries of the old folder stay until the listing comes.
Navigated(x, f) == [x EXCEPT !.path = f, !.needs = TRUE]

\* rememberDeviceView.
Remembered(p, x) ==
    IF OnDevice(x) /\ x.pending = None /\ connected[x.slot]
    THEN [views[p] EXCEPT ![x.slot] = [path |-> x.path, shown |-> x.shown]]
    ELSE views[p]

\* openDeviceSession.
Opened(p, x, s) ==
    IF x.slot = s /\ x.pending = None THEN x
    ELSE LET view == IF views[p][s] # None THEN views[p][s]
                     ELSE [path |-> Home, shown |-> cached[s]]
         IN [Discard(x) EXCEPT !.slot = s, !.path = view.path, !.shown = view.shown,
                               !.pending = None, !.needs = TRUE]

\* A click, within the bound.
Act ==
    /\ Drawing /\ acts < MaxActs /\ acts' = acts + 1
    /\ UNCHANGED <<connected, running, wanted, root, cached, messages, drained, ui, losses,
                   throws, missed>>

Change(p, x) ==
    /\ panel' = [panel EXCEPT ![p] = x]
    /\ UNCHANGED <<rootPending, queue, worker>>

Navigate(p, f) ==
    /\ Act
    /\ OnDevice(panel[p]) /\ panel[p].pending = None /\ panel[p].path # f
    /\ ~rootPending[panel[p].slot]          \* the panel is disabled meanwhile
    /\ Change(p, Navigated(panel[p], f)) /\ UNCHANGED views

\* F5, and the end of every operation that changes files.
RefreshWanted(p) ==
    /\ Act
    /\ ~panel[p].needs
    /\ Change(p, [panel[p] EXCEPT !.needs = TRUE]) /\ UNCHANGED views

\* "This PC": switchPanelMode.
ShowPc(p) ==
    /\ Act
    /\ OnDevice(panel[p])
    /\ Change(p, [Discard(panel[p]) EXCEPT !.slot = None, !.path = None, !.shown = None,
                                           !.pending = None, !.needs = TRUE])
    /\ views' = [views EXCEPT ![p] = Remembered(p, panel[p])]

\* The menu of locations: a device the application knows, online or not.
ShowDevice(p, s) ==
    LET x == [panel[p] EXCEPT !.pending = None] IN
    /\ Act
    /\ panel[p].slot # s \/ panel[p].pending # None
    /\ Change(p, Opened(p, x, s))
    /\ views' = IF x.slot = s THEN views ELSE [views EXCEPT ![p] = Remembered(p, x)]

\* The list of connections: a device that is not connected yet.  The panel keeps
\* its slot until the device is there.
AwaitDevice(p, s) ==
    /\ Act
    /\ ~connected[s] /\ panel[p].pending # s
    /\ OnDevice(panel[p])
    /\ Change(p, [Discard(panel[p]) EXCEPT !.shown = None, !.path = Home, !.needs = TRUE, !.pending = s])
    /\ views' = [views EXCEPT ![p] = Remembered(p, panel[p])]

-----------------------------------------------------------------------------
(* refreshPanel, in every frame, and postAsync. *)

\* The worker cannot be between its test and its sleep: it has the mutex.
Free == worker.pc # "dozing"
Woken == IF worker.pc = "asleep" THEN [worker EXCEPT !.pc = "test"] ELSE worker
PostAsync(task) == Free /\ queue' = Append(queue, task) /\ worker' = Woken

RefreshPc(p) ==
    /\ Drawing /\ panel[p].needs /\ ~OnDevice(panel[p])
    /\ panel' = [panel EXCEPT ![p].needs = FALSE, ![p].loading = FALSE]
    /\ UNCHANGED <<views, deviceVars, queue, worker, messages, drained, ui, acts, losses,
                   throws, missed>>

Refresh(p) ==
    LET s == panel[p].slot IN
    /\ Drawing /\ panel[p].needs /\ OnDevice(panel[p])
    /\ panel[p].pending = None /\ ~rootPending[s]
    /\ connected[s] /\ running[s] /\ ~panel[p].loading
    /\ panel' = [panel EXCEPT ![p].needs = FALSE, ![p].loading = TRUE, ![p].gen = @ + 1]
    /\ PostAsync([kind |-> "list", panel |-> p, slot |-> s, path |-> panel[p].path,
                  gen |-> panel[p].gen + 1])
    /\ UNCHANGED <<views, deviceVars, messages, drained, ui, acts, losses, throws, missed>>

\* requestDeviceRoot.
RequestRoot(p) ==
    LET s == panel[p].slot IN
    /\ Act
    /\ OnDevice(panel[p]) /\ panel[p].pending = None
    /\ connected[s] /\ running[s] /\ ~rootPending[s]
    /\ worker.pc \notin {"run", "restart"}   \* m_asyncBusy
    /\ rootPending' = [rootPending EXCEPT ![s] = TRUE]
    /\ PostAsync([kind |-> "root", panel |-> p, slot |-> s, path |-> None, gen |-> panel[p].gen])
    /\ UNCHANGED <<panel, views>>

-----------------------------------------------------------------------------
(* drainUiMessages. *)

Accepts(x, m) == x.pending = None /\ x.slot = m.slot /\ x.path = m.path

Listed(x, m) ==
    IF x.gen # m.gen THEN x
    ELSE IF Accepts(x, m) THEN [x EXCEPT !.loading = FALSE, !.shown = m.shown]
    ELSE [x EXCEPT !.loading = FALSE]

\* Mutant of Ready: a panel whose folder stays keeps what it shows.
ReadyKeeps(p, x, m) ==
    IF x.pending = m.slot THEN Opened(p, x, m.slot)
    ELSE IF x.slot = m.slot /\ x.pending = None /\ x.path = Top
         THEN [Discard(x) EXCEPT !.path = Home, !.shown = cached[m.slot], !.needs = TRUE]
         ELSE x

\* The device is there: panels that wait for it open it, its panels list again,
\* those at "/" from its storage root.
Ready(p, x, m) ==
    IF x.pending = m.slot THEN Opened(p, x, m.slot)
    ELSE IF x.slot # m.slot \/ x.pending # None THEN x
    ELSE IF x.path = Top
         THEN [Discard(x) EXCEPT !.path = Home, !.shown = cached[m.slot], !.needs = TRUE]
         ELSE [x EXCEPT !.needs = TRUE]

\* Root was granted to the panel's request, or is gone: its listing may differ.
Rooted(p, x, m) ==
    IF x.slot # m.slot \/ x.pending # None THEN x
    ELSE LET y == [Discard(x) EXCEPT !.needs = TRUE]
         IN IF m.root /\ p = m.panel /\ x.gen = m.gen THEN Navigated(y, Top)
            ELSE IF ~m.root THEN Navigated(y, Home) ELSE y

\* The queue is swapped out under its mutex, and applied message by message:
\* what comes meanwhile is for the next frame.
Drain ==
    /\ Drawing /\ messages # <<>>
    /\ drained' = messages /\ messages' = <<>>
    /\ UNCHANGED <<panel, views, deviceVars, queue, worker, ui, acts, losses, throws, missed>>

Apply ==
    LET m == Head(drained) IN
    /\ ui = "runs" /\ drained # <<>> /\ drained' = Tail(drained)
    /\ panel' = [p \in Panel |->
                    CASE m.kind = "list" -> IF p = m.panel THEN Listed(panel[p], m) ELSE panel[p]
                      [] m.kind = "ready" -> Ready(p, panel[p], m)
                      [] m.kind = "root" -> Rooted(p, panel[p], m)
                      [] m.kind = "denied" -> panel[p]]
    /\ views' = IF m.kind = "root" THEN [p \in Panel |-> [views[p] EXCEPT ![m.slot] = None]]
                ELSE views
    /\ IF m.kind \in {"denied", "root"}
       THEN /\ rootPending' = [rootPending EXCEPT ![m.slot] = FALSE]
            /\ wanted' = [wanted EXCEPT ![m.slot] = m.root]
       ELSE UNCHANGED <<rootPending, wanted>>
    /\ UNCHANGED <<connected, running, root, cached, queue, worker, messages, ui, acts,
                   losses, throws, missed>>

-----------------------------------------------------------------------------
(* asyncWorkerLoop. *)

Step(pc) == worker' = [worker EXCEPT !.pc = pc]
Working == UNCHANGED <<panel, views, rootPending, wanted, drained, ui, acts, missed>>

Exit ==
    /\ worker.pc = "test" /\ ui # "runs"
    /\ Step("exited")
    /\ Working /\ UNCHANGED <<connected, running, root, cached, queue, messages, losses, throws>>

\* The condition is tested with the mutex held, and the sleep lets go of it.
Doze ==
    /\ worker.pc = "test" /\ ui = "runs" /\ queue = <<>>
    /\ Step("dozing")
    /\ Working /\ UNCHANGED <<connected, running, root, cached, queue, messages, losses, throws>>
Sleep ==
    /\ worker.pc = "dozing" /\ Step("asleep")
    /\ Working /\ UNCHANGED <<connected, running, root, cached, queue, messages, losses, throws>>

\* With m_deviceWorkMutex, which the poll thread's steps below need as well.
Take ==
    /\ worker.pc = "test" /\ ui = "runs" /\ queue # <<>>
    /\ worker' = [pc |-> "run", task |-> Head(queue)] /\ queue' = Tail(queue)
    /\ Working /\ UNCHANGED <<connected, running, root, cached, messages, losses, throws>>

Finish ==
    /\ worker' = [pc |-> "test", task |-> None]
    /\ Working /\ UNCHANGED queue

\* postUiMessage.
PostUi(message) == messages' = Append(messages, message)

\* A listing that fails is an empty one.
List ==
    LET t == worker.task IN
    /\ worker.pc = "run" /\ t.kind = "list"
    /\ \E shown \in {None} \cup IF running[t.slot] THEN {Listing(t.slot, t.path)} ELSE {} :
          PostUi([kind |-> "list", panel |-> t.panel, slot |-> t.slot, path |-> t.path,
                gen |-> t.gen, shown |-> shown])
    /\ Finish
    /\ UNCHANGED <<connected, running, root, cached, losses, throws>>

\* An exception: a notification, but no listing.
Throw ==
    /\ worker.pc = "run" /\ worker.task.kind = "list"
    /\ throws < MaxThrows /\ throws' = throws + 1
    /\ Finish
    /\ UNCHANGED <<connected, running, root, cached, messages, losses>>

\* Root was asked for and is not to be had: nothing changes.
DenyRoot ==
    LET t == worker.task IN
    /\ worker.pc = "run" /\ t.kind = "root"
    /\ connected' = [connected EXCEPT ![t.slot] = running[t.slot]]
    /\ PostUi([kind |-> "denied", slot |-> t.slot, root |-> running[t.slot] /\ root[t.slot]])
    /\ Finish
    /\ UNCHANGED <<running, root, cached, losses, throws>>

RestartServer ==
    /\ worker.pc = "run" /\ worker.task.kind = "root"
    /\ Step("restart")
    /\ connected' = [connected EXCEPT ![worker.task.slot] = FALSE]
    /\ Working /\ UNCHANGED <<running, root, cached, queue, messages, losses, throws>>

\* The server of a device comes up, with root or without.
Up(s, mode) ==
    /\ running' = [running EXCEPT ![s] = TRUE]
    /\ connected' = [connected EXCEPT ![s] = TRUE]
    /\ root' = [root EXCEPT ![s] = mode]
    /\ cached' = [cached EXCEPT ![s] = [slot |-> s, path |-> Home, root |-> mode]]

Down(s) ==
    /\ running' = [running EXCEPT ![s] = FALSE]
    /\ connected' = [connected EXCEPT ![s] = FALSE]
    /\ UNCHANGED <<root, cached>>

SwitchRoot ==
    LET t == worker.task
        Tell(mode) == PostUi([kind |-> "root", panel |-> t.panel, slot |-> t.slot,
                            gen |-> t.gen, root |-> mode])
    IN /\ worker.pc = "restart"
       /\ \/ \E mode \in BOOLEAN : Up(t.slot, mode) /\ Tell(mode)
          \/ Down(t.slot) /\ Tell(FALSE)
       /\ Finish
       /\ UNCHANGED <<losses, throws>>

Work == Exit \/ Doze \/ Sleep \/ Take \/ List \/ Throw \/ DenyRoot \/ RestartServer \/ SwitchRoot

-----------------------------------------------------------------------------
(* The poll thread, and the connections. *)

Lose(s) ==
    /\ ui = "runs" /\ running[s] /\ losses < MaxLosses /\ losses' = losses + 1
    /\ running' = [running EXCEPT ![s] = FALSE]
    /\ UNCHANGED <<panel, views, connected, wanted, root, rootPending, cached, queue, worker, messages,
                   drained, ui, acts, throws, missed>>

Polling == ui = "runs" /\ worker.pc \notin {"run", "restart"}

\* The health check fails.  Session 0's panels are emptied there and then; its
\* flag falls when the next server is tried.
Notice(s) ==
    /\ Polling /\ connected[s] /\ ~running[s] /\ ~rootPending[s]
    /\ connected' = [connected EXCEPT ![s] = FALSE]
    /\ panel' = [p \in Panel |-> IF s = Primary /\ panel[p].slot = s
                                 THEN [panel[p] EXCEPT !.shown = None, !.needs = TRUE]
                                 ELSE panel[p]]
    /\ UNCHANGED <<views, running, wanted, root, rootPending, cached, queue, worker, messages,
                   drained, ui, acts, losses, throws, missed>>

\* prepareDeviceSession, onDeviceChanged: with root if that is preferred and to be
\* had; onDeviceChanged forgets the preference when it was not.
Prepare(s) ==
    /\ Polling /\ ~(connected[s] /\ running[s]) /\ ~rootPending[s]
    /\ \E mode \in {FALSE, wanted[s]} :
          /\ Up(s, mode)
          /\ wanted' = IF s = Primary THEN [wanted EXCEPT ![s] = mode] ELSE wanted
    /\ PostUi([kind |-> "ready", slot |-> s])
    /\ UNCHANGED <<panel, views, rootPending, queue, worker, drained, ui, acts, losses, throws,
                   missed>>

-----------------------------------------------------------------------------
(* App::~App. *)

Leave(from, to) ==
    /\ ui = from /\ ui' = to
    /\ UNCHANGED <<acts, losses, throws>>

\* What nobody looks at any more is forgotten.
Forget ==
    /\ panel' = [p \in Panel |-> Start] /\ views' = [p \in Panel |-> [s \in Slot |-> None]]
    /\ connected' = [s \in Slot |-> FALSE] /\ running' = [s \in Slot |-> FALSE]
    /\ root' = [s \in Slot |-> FALSE] /\ rootPending' = [s \in Slot |-> FALSE]
    /\ cached' = [s \in Slot |-> None] /\ wanted' = [s \in Slot |-> FALSE]
    /\ messages' = <<>> /\ drained' = <<>> /\ queue' = <<>>

Close == Drawing /\ Leave("runs", "notify") /\ Forget /\ UNCHANGED <<worker, missed>>
Closing == UNCHANGED <<panel, views, deviceVars, messages, drained, queue>>

\* Mutant of NotifyAll: nobody is woken.
NotifyNobody == Leave("notify", "join") /\ Closing /\ UNCHANGED <<worker, missed>>

\* notify_all without m_asyncMutex: it may fall between test and sleep.
NotifyAll ==
    /\ Leave("notify", "join") /\ Closing
    /\ worker' = Woken
    /\ missed' = (worker.pc = "dozing")

Join == Leave("join", "gone") /\ worker.pc = "exited" /\ Closing /\ UNCHANGED <<worker, missed>>

-----------------------------------------------------------------------------
Clicks(p) ==
    \/ \E f \in Folder : Navigate(p, f)
    \/ RefreshWanted(p) \/ ShowPc(p) \/ RequestRoot(p)
    \/ \E s \in Slot : ShowDevice(p, s) \/ AwaitDevice(p, s)

Poll == \E s \in Slot : Lose(s) \/ Notice(s) \/ Prepare(s)
End == Close \/ NotifyAll \/ Join

Next ==
    \/ \E p \in Panel : Clicks(p) \/ RefreshPc(p) \/ Refresh(p)
    \/ Drain \/ Apply \/ Work \/ Poll \/ End

Spec == Init /\ [][Next]_vars

-----------------------------------------------------------------------------
(* Properties. *)

Expected(s) ==
    \/ rootPending[s]
    \/ \E m \in Range(messages) \cup Range(drained) : m.kind # "list" /\ m.slot = s
Settled(x) == OnDevice(x) /\ x.pending = None /\ ~x.needs /\ ~x.loading /\ ~Expected(x.slot)

\* A panel that waits for nothing shows the folder it names, of the device it
\* names, as the server of now sees it, or nothing: a listing that comes after
\* the user has gone elsewhere, or from before a change of root, is never left
\* standing.  (While it waits it may show another folder's entries.)
ShowsItsFolder ==
    \A p \in Panel : Settled(panel[p]) => panel[p].shown \in {None, Listing(panel[p].slot, panel[p].path)}

Fetching == IF worker.pc = "run" THEN {worker.task} ELSE {}

\* A panel does not wait in vain: while it says it is loading, which keeps it from
\* asking again, the listing with its generation is queued, being fetched or on its
\* way back, whatever has become of the device, the panel and the request.  Excepted
\* is a task that ended in an exception, which no code reports to the panel.
AwaitedIsComing ==
    \A p \in Panel :
        panel[p].loading =>
            \/ \E t \in Range(queue) \cup Fetching \cup Range(messages) \cup Range(drained) :
                  t.kind = "list" /\ t.panel = p /\ t.gen = panel[p].gen
            \/ throws > 0

\* The worker does not sleep through its work or the end: asleep it has nothing
\* queued, and ~App does not wait for it.  Excepted is the notification of ~App that
\* came before the sleep, "missed".
NothingSleptThrough ==
    worker.pc = "asleep" => queue = <<>> /\ (ui = "join" => missed)

=============================================================================
