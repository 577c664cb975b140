------------------------------ MODULE Pairing ------------------------------
(***************************************************************************)
(* Pairing a phone over WiFi: the dialog on the UI thread, the worker it   *)
(* starts to look for the phone, pair and connect, and the UI messages by  *)
(* which a worker's result comes back.  A session is what one QR code or   *)
(* one visit to the code tab stands for; m_pairingGeneration numbers them, *)
(* and a worker of an older session is told to give up.                    *)
(*                                                                         *)
(* A frame of the UI drains the messages, may start a worker by itself,    *)
(* and handles at most one click.  Every adb command may fail.             *)
(***************************************************************************)
EXTENDS Naturals, Sequences

CONSTANTS
    MaxSessions,    \* bound: generations
    MaxWorkers      \* bound: workers started

ASSUME PairingBounds == MaxSessions \in Nat /\ MaxWorkers \in Nat

VARIABLES
    frame,          \* where the UI thread is: "drain", "apply", "poll", "click", or in
                    \* ~App: "join", "gone"
    dialog,         \* m_showWifiPairing
    useQr,          \* m_pairingUseQr
    generation,     \* m_pairingGeneration
    done,           \* m_pairingDone, with the address and the guid it goes with
    ready,          \* the session of m_pairingReadyAddress, 0 for none
    error,          \* m_pairingError is not empty
    expired,        \* now >= m_pairingExpiresAt
    shutdown,       \* m_shutdownPoll
    busy,           \* m_pairingWorkerBusy
    pairer,         \* the worker thread: its captures, its result and where it is
    results,       \* m_uiMessages, those of pairing
    batch,          \* what this frame has taken out of m_uiMessages and not yet applied
    scanned,        \* the session whose code the phone has scanned and offers, or 0
    accepted,       \* the sessions in which the phone has accepted a pairing
    saved,          \* the sessions whose device is in savedWifiDevices
    started,        \* how many workers there have been
    overtaken       \* history: a worker of this session was started while the
                    \* result of the last one was still in the queue

uiVars == <<dialog, useQr, generation, done, ready, error, expired>>
pairingVars == <<frame, uiVars, shutdown, busy, pairer, results, batch, scanned,
                 accepted, saved, started, overtaken>>

Idle == [pc |-> "exited", gen |-> 0, action |-> 0, found |-> FALSE,
         paired |-> FALSE, connected |-> FALSE, error |-> FALSE]

PairingInit ==
    /\ frame = "drain" /\ dialog = FALSE /\ useQr = TRUE
    /\ generation = 0 /\ done = FALSE /\ ready = 0 /\ error = FALSE /\ expired = FALSE
    /\ shutdown = FALSE
    /\ busy = FALSE /\ pairer = Idle
    /\ results = <<>> /\ batch = <<>> /\ scanned = 0 /\ accepted = {} /\ saved = {}
    /\ started = 0 /\ overtaken = FALSE

-----------------------------------------------------------------------------
(* drainUiMessages and applyWifiPairingResult. *)

\* The queue is swapped out under its mutex and applied message by message:
\* what the worker posts meanwhile is for the next frame.
TakeResults ==
    /\ frame = "drain" /\ frame' = "apply"
    /\ batch' = results /\ results' = <<>>
    /\ UNCHANGED <<uiVars, shutdown, busy, pairer, scanned, accepted, saved, started, overtaken>>

\* One result: the last word on "done" is the newest message's, the first
\* connection is kept and saved.
Taken(m) ==
    /\ done' = m.paired
    /\ error' = (error \/ m.error)
    /\ expired' = (expired /\ (done \/ ~m.paired))
    /\ IF m.connected /\ ready = 0
       THEN ready' = m.gen /\ saved' = saved \cup {m.gen}
       ELSE UNCHANGED <<ready, saved>>

Ignored == UNCHANGED <<done, error, expired, ready, saved>>

\* Mutant of Applied: whatever session a result is of, it is taken.
AppliedAnyway(m) == IF dialog THEN Taken(m) ELSE Ignored

Applied(m) == IF dialog /\ m.gen = generation THEN Taken(m) ELSE Ignored

ApplyResult ==
    /\ frame = "apply" /\ batch # <<>>
    /\ Applied(Head(batch)) /\ batch' = Tail(batch)
    /\ UNCHANGED <<frame, dialog, useQr, generation, shutdown, busy, pairer, results,
                   scanned, accepted, started, overtaken>>

Drained ==
    /\ frame = "apply" /\ batch = <<>> /\ frame' = "poll"
    /\ UNCHANGED <<uiVars, shutdown, busy, pairer, results, batch, scanned, accepted, saved,
                   started, overtaken>>

-----------------------------------------------------------------------------
(* pollWifiPairing: 0 looks for the phone that scanned the code, 1 pairs   *)
(* with the address and the code typed in, 2 connects to the one typed in. *)

Job(action, known) ==
    [pc |-> "discover", gen |-> generation, action |-> action, found |-> FALSE,
     paired |-> known, connected |-> FALSE, error |-> FALSE]

\* Mutant of Captured: the result does not start from what is known already.
CapturedFresh(action) == Job(action, FALSE)

Captured(action) == Job(action, done)

StartWorker(action) ==
    /\ ~busy /\ started < MaxWorkers
    /\ busy' = TRUE /\ started' = started + 1
    /\ pairer' = Captured(action)
    /\ error' = FALSE
    /\ overtaken' = (overtaken \/ \E i \in DOMAIN results : results[i].final /\ results[i].gen = generation)

\* What renderWifiPairingDialog does before it draws.
MayPoll == dialog /\ ~busy /\ ready = 0 /\ ~error /\ ~expired /\ (useQr \/ done)
PollPairing ==
    /\ frame = "poll" /\ frame' = "click"
    /\ \/ MayPoll /\ StartWorker(0)
       \/ UNCHANGED <<busy, started, pairer, error, overtaken>>      \* m_pairingNextPoll
    /\ UNCHANGED <<dialog, useQr, generation, done, ready, expired, shutdown, results, batch,
                   scanned, accepted, saved>>

-----------------------------------------------------------------------------
(* The buttons. *)

Click == frame = "click" /\ frame' = "drain"

NoClick ==
    /\ Click
    /\ UNCHANGED <<uiVars, shutdown, busy, pairer, results, batch, scanned, accepted,
                   saved, started, overtaken>>

\* startWifiQrSession.
NewSession(qr) ==
    /\ generation < MaxSessions /\ generation' = generation + 1
    /\ done' = FALSE /\ ready' = 0
    /\ error' \in BOOLEAN       \* the random numbers or the QR code may fail
    /\ expired' = FALSE
    /\ useQr' = qr /\ overtaken' = FALSE
    /\ UNCHANGED <<shutdown, busy, pairer, results, batch, scanned, accepted, saved, started>>

OpenDialog == Click /\ ~dialog /\ dialog' = TRUE /\ NewSession(TRUE)
ChooseTab ==
    /\ Click /\ dialog /\ ~done /\ ~busy
    /\ NewSession(~useQr) /\ UNCHANGED dialog
NewCode ==
    /\ Click /\ dialog /\ ready = 0 /\ ~done /\ useQr
    /\ ~busy \/ expired \/ error        \* the card's button is not disabled
    /\ NewSession(TRUE) /\ UNCHANGED dialog

CloseDialog ==
    /\ Click /\ dialog
    /\ generation < MaxSessions /\ generation' = generation + 1
    /\ dialog' = FALSE
    /\ UNCHANGED <<useQr, done, ready, error, expired, shutdown, busy, pairer,
                   results, batch, scanned, accepted, saved, started, overtaken>>

\* "Connect" or "Pair device".
Submit ==
    /\ Click /\ dialog /\ ready = 0 /\ (done \/ ~useQr)
    /\ expired' = FALSE
    /\ StartWorker(IF done THEN 2 ELSE 1)
    /\ UNCHANGED <<dialog, useQr, generation, done, ready, shutdown, results, batch, scanned, accepted, saved>>

Buttons == NoClick \/ OpenDialog \/ ChooseTab \/ NewCode \/ CloseDialog \/ Submit

\* ~App: the worker is told to stop, and joined.
ShutDown ==
    /\ frame = "drain" /\ ~shutdown
    /\ frame' = "join"
    /\ shutdown' = TRUE /\ generation' = generation + 1
    /\ UNCHANGED <<dialog, useQr, done, ready, error, expired, busy, pairer, results, batch,
                   scanned, accepted, saved, started, overtaken>>
JoinWorker ==
    /\ frame = "join" /\ pairer.pc = "exited" /\ frame' = "gone"
    /\ UNCHANGED <<uiVars, shutdown, busy, pairer, results, batch, scanned, accepted, saved,
                   started, overtaken>>

-----------------------------------------------------------------------------
(* The worker. *)

Cancelled == shutdown \/ generation # pairer.gen

At(pc) == pairer.pc = pc
Result(final) ==
    [gen |-> pairer.gen, paired |-> pairer.paired, connected |-> pairer.connected,
     error |-> pairer.error, final |-> final]
WorkerOnly ==
    UNCHANGED <<frame, uiVars, shutdown, batch, scanned, saved, started, overtaken>>

\* Not every failure is reported: a manual pairing goes on without discovery.
Discover ==
    /\ At("discover")
    /\ \/ \* the services, if any of them is there already
          /\ ~Cancelled /\ pairer.action # 2
          /\ \E seen \in BOOLEAN :
                pairer' = [pairer EXCEPT !.pc = "pair",
                                         !.found = seen /\ (pairer.paired \/ scanned = pairer.gen)]
       \/ /\ pairer' = [pairer EXCEPT !.pc = "pair",
                                      !.error = pairer.action = 0 /\ ~Cancelled]
    /\ UNCHANGED <<busy, results, accepted>> /\ WorkerOnly

\* The progress message goes out before the pairing.
Pair ==
    /\ At("pair")
    /\ IF ~Cancelled /\ (pairer.action = 1 \/ (~pairer.paired /\ pairer.found))
       THEN pairer' = [pairer EXCEPT !.pc = "pairing", !.found = FALSE] /\ results' = Append(results, Result(FALSE))
       ELSE pairer' = [pairer EXCEPT !.pc = "connect", !.found = FALSE] /\ UNCHANGED results
    /\ UNCHANGED <<busy, accepted>> /\ WorkerOnly

\* The phone accepts, and adb says so; or it does not; or nobody hears of it,
\* because the command is killed or its answer lost.
Paired ==
    /\ At("pairing")
    /\ \/ /\ accepted' = accepted \cup {pairer.gen}
          /\ \E next \in {"connect", "check"} :      \* an exception may follow
                pairer' = [pairer EXCEPT !.pc = next, !.paired = TRUE, !.error = next = "check"]
       \/ /\ accepted' \in {accepted, accepted \cup {pairer.gen}}
          /\ pairer' = [pairer EXCEPT !.pc = "connect", !.error = pairer.error \/ ~Cancelled]
    /\ UNCHANGED <<busy, results>> /\ WorkerOnly

Connect ==
    /\ At("connect")
    /\ \/ /\ ~Cancelled /\ (pairer.action = 2 \/ pairer.paired)
          /\ \/ \E threw \in BOOLEAN :        \* asking for the model and the serial number
                   pairer' = [pairer EXCEPT !.pc = "check", !.connected = TRUE, !.error = @ \/ threw]
             \/ pairer' = [pairer EXCEPT !.pc = "check", !.error = pairer.error \/ ~Cancelled]
       \/ \* nothing to connect to yet
          /\ pairer.action # 2 \/ Cancelled
          /\ pairer' = [pairer EXCEPT !.pc = "check"]
    /\ UNCHANGED <<busy, results, accepted>> /\ WorkerOnly

Check ==
    /\ At("check")
    /\ pairer' = [pairer EXCEPT !.pc = IF Cancelled THEN "leave" ELSE "post"]
    /\ UNCHANGED <<busy, results, accepted>> /\ WorkerOnly

\* Mutant of Post: only a connection is worth a message.
PostConnected ==
    /\ At("post")
    /\ results' = IF pairer.connected THEN Append(results, Result(TRUE)) ELSE results
    /\ pairer' = [pairer EXCEPT !.pc = "leave"]
    /\ UNCHANGED <<busy, accepted>> /\ WorkerOnly

Post ==
    /\ At("post")
    /\ results' = Append(results, Result(TRUE))
    /\ pairer' = [pairer EXCEPT !.pc = "leave"]
    /\ UNCHANGED <<busy, accepted>> /\ WorkerOnly

NotBusy ==
    /\ At("leave")
    /\ busy' = FALSE
    /\ pairer' = Idle
    /\ UNCHANGED <<results, accepted>> /\ WorkerOnly

PairingWork == Discover \/ Pair \/ Paired \/ Connect \/ Check \/ Post \/ NotBusy

-----------------------------------------------------------------------------
(* Time, and the phone. *)

\* The phone scans the code on the screen.
Scan ==
    /\ dialog /\ useQr /\ ~done /\ ~expired /\ ~error
    /\ scanned # generation /\ scanned' = generation
    /\ UNCHANGED <<frame, uiVars, shutdown, busy, pairer, results, batch, accepted, saved, started, overtaken>>

\* It stops offering once it has accepted, or when its user leaves the screen.
Withdraw ==
    /\ scanned # 0 /\ scanned' = 0
    /\ UNCHANGED <<frame, uiVars, shutdown, busy, pairer, results, batch, accepted, saved, started, overtaken>>

Expire ==
    /\ dialog /\ ~expired /\ expired' = TRUE
    /\ UNCHANGED <<frame, dialog, useQr, generation, done, ready, error, shutdown, busy,
                   pairer, results, batch, scanned, accepted, saved, started, overtaken>>

-----------------------------------------------------------------------------
Frame == TakeResults \/ ApplyResult \/ Drained \/ PollPairing \/ Buttons \/ ShutDown \/ JoinWorker
PairingNext == Frame \/ PairingWork \/ Scan \/ Withdraw \/ Expire

\* The frames go on, and every adb command has a timeout.
Fairness == WF_pairingVars(Frame) /\ WF_pairingVars(PairingWork)
PairingSpec == PairingInit /\ [][PairingNext]_pairingVars /\ Fairness

-----------------------------------------------------------------------------
(* Properties. *)

\* The address the dialog shows as connected, and every device it has saved,
\* come from a worker of that very session, and in a session the phone has
\* accepted: no result of an earlier session is shown in a later one, or
\* saved, whatever was in the queue when the user went on.  And a phone that is
\* shown as connected is known to be paired, but for what "overtaken" excepts.
SessionsApart ==
    /\ dialog /\ ~shutdown => ready \in {0, generation}
    /\ saved \subseteq accepted
    /\ dialog /\ ~shutdown /\ done => generation \in accepted
    /\ dialog /\ ready # 0 /\ ~overtaken => done

\* Once the dialog knows that the phone is paired it does not forget it within
\* the session: the phone has left its pairing screen, and would have to scan
\* again.  Excepted is a session in which a worker was started between the
\* message and the "not busy" of the last one, see the README.
PairedStays == [][done /\ generation' = generation /\ ~overtaken' => done']_pairingVars

\* When the phone has been paired in the current session, the dialog learns of
\* it, even if the connection then fails, unless the user begins another.
PairingReported ==
    \A g \in 1..MaxSessions :
        (pairer.paired /\ pairer.gen = g /\ generation = g /\ ~shutdown)
            ~> (done \/ generation # g \/ shutdown \/ overtaken)

=============================================================================
