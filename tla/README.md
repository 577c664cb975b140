# FastEnough in TLA+

FastEnough copies files between a Windows PC and Android devices. The PC runs an
application with two panes (`src/src/app.cpp`); a device runs a small daemon
(`src/server/afm-server.cpp`). `DeviceClient` (`src/src/device_client.cpp`) starts
the daemon over ADB and talks to it over TCP, through an ADB forward or directly over
WiFi. This directory holds the TLA+ model of the parts that decide whether a file
arrives, the TLC configurations that check them on small instances, and the theorems
TLAPS proves for every instance.

## Inventory

| Component | State | Operations | Meets others through |
|---|---|---|---|
| Upload pipeline of the daemon (`AsyncWriter`, `handle_push`, `handle_write_range`) | buffer pool, queue, `done`, `error` | start, acquire, submit, finish, writer thread | one mutex, two condition variables |
| Daemon command loop and handlers | the connection, the position in a stream, the shared CRC cache | 25 commands (`protocol.h`) | messages; threads of several connections share the cache and the files |
| `DeviceClient` | socket, `m_connected`, `m_lastError`, inline CRC, control channel | small requests, pull, push, ranges, resume, relay, CRC, `startServer` | `m_mutex` per client, `m_ctlMutex`, callbacks into the batch |
| `TransferCoverage` | ranges, bytes, flags of one file | record, fail, skip, complete | called by the workers of a batch under `workMutex` |
| Batch thread (`processBatchQueue`) | the queue, the state of a `TransferBatch` | conflict prompts, single-channel, parallel, relay and MCRAW branches, verification, clean-up | atomics and `m_batchCV` shared with the UI; worker threads |
| Device sessions and poll loop | sessions by identity, extra channels, health, root mode | discovery, connect, failover, wake-up | shares clients and channels with the batch thread |
| Dokan drive (`device_dokan.cpp`) | write buffers by path, listings of five seconds, read-ahead chunks | file system callbacks | `DeviceClient` operations from driver threads |
| MCRAW mounts | mounts | file system callbacks | local containers |
| Archives (device, PC backup) | streams of an archive; ZIP64 index | archive, extract, back up, restore | data streams over the connection |
| WiFi pairing (`app_pairing.cpp`) | generation, what is known of the phone, the worker | a new code, a code typed in, pair, connect, save | UI messages; `m_pairingWorkerBusy` |
| ADB discovery, child processes | device snapshot, pipes | scan, run `adb` | called by the poll thread |
| Worker threads (`asyncWorkerLoop`, `postAsync`, `drainUiMessages`) | task queue, UI messages | post, run, drain, stop | `m_asyncMutex` and its condition variable, `m_deviceWorkMutex` shared with the poll thread |
| User interface | panels, remembered views, dialogs | navigate, open a device, refresh, root, the buttons of a batch | posts tasks, takes messages, sets the flags of the batch |

What makes the system hard: two threads and two condition variables in the daemon;
workers over several channels, each of which may be lost, retried, reconnected or
upgraded; a user who pauses, stops, answers or closes the application at any moment;
answers matched with requests only by their order; and files that are new, old,
partial or already moved when clean-up looks at them. `PROJECT.json` lists each such
hazard at its line, with the property that covers it or the reason none does yet.

What would make each part correct:

* pipeline: no buffer has two owners; a positive answer means the data are in the file;
  the threads never wait for each other; the client is always answered;
* connection: between two operations nothing is left in the stream, and success means
  that the daemon has done what was asked;
* coverage: "complete" means no hole;
* batches: "Completed" means delivered; a file is replaced only if the user agreed;
  clean-up deletes what is partial and nothing else; a batch ends;
* relay: a range is never requested over a stream that still holds data of another;
* verification: a file reported verified is the PC's file, and one rejected is not;
* drive: what was acknowledged reaches the file, once and in order; a listing is true;
* pairing: no result of an old session is taken in a new one, none of this one is lost;
* panels: what a panel shows at rest is the folder it names; it never waits in vain; the
  worker sleeps only when there is nothing to do;
* still to be stated: channels (none is destroyed while a batch uses it).

## Modules

| Module | Models | Checked by |
|---|---|---|
| `Upload` | abstract specification: an upload accepts bytes, stores them in any order and succeeds only if all are stored | refined by `AsyncWriter` |
| `AsyncWriter` | handler thread and writer thread, one action per critical section; a thread in `pthread_cond_wait` leaves it by a signal or spuriously | `MCAsyncWriter`, `Daemon_proofs` |
| `TransferCoverage` | the class as operators on a record; no state of its own | through `CoverageLog` and `ParallelTransfer`, `CoverageLog_proofs` |
| `CoverageLog` | any sequence of calls on one `TransferCoverage` | TLC, `CoverageLog_proofs` |
| `BatchWait` | the batch thread between a test of its condition, its sleep at `m_batchCV` and the notification | extended by the three batch modules |
| `ParallelTransfer` | the parallel branch of `processBatchQueue` with its workers | `MCParallelTransfer`, `ParallelTransfer_proofs` |
| `SingleTransfer` | the single-channel branch, with pull, push, resumption and local copies | `MCSingleTransfer`, `SingleTransfer_proofs` |
| `Session` | one connection: client operations, both directions of the stream, command loop and handlers | TLC, `Session_proofs` |
| `CrossDevice` | the streaming relay between two devices: the batch thread, a worker per pair of channels, `relayRange` | `MCCrossDevice`, `CrossDevice_proofs` |
| `PushVerify` | one file pushed again and again: the daemon's handlers, also of connections given up, the client, the two remembered CRCs | TLC, `Daemon_proofs` |
| `DokanDrive` | the callbacks on the files of one directory of the mounted drive, with the write buffers and both caches | `MCDokanDrive`, `DokanDrive_proofs` |
| `FilePanels` | panels, async worker, poll thread, UI messages, root changes, the end of the application | `MCFilePanels`, `Application_proofs` |
| `Pairing` | the pairing dialog, its worker and the messages between them | TLC, `Application_proofs` |

The modules meet at their interfaces. The three batch modules extend `BatchWait`. `Session`
treats the daemon's writer as something that confirms or fails, which is what `AsyncWriter`
establishes of it (`Upload`). `ParallelTransfer` and `SingleTransfer` treat a client
operation as something that moves chunks, ends, fails or loses the link, which is what
`Session` shows. Coverage is a component of the parallel batch: `ParallelTransfer` extends
`TransferCoverage` and keeps one such record per file (`RecordRange`, `FailCoverage`,
`SkipCoverage`). `AsyncWriter` implements `Upload` under a refinement mapping (`Promise ==
INSTANCE Upload WITH ...`). `PushVerify` is about what lies between the transfers: it has
the daemon's handlers side by side, and takes from `AsyncWriter` that they store what they
receive in order or report an error.

### How the models correspond to the code

`AsyncWriter`: `rpc` is the position in `handle_push`, `wpc` that in
`async_writer_thread_func`. `file` maps a position of the file to the position of the
stream that was written there, so a chunk written twice, at a wrong offset or from an
overwritten buffer is visible. Free buffers are a set, because they are alike.

`TransferCoverage`: `ranges` is the `std::map`, a function from start to end;
`lower_bound` is stated as what it is used for, the neighbours of the new range.

`ParallelTransfer`: an item is a folder, a file moved whole or a file split into blocks.
`pc` is the batch thread, `wpc[w]` a worker, `blk[w]` the block it holds, `pos[w]` how
much of it has arrived, `down` the channels without a connection. Files have lengths of
a few units; a unit stands for a stretch of the file as long as a progress callback's
step. `Mortal` names the workers whose device may never come back.

`BatchWait`: a prompt of a batch is a wait on `m_batchCV` with a condition and without a
timeout (`app.cpp:12291`, 13508, 14147, 14666). The thread tests the condition and goes to
sleep holding `m_batchMutex` in between; the buttons of the dialog (4699-4749, 4816-4819)
and of the dock (`app_workspace.cpp:461`, 474) and `~App` (1441, 1447) set their flag and
notify without it. So `nap` is "awake", "dozing" between a test that failed and the sleep,
or "asleep", and a notification reaches only a thread that is asleep. Waking spuriously, or
for a notification meant for something else, is possible and never assumed. The prompt
stays on the screen as long as the thread is at it, so the user can answer again.

`SingleTransfer`: a file is a sequence of chunks, "new" if equal to the source and
"old" if left from the file that was there. `up` is `m_connected`. The progress
callback is a step of its own ("asking") because Stop, Pause and shutdown are looked at
there. A resumed pull ends with `up` false: `resumePullFile` drains a stream that is at
its end. `Parent` says in which folder of the batch an item lies: at its end a move removes
its source folders, innermost first, and `std::filesystem::remove` takes only an empty one.

`Session`: a message has a type and, for the properties only, the number of the request
it belongs to. A "part" message is a chunk of which less than announced arrives.
`desynced` records that one of three failures was met that leave the stream unread (the
local file of a resumed pull or of a push cannot be opened; the daemon's writer fails
during an upload). `InSync` says nothing behind them: there the code, against its own
comments on draining, does not keep the stream in step.

`CrossDevice`: sizes are in chunks, one `RSP_DATA` message each. `pc` is the batch thread,
`next` the item its loops are at, `wpc[w]` the worker of a pair of channels, `blk[w]` its
range. `relayRange` is several steps: the request to both devices (`Opened`, `OpenFails`),
then a chunk received while the one before is on its way (`got` is at most two ahead of
`sent`, because there are two buffers), then the last confirmation. `left` records that a
range was given up with the source's data unread. A deletion may fail and its result is not
looked at (`undeleted`). The sources are taken not to change while a batch runs, and in
`ParallelTransfer` the PC to be able to delete what the batch has created and closed.

`PushVerify`: a chunk of the file is the version of the local file it comes from, and the
sequence of chunks stands for its CRC. `handler` has the daemon's handler of each connection
there can be at once (`Slot`), and `client` is the connection of the latest attempt; the
handler of another one (`Late`) goes on with what arrived, as a detached thread does, and its
connection is used again when it has ended. A handler's chunks are written in their order,
so its queue is the difference of two counters (`Waiting`). `cache` is `g_cached_crc`,
`inline` is `m_inlineCrc`. The file is the only one of its path, so `cache` is None also when
the cache is of another path. What the code does not protect a verification from is named:
`short` (the local file yielded less than its size and what came is taken for all), `late` (a
handler given up truncated, wrote or cached behind a newer push), `unconfirmed` (the
device's last answer was lost and the push counts as done) and `Stale`: a resumed push sets
neither of the two remembered CRCs, so after one the client may compare with the CRC of an
earlier transfer (`inline`) and the daemon may answer with that of an earlier push
(`cached`). The two properties hold of everything else.

`DokanDrive`: a program is a thread of the driver with one open file; `pc` is where in a
callback it is between two lock sections. `given` is what its `FsWriteFile` was called
with: the path of that moment, which is not the file's any more if it is renamed meanwhile.
A write that finds no buffer under `writeMutex` (`device_dokan.cpp:412`) is written to the
device without the mutex (440), two steps between which every other callback may come. A
file is a sequence of blocks, every written block has its own number, so what is lost or
overtaken shows. `acked` is what `FsWriteFile` has acknowledged and `harmed` the paths of
which the code gives data up from that step on: a write that neither continues nor lies
inside the buffer, a command that fails, a second open for writing, a rename while a write
of the file is called, a rename or a write while data is on its way, a direct write that
comes behind data another program has buffered meanwhile, `FILE_CREATE` of a file the
listing lacks. The configuration explores no further behind a step that harms a path
(`Unharmed`); what is claimed is claimed of unharmed paths only.

`FilePanels`: the entries of a panel stand for where they come from: device, folder, and
whether the server had root. `Drain` swaps the queue of messages out under its mutex, and
`Apply` takes one message at a time, while the worker and the poll thread go on; the user
acts when all are applied (`Drawing`). The worker is "test" with the mutex before its condition,
"dozing" between the test and the sleep and "asleep" after it; `postAsync` needs the mutex,
`~App` does not take it, which `missed` records. Tasks run under `m_deviceWorkMutex`, which
keeps the poll thread out. A task that throws reports to the user and not to the panel
(`throws`).

`Pairing`: a frame takes the results out of the queue (`TakeResults`), applies them one by
one (`ApplyResult`), may start a worker (`PollPairing`) and handles a click. A session is a
value of `m_pairingGeneration`; the worker keeps the generation it was started in, and
everything it knows of the phone. `overtaken` records that a worker was started while the
result of the last one of the session was still in the queue, which the code allows because
the worker posts its result before the UI has taken it.

## Runs and bounds

| Run | What it shows | Bounds |
|---|---|---|
| `AsyncWriter` | ownership, integrity, answer, no mutual waiting, refinement of `Upload` | 3 buffers for 6, 6 bytes in chunks of up to 2: the pool runs dry and the writer falls behind |
| `CoverageLog` | disjoint ranges, exact sum, no hole | file of a few units, every offset and length, also beyond the end |
| `ParallelPull` | all batch properties of a pull | 2 workers, a small file and a split file, the first in place of an existing one, `MaxTries` 2 |
| `ParallelPush` | delivery of a push with folder, empty file, verification, shutdown | 2 workers; a folder, a chunk and an empty file, both in place of existing ones |
| `SingleTransfer` | all batch properties | 5 items: a folder with an empty file, a file of two chunks and one of one, an empty folder; the empty and the last file replace existing ones; 1 automatic retry, 2 CRC attempts |
| `Session` | stream, success, end of operations | 3 requests, up to 2 chunks |
| `CrossDevice` | a completed relay delivered everything, clean-up, unread data are never met, the batch ends | 2 pairs; a folder, an empty file, a file of two ranges (2 chunks and 1) and a file of one, both existing |
| `PushVerify` | what "verified" and "rejected" are worth | 2 batches, 2 attempts each, 2 connections at once, 2 chunks |
| `DokanDrive` | nothing acknowledged is lost or left behind, listings are true | 2 programs, 2 paths, 3 blocks written with 2 calls or 2 with 3, a failing command in place of one of these (`Bounded`), buffers and chunks of 2 blocks, 1 read-ahead chunk |
| `FilePanels` | panels show what they name, never wait in vain, the worker never oversleeps | 1 panel, 2 devices, 2 folders, 2 actions of the user, 1 loss or 1 exception (`OneFault`) |
| `Pairing` | sessions apart, a pairing is reported and stays | 2 sessions, 2 workers |
| `ParallelStranded` | violation: what the code does against its own comment | one split file of two blocks, one worker's device never returns |

A block may be given back three times and an item retried ten times in the code;
`MaxTries` 2, `MaxRetries` 1 and `CrcTries` 2 (for 3) reach every branch that depends on
the counters: the first failure, a further one and the last allowed one. Two workers are
the least that can overlap, take over and strand each other. Two chunks are the least
for which "the first", "one in between" and "the last" differ where the code treats them
differently. Three requests let a stale answer meet the next request and the one after.
Two handlers are a push and one it has replaced. Two programs are the least that can share
a buffer, three blocks fill one of two and begin the next, and one failing command is a
fault at every place in turn. One panel suffices because panels meet only through the
device they name, and two actions are what it takes to ask for a listing and to be
elsewhere when it comes; two workers of a session are one that finishes late and the next.

`MayShutDown` is off in `ParallelPull`: clean-up properties fail behind a shutdown (see
Known divergences); `ParallelPush` has it on. `CreateMayFail` is off. `MCAsyncWriter` adds a
stuttering step for the finished command. `Session`, `PushVerify`, `DokanDrive`,
`FilePanels` and `Pairing` run without deadlock checking because the bounds end them.

## Properties worth reading

* `AsyncWriter!OkMeansStored`, `Implements`: an error of the writer thread, however late,
  reaches the answer; otherwise everything received is in the file.
* `ParallelTransfer!WorkPartitioned`: at any moment every unit of every file is delivered,
  queued or held by exactly one worker, whatever was given back or split.
* `ParallelTransfer!CleansUp`, `OnlyPartialDeleted`, `CompletedMeansDelivered`: clean-up
  deletes the files it should and no other, and a file given up never completes a batch.
* `SingleTransfer!SourceOrCopy`: a move never leaves a file in neither place, also when it is
  stopped, fails or removes its source folders. One exception: an empty folder the loop has
  not come to when the application ends (Known divergences).
* `SingleTransfer!StopBeginsNothing`: after Stop no further item is touched.
* `Session!InSync`, `SuccessIsServed`: see above.
* `CrossDevice!InStep`: `relayRange` may leave the source's data unread, and what keeps
  the next range from meeting them is only that the first failure ends every worker.
* `CrossDevice!CompletedMeansDelivered`, `CleansUp`: also without CRCs, a completed relay
  has every chunk on the other device; a failed one keeps finished files and deletes the
  others. Neither says anything of a partial file that Stop leaves: the code counts a range
  cancelled by Stop as relayed, and can so take a partial file for a finished one.
* `PushVerify!VerifiedIsStored`, `RejectedIsWrong`: over every interleaving of a push with
  the handlers of pushes given up, two cached CRCs and an edited local file.
* `DokanDrive!NothingLost`, `NothingLeftBehind`: a block acknowledged is in the buffer, on
  its way in somebody's Cleanup or in the file, with nothing older in front of it, also when
  other callbacks come between the look of a direct write and its command.
* `DokanDrive!ListingCurrent`: no listing asked for before a change is kept behind it.
  Listings of failed requests, which the code caches like any other, are excepted.
* `FilePanels!ShowsItsFolder`, `AwaitedIsComing`: the generation counter and the comparison
  of device and path together are enough, and neither alone would be.
* `FilePanels!NothingSleptThrough`: only the notification of `~App` can be lost.
* `Pairing!PairedStays`, `PairingReported`, `SessionsApart`: late results and second workers.
* `BatchEnds`: in all three kinds of batch the prompt that stays when the answer was lost is
  the only thing that can keep an attended batch from ending, and answering again ends it.
* `OperationEnds`, `Answered`, `PairingReported`: liveness.

## Known divergences

`ParallelStranded` is a violation run: workers leave when the queue is empty
(`app.cpp:12656`); a block given back later by a worker whose channel stays dead has nobody
to take it, although the comment at 12901 says other channels can. The others below are
disagreements of the same kind between the code and its comments or labels. Their
properties stand in the modules, and each shows itself when it is put into the
configuration named, in place of the properties there. `ShortPlan` comes with
`Parent <- ShortParent`.

| Property | To see it | What the code does |
|---|---|---|
| `ParallelTransfer!OnlyPartialDeleted` | `ParallelPull.cfg` with `Present = {1, 2}`, `MaxTries = 3`, `MayShutDown = TRUE` | the loop that looks for existing destinations (`app.cpp:12267`) ends at once when the application is closed, and clean-up then deletes files it takes for new ones, against 13225-13226 "only partially-transferred files are deleted" |
| `ParallelTransfer!CompletedMeansDelivered` | `ParallelStranded.cfg` with `Mortal = {}`, `Verify = TRUE`, `CreateMayFail = TRUE` | the destination of a split pull that cannot be created (`app.cpp:12413`) is not noticed: the batch completes, verified, with nothing on disk, against 9020 "Verify file integrity (CRC32) after transfer" |
| `SingleTransfer!OneAnswerEnds` | `SingleTransfer.cfg` | an answer, a retry or Stop set between the test and the sleep of the batch thread is not noticed (`app.cpp:14147`, 14666; 12291 and 13508 alike), because 4699-4749 and 4816-4819 notify without `m_batchMutex`, against 14144 "Wait for UI thread to set conflictResponse": the batch sleeps until somebody answers again |
| `SingleTransfer!OnlyPartialDeleted` | `SingleTransfer.cfg` with `Plan <- ShortPlan`, `Present = {2}`, `Kinds = {"push"}`, `Verify` and `MayShutDown` FALSE | Stop between two items, or in a conflict prompt, deletes the current item's destination (`app.cpp:14775`) though its transfer is over or has not begun |
| `SingleTransfer!VerifiedOrReported` | the same with `Kinds = {"pull"}`, `Verify = TRUE` | a replacement whose first attempt fails before truncation is resumed behind the old content, and the drain that ends a resumed pull (`device_client.cpp:3562`) disables the verification that would notice |
| `DokanDrive!RightSize` | `DokanDrive.cfg` without the constraint `Unharmed` | a write in front of the buffered data replaces it (`device_dokan.cpp:33`), against 359 "the file on device will be the right size after writes" |
| `PushVerify!VerifiedIsWhole` | `PushVerify.cfg` with `MaxTries` and `MaxBatches` 1 and `Slot = {"c1"}` | a local file that cannot be read to its end (`device_client.cpp:2805`) is pushed short and verified against the CRC of what was read |

Four more are written into the properties as exceptions, because nothing in the code speaks
against them, or because they follow from one above:

* `~App` notifies `m_batchCV` once (`app.cpp:1447`) and joins the batch thread (1449). If
  that notification falls between test and sleep, no button is left to answer again and
  the join does not return. `BatchEnds` takes this one notification not to be lost;
  `FilePanels!NothingSleptThrough` makes the same exception for `m_asyncCV`.
* A move whose loop is ended by the application's end is still "Running" at `app.cpp:14804`
  and removes the source folders, also those it has not come to. One that is empty is gone
  without a copy (`SourceOrCopy`); one that holds files is not removed.
* A direct write on the drive (`device_dokan.cpp:440`) goes to the path taken at 409. If the
  file is renamed in between, the write makes a new file under the old name and the renamed
  one lacks it; if another program has opened the file and buffered, its data come
  behind. Such paths are harmed (`NothingLost`, `ListingCurrent`).
* A listing that ends in an exception leaves its panel waiting (`app.cpp:1491`); `throws` in
  `AwaitedIsComing`.

## Fairness

`AsyncWriter`: weak fairness of each thread, which the scheduler of the device gives; the
daemon's recv has no timeout of its own and returns because the client sends, or gives up
after the timeout of its own socket and closes the connection: a client that vanishes
without a word leaves the handler waiting, and the model does not speak of it.
`ParallelTransfer` and `SingleTransfer`: weak fairness of the batch thread, the workers and
the device's storing; in `CrossDevice` of the batch thread and the workers, whose relay
makes progress or fails because every recv has a timeout; nothing is assumed of the user or
of failures. `BatchEnds` holds when the user is attentive (`Attended`: prompts are answered
or stopped, a pause ends, retrying stops sooner or later) because a prompt waits without a
limit by design. The fairness of the batch thread does not wake it: that takes a
notification, and one may be lost. Two further premises of `BatchEnds` say what makes up
for it: a prompt that stays though it was answered is answered again
(`WF_vars(AnswerAgain)`), and the one notification of `~App`, after which nobody answers,
is not lost (`[]<>~(Overslept /\ shutdown)`). Neither premise helps where the code loses
anything else, and the code guarantees neither. Reconnection is bounded by the code's own
counters, so the device's return is not assumed, except that in `ParallelTransfer` a worker
outside `Mortal` finds its channel again, the case `ParallelStranded` takes away.
`Session`: weak fairness of the client alone: a begun call goes on, and every wait has a
receive timeout. `Pairing`: weak fairness of the frames, which the window draws as long as
it is there, and of the worker, whose every adb command has a timeout; nothing of the phone
or the user. `PushVerify`, `DokanDrive` and `FilePanels` state safety only; what waits
there is stated as an invariant (`AwaitedIsComing`, `NothingSleptThrough`,
`NothingLeftBehind`).

## Proofs

Eight modules hold theorems. Each proves the properties of its component for every
value of the constants that satisfies the assumptions named in the modules, so for every
plan, number of workers, programs or requests, file length and bound on retries. In each the
properties are not inductive alone; `IInv` is the strengthening (where a module holds the
proofs of two components, each has a name of its own: `LogIInv`, `PushInv`, `PanelsInv`,
`PairingInv`), `Init => IInv` and `IInv /\ [Next]_vars => IInv'` are proved conjunct by
conjunct, and the theorems follow. The parts of each invariant were checked with TLC on small
instances before they were proved. `Daemon_proofs` is about the two components on the
device (`AsyncWriter`, `PushVerify`), `Application_proofs` about the two around the UI
thread (`FilePanels`, `Pairing`).

### `Daemon_proofs`: the upload pipeline

`TypeOK`, `BufferOwnership`, `ChunksIntact`, `OkMeansStored`, `NoMutualWait`, and that the
pipeline implements `Upload`. `IInv` adds

* `Phases`: what each thread's position says of the flags and of its buffer;
* `Conserved`: every buffer is in exactly one of five places, so a handler waiting for
  one means that all are with the writer;
* `WaitsJustified`: a thread that waits is waiting for something that is still untrue,
  the part that rules out a lost signal;
* `Bounds`: offsets and lengths of queued chunks join without gap up to `received`;
* `NothingLost`: every position received is in the file, in the chunk being written or
  in a queued one, unless an error is recorded.

The refinement maps the file and the answer to themselves and what was received to the
bytes handed over; each step is a step of `Upload` or a stutter, from `IInv`.

### `Daemon_proofs`: pushing and verifying

`VerifiedIsStored` and `RejectedIsWrong`, for every number of chunks, buffers, connections,
attempts and batches. `PushInv` adds

* `HandlersSound`: each handler by itself, given up or not, has written no more than it
  received and received no more than arrived, and says "ok" only when all is written;
* `InProgress`: what the client has sent is what has arrived at its own handler, and the
  end of the stream is announced behind the last chunk unless the local file was short;
* `Contents`: if no other handler got in between, the chunks a push has stored are the first
  of the file, of the present version, and nothing stands behind them but holes and chunks
  of that version; once it says "ok" the daemon's cache holds no other file's CRC;
* `Arrival`: when the push is confirmed, the file is whole and both remembered CRCs, where
  there are any, are its own.

A handler that was given up can disturb each of these, and the proof goes through its
steps: those that touch the file or the cache set `late`, unless what they leave is what
would be there anyway. `RejectedIsWrong` was at first stated without the daemon's part of
`Stale`. It is false then, and the proof of the verification step showed why. One push
arrives, and the daemon remembers its CRC. The next clears the client's CRC and loses its
connection, but its handler has not noticed and so has not cleared the daemon's. A third
batch, of the edited file and over one channel, is refused once and therefore resumes,
which sets neither CRC: the file arrives whole, and the daemon answers for it with the CRC
of the first push. The two batches of the run are too few for this; TLC finds it with
three.

### `CoverageLog_proofs`

The first lemmas are on the record alone: recording a range keeps it `Sound` (ranges disjoint,
byte counter equal to the number of positions covered, `InsertSound`) and adds exactly the
new positions (`InsertAdds`), and a complete file is covered (`CompleteCovered`). The
argument is on cardinalities: a range is accepted only if disjoint from its neighbours, hence
from all ranges, so the covered set grows by exactly its length; a covered set as large as
the file is the file. The theorems state this of any sequence of calls, and add that a file
failed or skipped stays so. `ParallelTransfer_proofs` uses the same lemmas for the record of
each file of a batch.

### `ParallelTransfer_proofs`

* `Owned`: a block queued or held is `Due` (part of its file, none of it recorded), and any
  two are `Apart`. With it goes `AllKept`: while the batch runs undisturbed, every position
  of a file that is neither skipped nor given up is recorded, queued or held. The two are
  what `WorkPartitioned` becomes when it is made inductive; returning the rest of a block,
  splitting and recording each move positions from one owner to the next.
* `Recorded`: the records are `Sound`, and only complete files are in `completed`.
* `RefusedStays`: behind a local failure there is a file that never becomes complete, which
  is why such a batch cannot end as completed.
* `Arrived`: what is recorded of a pull is in the file, and what a worker has moved too.
* `Phases`, `Checked`, `Outcomes`, `OldKnown`: the positions of the threads, what
  verification has passed, and that the conflict loop has seen every file that was there.

`WorkPartitioned` holds unconditionally. Of the others the code gives less, and the
theorems say for which batches they hold: `CompletedMeansDelivered` of a pull all of whose
destinations can be created and of a verified push (`Certain`; a push also counts as done
when the connection breaks in front of the device's confirmation, and then only
verification sees what is missing), `CleansUp` of such a pull (`Sure`),
`OnlyPartialDeleted` and `OverwriteIsApproved` of a pull during which the application is not
closed. A refused creation and a shutdown in the conflict loop are Known divergences;
`ParallelPull` and `ParallelPush` run inside these conditions.

### `SingleTransfer_proofs`

`CompletedMeansDelivered`, `SourceOrCopy`, `NoPartialLeft`, `OverwriteIsApproved` and
`StopBeginsNothing`, without conditions. `IInv` says of every item where it can be:
not begun and as it was (`Waits`), under way and then a beginning of its source
(`Prefixes`, which resumption relies on: the local size is the offset to go on from),
counted and then whole (`Arrived`; a push whose confirmation was lost, and a file on the
device that was there before, are excepted as in the property). `Sources`
ties the deletion of a source to a copy that is whole and behind the batch, so that no later
retry or clean-up touches it; `Leftovers` follows the one file clean-up may have to delete,
and `Choices` an answer of the user from the prompt to the write it permits. A folder
leaves its source only at the end of a move: `Folders` says that the ones the loop has
passed are at the destination, and `Unreached` names the others, which go only behind a
shutdown.

### `CrossDevice_proofs`

`CompletedMeansDelivered`, `CleansUp` and `InStep`, without conditions, for any number of
pairs. `Owned`: a range is queued once or held once, and not both; `Counts` needs it to
say that, unless Stop was pressed, the counter of ranges relayed is the number of those
whose CRC is kept (a range is never counted twice), and `Arrived` that the span of each of
these is in the file. A file whose counter reaches its number of ranges is then whole, by
cardinality. `LeftForGood` is the reason for `InStep`: a worker that left data in its
source's stream is on its way out.

### `Session_proofs`

`InSync` and `SuccessIsServed`. Between two operations nothing is in either stream
(`InSync`); during one, `Conversation` lists the six shapes the two streams and the two
positions can have together: the request is on its way, it was lost with the link, the one
message that ends the operation is on its way, a download is streamed, an upload is opened,
an upload is stored. Each step leads from one shape to another or to the end. `RunsFit`
bounds what is announced and not yet received, also when a stale answer is taken for that of
another request, and is what keeps the counters in their type. `desynced` stays the
exception the properties themselves make.

### `DokanDrive_proofs`

`NothingLost`, `NothingLeftBehind`, `ListingCurrent` and `TypeOK`. They are about unharmed
paths, as the properties are, but are proved of all behaviours: TLC's run stops at a step
that harms a path, the theorems go on with the others. `OneSender`: data of a path leave in
one program's Cleanup at a time and none is buffered behind, so nothing is overtaken;
`Kept`: behind every buffer there is a program that will close the file; `Calls`: what a
program's position says of its handle and of the buffer it has taken; `UnderWay`: a program
in its WriteFile still has the file under the name it was called with, unless that path is
harmed, which is what makes a direct write between the callbacks of others hold. On the way the
lemma `Buffering` shows that the flush at the beginning of `FsWriteFile` (a buffer that is
already full) never happens: a buffer that stays between two calls is below its limit.

### `Application_proofs`: the panels

`ShowsItsFolder`, `AwaitedIsComing` and `NothingSleptThrough`, for any number of panels,
devices, folders, clicks, losses and exceptions. `PanelsInv` follows a listing through the
four places it can be in (queued, being fetched, in the queue of messages, taken out of it
and not yet applied):

* `RequestsMatch`: no listing is of a later request than the panel's last, and the one of the
  last is of the panel's device, and of its folder unless the panel will list again. This
  is why the generation and the comparison of the folder are enough together;
* `MessagesCurrent`, `DrainedCurrent`, `PanelsCurrent`: what a listing or a panel at rest
  shows is what the server of now would list, or behind it comes a message ("ready", "root")
  that makes the panels of the device list again. The order of the queue is what this rests
  on: a server is restarted by the thread that then posts the message, after every listing of
  the old one;
* `AwaitedIsComing` is inductive with these, and `NothingQueued` and `Forgotten` carry
  `NothingSleptThrough` through the end of the application.

### `Application_proofs`: pairing

`SessionsApart` and `PairedStays`, for any number of sessions and workers. `PairingInv` has

* `Generations`: nothing the worker or a result is of is newer than the dialog's session, and
  what is of this very session was begun in the open dialog;
* `Truthful`: a worker or result that says "connected" says "paired", and then the phone has
  accepted in that session;
* `NeverForgotten`: behind the first result that says "paired", or behind the dialog that
  knows it, come only results and a worker that say so too, but for `overtaken`;
* `Followed`: a progress message still in the queue is followed by its worker's result, or
  the worker will yet post one, so that no new worker is started unnoticed between the two.

`PairedStays` is an action property: it follows from `NeverForgotten` in the one step that
sets `done`, the application of a result.

### Assumptions, and what is not proved

Assumptions are only those named in the modules, which TLC evaluates in the runs: the sizes,
bounds and plans are natural numbers and sequences of items, flags are Boolean, there is a
buffer and a worker, and the values that stand for "none" are none of the others.

Only model-checked: all liveness (`Answered`, `BatchEnds`, `OperationEnds`,
`PairingReported`), which is out of the prover's reach, and the violation run. Every
invariant of a passing run, `Implements`, `StopBeginsNothing` and `PairedStays` are theorems,
those of `ParallelTransfer` under the conditions given there.

Conversely `TypeOK` (but that of `DokanDrive`), `NoMutualWait`, `GivenUpForGood` and
`CrossDevice_proofs!Owned` are theorems that no run repeats.

## Not modelled

`PROJECT.json` lists each component with its reason. Byte layouts, text parsing and image
processing are left out because no property here depends on them; rendering, because its
effect on a batch is modelled as the user's actions. ADB and the operating systems are
environment: links break, processes die, files cannot be opened, writes fail.

* Server start, direct connection, control channel: sequences of ADB commands whose effects
  are the device's. Their outcomes (a server that is up, with root or without; a channel
  that is back or not) are in `Session`, `SingleTransfer`, `ParallelTransfer` and `FilePanels`.
* Archives, on the device and on the PC: shell pipelines and byte layout.
* Objects whose memory is freed while in use (`m_extraChannels`, the listing `getDir` returns a
  pointer to): the step is undefined behaviour of the program, behind which no property of
  the files says anything; `PROJECT.json` lists both as hazards.
* Third-party code under `src/thirdparty` (JSON, SIMD, image
  codecs) is by far the largest part of the tree and none of the program's own logic.

## Plan

1. The rest of the relay: `relayFile` and the fallback that copies an item over the PC.
2. Channels: failover, extra channels and the batch thread that uses them; the control
   channel and its fallback.
3. Composition: `SingleTransfer` over `Session`.
