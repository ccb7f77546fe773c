# Verification of wireview-pro-ii

TLA+ specifications of the WireView Pro II daemon (`wireviewd`), the runs of TLC
that check them on small instances, and proofs that TLAPS checks for every value
of the constants. The source is the reference: each definition that models code
is listed in `PROJECT.json` under `map` with the lines it stands for.

- [1. The system](#1-the-system)
- [2. The modules](#2-the-modules)
- [3. The runs](#3-the-runs)
- [4. Where code and documents differ](#4-where-code-and-documents-differ)
- [5. Fairness](#5-fairness)
- [6. What is proved](#6-what-is-proved)
- [7. What is left out](#7-what-is-left-out)
- [8. Plan](#8-plan)
- [9. How to run it](#9-how-to-run-it)

## 1. The system

A WireView Pro II is a power meter with a display, attached over USB as a serial
port. The daemon alone opens that port (`docs/adr/0001`). Clients, which are a
command line tool and a desktop application, call it over Varlink on a Unix socket.

```
 wireview, GUI --Varlink--> service --Command--> manager --calls--> backend --serial--> device
                                ^                   ^
                 state, events -+                   +-- HostEvent -- discovery, signal handler
```

### Components

| Component | State | Operations | Interacts by |
|---|---|---|---|
| Device manager (`src/manager.rs`) | connection, candidates, retry, poll health, session, telemetry, the open dump, the debug lease, the recorded pause, the last NVM mutation | a select loop over a timer arm (expire dump, expire debug pause, retry a resume, poll), host events and commands | owns the backend; mpsc queues of 32 in; `watch` state and `broadcast` events out |
| Configuration transaction (`src/manager.rs`, `src/varlink.rs`) | what a handler wants and what was before | get, apply, store, set an item, reload, reset: check, write, read back, store, roll back | service calls the manager twice and compares revisions in between |
| History transfer (`src/manager.rs`, `src/backend.rs`, `src/bin/wireview.rs`) | the cancellation slot, tokens, lease timers, the page being read | begin, read a chunk, end, expire, cancel for a shutdown | the slot is shared by the handle's callers and the manager |
| Theme asset transaction (`src/manager.rs`, `src/backend.rs`) | backup of the sectors | read, erase, write, verify, restore | called by the manager under an operation pause |
| Serial backend (`src/backend.rs`) | the open tty, the probed version | handshake, one request and one answer per command, page reads, screen commands | serial line without addresses or sequence numbers in answers |
| Discovery (`src/discovery.rs`) | none | a scan every 750 ms, sent as candidates | host events; ends at the first error |
| Event relay (`src/manager.rs`, `src/varlink.rs`) | the broadcast's buffer, the last event, one stream per monitor | publish a state, send its event, pass it on, drop the oldest | `watch` state and `broadcast` events; streams of the Varlink library |
| Daemon process (`src/bin/wireviewd.rs`) | the connections | accept, serve, shut down in order | socket activation, signals |
| Varlink service (`src/varlink.rs`) | none of its own | forwards calls, converts answers, streams events | reads the `watch` state beside its calls |
| IPC client, GUI worker (`crates/wireview-ipc`, `crates/wireview-gui/src/client.rs`) | one connection, a queue of requests | calls with time limits, reconnects | Varlink |
| Command line client (`src/bin/wireview.rs`) | a download, a temporary file, what a watch shows | history, configuration, themes, watch, monitor, formatting; decoding into a file that replaces the destination | Varlink; a cleanup connection after a signal; a second connection for a watch's events; the file system |
| Codecs (`config.rs`, `history.rs`, `protocol.rs`, `theme.rs`) | none | decode, validate, encode | called by the others |
| Window and graphs (`crates/wireview-gui/src/app.rs`, `graph.rs`, `ui/app.slint`) | the page, forms and dialogs, the samples of the graphs | apply an event, draw, edit, confirm | the GUI worker's events come through the event loop's queue; commands go back through a channel |

### What is hard, and what makes each part correct

The hazards, each at its line and with the properties that would catch it, are in
`PROJECT.json` under `hazards`. By component:

- **Manager.** Three owners of the display's pause end in any order, by command,
  expiry or failure, while the device may go at any await. The display must be
  paused while anybody owns it and run again after the last; nothing of one
  session may survive into another; a device that stays must be served again
  after whatever happened; a shutdown must complete among competing arms.
- **Configuration.** A transaction of up to ten stages may fail in each of them,
  with the line up or lost; other clients and reconnects come between its two
  calls; the daemon may die. What the device holds must be what the answer says,
  nothing may be overwritten that the client has not seen, and NVM must be spared.
- **History transfer.** A cancellation is given in another task than the one that
  reads. It must hit the right dump, at once, and leave no answer on the line
  that a later read would take for its own; a dump must close although its client
  was killed.
- **Themes.** An erase destroys the neighbours in the sector until they are written
  back. A write must be whole, or leave no trace, or say that it may have left one,
  whichever request fails, and although acknowledgements may be lost or wrong.
- **Events.** A state is published, and then the event that announces it is sent; the
  event passes two buffers that drop their oldest, while the state goes on. A watch must
  come to show the last change, and who misses an event must be able to tell.
- **Exports.** The decoder finds the measurements among padding and erased slots, of
  which neither divides the sectors evenly; a write, a sync or the rename may fail, a
  signal may come, and the process or the machine may go down between any two of them.
  A destination must be the old file or a whole new one.
- **GUI worker.** A request that ran out of time leaves its answer on the connection,
  where the next request finds it. Devices and daemons are replaced while calls and
  downloads are under way. What the window shows must be of the present device, a
  read must end for the window whatever happens, and the view must catch up.
- **Window.** Events are applied one by one, later than the worker sent them, while the
  user changes pages, edits forms and answers confirmations. The graph of the page must
  be what was recorded, the form what is active, and an operation that is shown as
  running must end; a confirmation must do what was asked.

## 2. The modules

| Module | Models | Composition |
|---|---|---|
| `Manager` | the manager's task, with discovery, the USB bus and the shutdown around it | |
| `DisplayPause` | abstract: who owns the display and whether it is paused | `Manager` implements it |
| `ConfigTransaction` | the Varlink configuration methods, the manager's handlers stage by stage, the device's two memories | |
| `ConfigStore` | abstract: a configuration store with truthful answers | `ConfigTransaction` implements it |
| `HistoryTransfer` | clients that download, the handle's and the timers' cancellation, the manager's dump commands, page reads on the line | |
| `DumpLending` | abstract: a flash that is lent to one dump at a time | `HistoryTransfer` implements it |
| `ThemeFlash` | the manager's theme commands, the backend's flash transaction request by request, the flash and the line | |
| `ThemeStore` | abstract: a flash with calls that are served one by one and answered truthfully | `ThemeFlash` implements it |
| `MCManager`, `MCConfigTransaction`, `MCThemeFlash`, `MCMainWindow`, `MCCommandLine` | values of the constants for TLC | |
| `HistoryLog` | the layout of the flash as the decoder walks it, and what the log is, as operators without a state | |
| `HistoryExport` | one export: the decoder's walk, the temporary file, its commit; failures, signals, kills and losses of power | extends `HistoryLog` |
| `EventStream` | the published state, the events, the relay with its buffers, and a client that watches or monitors | |
| `CommandLine` | one run of the command line client: its checks, then following or writing | extends `EventStream` and `HistoryExport` |
| `GuiWorker` | the desktop client's worker, its connection and its history tasks, with the daemon as it sees it | |
| `GraphState` | the graphs' buffer, as operators without a state of its own | |
| `MainWindow` | the desktop client's window between the worker's events and the user, with the order of the worker's calls | extends `GraphState` |
| `ManagerProofs` | theorems about `Manager` | |
| `ConfigTransactionProofs` | theorems about `ConfigTransaction`, the refinement of `ConfigStore` among them | |
| `HistoryTransferProofs` | theorems about `HistoryTransfer`, the refinement of `DumpLending` among them | |
| `ThemeFlashProofs` | theorems about `ThemeFlash`, the refinement of `ThemeStore` among them | |
| `HistoryExportProofs` | theorems about `HistoryLog` and `HistoryExport` | |
| `CommandLineProofs` | theorems about `EventStream`, and that a run of `CommandLine` is one of its parts | |
| `GuiWorkerProofs` | theorems about `GuiWorker` | |
| `MainWindowProofs` | theorems about `MainWindow` and `GraphState` | |

`Manager` treats a configuration command, a chunk read and a theme command as one
operation with an outcome; `ConfigTransaction`, `HistoryTransfer` and `ThemeFlash` open
these operations up and leave out the rest of the manager. Definitions whose names end in
`_Faulty` are plausible bugs: `PROJECT.json` pairs every checked property with one that
breaks it.

### Manager

`step` is where the task is. A handler that awaits something long (a connection
attempt, a chunk, an exclusive operation, a stage of the timer arm) is split at
that await, and time, plugging and scans interleave there. Everything else of a
handler is one action, named as the `Command` or the method.

| Code | Specification |
|---|---|
| `state.connection` | `conn` ("absent" stands for Absent and Disconnecting), `candidates` |
| `current_port`, `state.session_id`, `state.telemetry` | `port`, `session`, `fresh` with `sampled` |
| `RetryState` | `retry`, with the delay of the nth attempt in `RetryDelay` |
| `Instant`s | countdowns, `Off` for `None`; `Tick` |
| `active_history_dump`, the cancellation slot | `dump`, `slot` |
| `display_physically_paused`, the device's own pause | `paused`, `devPaused` |
| a backend call | its outcome: "ok", "err" (connection up) or "lost" |

A tty that was open when its device was unplugged stays dead (`link`). So does one that
has answered `ConnectionLost`, which the backend makes of a device that is gone and of an
end of the file. The manager detaches on this answer, with one exception:
`ReadHistoryChunk` answers with the error of its read, and overlooks that the resume after
it has lost the connection (`LossOverlooked`, `manager.rs:1112`). Time may
pass a deadline before it is served, as it may while a handler runs. The states and the
events that the manager publishes on its way are in `EventStream`.

### ConfigTransaction

`phase[c]` is where the service is with client c's call: *asking* (the first read
of an apply), *stamping* (the answer is there and the session has not been read
yet), *waiting* (the command proper), *closing* (the answer is there and the
document's revision has not been computed yet). `work.stage` is the manager's
stage; each stage is one call of the backend with what follows it up to the next.

- A configuration is settings by parts, one part per frame of 62 bytes, and the
  CRC, which the host does not compute: the settings it was computed from.
  `Blank` settings do not decode; `Odd` ones decode and are out of range.
- `encode_configuration` validates, so settings that are `Odd` have no revision
  and cannot be written back: a rollback to them fails and says so.
- Frames are not acknowledged. A write that reports success may have lost one; a
  write that reports an error has sent a first part of the frames.
- A revision is taken to be injective (it is a 64-bit hash with the session), and
  an answer to a read to be what the device holds.
- `told` is how the manager ended the call: each ending is one error of the code.
- After a crash the service manager waits two seconds (`RestartSec=2s`), so the
  distance of NVM mutations is kept over a restart as well, and sessions are
  counted from the start.
- `GetConfigurationItem` reads like `GetConfiguration` and hands out no revision.

### HistoryTransfer

`EndHistoryDump` is two actions, `EndCancels` and `EndSends`, with the manager
reading, expiring or beginning dumps between them. A chunk is read page by page;
an answer is two halves on `wire`, so that it may be cut, late, or left behind.
A page read ends with its page, with the
last time-out, when it is cancelled, or with an error of the line (`ReadFails`).
Input that arrives when nobody reads is dropped, because every command of the
backend clears the input first. A client that is interrupted or killed leaves its
commands in the queue; their answers go nowhere. Clients use the dumps they were
given.

### ThemeFlash

`job` is the call that the manager carries out and its stage: *pause*, then *asset*
(a read) or *backup*, *erase*, *program* and *check*, then *resume*. `undoing` says
that the last three put the backup back. Every request is an action that sends it
and one that takes its answer or its time-out; between them the device carries it
out, in full or in part, and answers with a status of its own choice or not at all.

| Code | Specification |
|---|---|
| `backup`, `requested` | `backup`, `Wanted` (the backup with the bitmap patched in) |
| `bytes` of a read, `verified`, `restored` | `copy` |
| `ThemeAssetSlot::address`, `byte_len` | `First`, `Size` |
| the range of whole sectors | `SectorStart`, `SectorEnd` |
| the line | `todo` (requests not carried out), `input` (bytes that have arrived) |
| `ConnectionLostBeforeMutation` | "ConnectionLost" at the stage *backup* |

- The real bitmaps share sectors: `background-dark` begins within the last sector of
  `background-orange`, and no fan frame begins or ends with a sector or a page. So
  do those of the run. A cell is what one bitmap has of one page.
- Bytes arrive as they are in the flash; the protocol has no checksum, and a byte
  that is changed on the line is outside the model.
- A blank cell takes what is written; any other is garbled by it.
- A request that does not go out is not carried out. One that does, and whose
  sending is reported as failed, is one that is not answered.
- The device keeps its flash over removals; another device is not attached.
- A cell of the bitmap has the value that its call writes (`Pixel`), so that the
  pages and the calls are told apart.

### HistoryLog and HistoryExport

`HistoryLog` has the layout twice over: as the code computes it (`Crosses`, `NextPage`,
`NextSlot`, `Skip`), and as what it is meant to find (`Log`, the measurements in whole
slots before the first `EmptyRunEnd` erased ones in a row). `HistoryExport` walks the
flash slot by slot as `walk_history` does.

| Code | Specification |
|---|---|
| `sector_index`, `entry_index` | `at`, the slots of all sectors in one row |
| `found_first`, `empty_run` | `found`, `empty` |
| a record | its kind: "sample", "implausible", "power_on", "other" or "erased" |
| the document | `written`: the slots whose record is in it (all of them for bytes) |
| `AtomicOutput` | `name`, `taken` (the names that exist), `stage` from "create" to "rename" |
| `sync_all`; the directory's sync | `synced`; `durable`, what the name is sure to stand for |
| `HistoryCancellation` | `signalled`, which only a history export of the command line heeds |

- The fields of a record, and CSV and JSON, are text and are left out.
- The firmware writes padding into the slots that cross a page (`Padded`): without it the
  decoder, which does not look at the padding before its first record, could begin in one.
- After a loss of power a rename may have reached the disk or not, and of a file that was
  not synced anything may be left ("torn"); that a synced file is whole is the file
  system's promise.
- A failed sync of the directory is the exit "unsure", which only the model tells from
  "failed": the command line ends with the same error code (`wireview.rs:471`), with the
  new file at the destination. `FailureChangesNothing` is about the failures before it.
- Temporary names carry the process id, so that only a run that was killed and had the
  same one leaves some behind (`stale`).

### EventStream

| Code | Specification |
|---|---|
| `DaemonState` in the `watch` channel | `state`: connection, session, sequence, and the telemetry's own session and sequence |
| `bump_and_publish`, then `events.send` | `Publish`, which leaves the event in `outgoing`; `SendEvent` |
| the broadcast receiver of the publisher | `channel`, `lagged` |
| `DeviceService` | `service`: made with a snapshot, then subscribed (`first`, `latest`) |
| `Monitor`'s stream | `stream`, whose first element the library takes from its own notion of the last event: `first`, `latest` or none |
| `telemetry --watch`, `debug monitor` | `watching`, `follower`, `shown`, `readAt`, `seen` |

States without an event take a number as well: an attempt, a failure, an operation, several
devices at once (`SeveralDevices`). Between `Publish` and `SendEvent` the service and the client go on; the manager does not.
A watch reads the telemetry on one connection, subscribes on another, and then reads the
telemetry again on each event.

### CommandLine

`CheckArguments`, `Connect` and `RequireApiVersion` are what every command does first;
`Follow` and `Write` are the steps of the parts. A command has in memory what it writes,
so the daemon stands still meanwhile. The window's export needs no daemon and no check.

### GuiWorker

The worker is one task: `todo` holds the calls of the command or refresh in hand,
and `wire` the calls and answers on its connection, first come first taken. Varlink
numbers neither, so an answer that nobody waited for any more is taken by the next
call; it decodes if its type is right (`Type`), and an error always does.

| Code | Specification |
|---|---|
| `connection` | `link`, the process at its other end, and `wire` |
| `session_id`; the device it stands for | `sessionId`; `seen` |
| `device_info_loaded`, `configuration`, `history`, `themes` | `kept`: the session each is of |
| `history_cancel` | `reading` |
| `history_generation` | `wanted`: the read it was last set for, 0 after an invalidation |
| `download_history` | a task: its call is answered, or given up, in one step |
| the daemon | `process`, `attached`, `session`, `mark` (sessions of all processes), `dump` |

A rollback of the poll interval is the third call of an apply that changes both;
the interval's value decides nothing else and is left out, as is the delay between
attempts to connect. A device's `Plug` while another is attached stands for a
replacement between two steps of the client. The model ends with the worker.

### MainWindow

`GuiWorker` asks what the worker makes of a connection; `MainWindow` what the window
makes of the worker. Here a call is answered at once or fails with the connection, and
`job` holds the calls of the refresh or command in hand, in their order. What they send
waits in `events`, which stands for the event loop's queue.

| Code | Specification |
|---|---|
| `GraphState` | `graph`: samples, session, last sequence and time, pause, and `view` for the kind, the window and the series |
| the paths and labels of a page | `drawn` and `overview`: the samples they were made of |
| `config-loaded`, `config-dirty`, the fields of the form | `config`, where `base` is the configuration that filled them |
| `selected-theme-slot`, `confirm-kind` | `theme`; `asked` remembers what was selected when the confirmation was opened |
| `operation-state` | `operation`: success and error are both "done" |
| a configuration's settings | its edition, which no other change and no other device has |

A confirmation covers the window (its `TouchArea` takes the clicks), so nothing but its
two buttons is used meanwhile; events go on being applied. The page "other" stands for
Configure, Themes and Device. The telemetry of a cleared fault is one more poll.

## 3. The runs

| Run | Shows | Bounds | Distinct states |
|---|---|---|---|
| `manager_safety` | leases, sessions, retries, the recorded pause; `DisplayPause`'s steps; also when discovery dies | 2 ports, 2 dumps, 1 upset, 2 plugging changes, shutdown | 3.8 million |
| `manager_liveness` | a failed resume is made up for, an abandoned dump closes, a stable device is served, a shutdown completes; also with two poll intervals | 1 port, 1 dump, 1 upset, 1 move | 460,000 |
| `config` | nothing unseen is overwritten, over reconnects, replaced devices and crashes; truthful answers, NVM spacing | 2 clients, 3 calls, 2 parts, 1 fault, 1 removal, attachment or crash | 1.7 million |
| `history` | cancellation hits the right dump and at once, a shutdown is quiet, the flash is lent to one client at a time and answers stay apart unless one is late (`DumpLending`), ends are answered, abandoned dumps close | 2 clients of which one may be killed, 2 dumps, 1 chunk of 1 page, 2 attempts, lease of 1, 1 fault, 2 moves, 2 of both, shutdown | 228,000 |
| `theme_flash` | a write is whole or leaves no trace or says that it may have, neighbours survive, a read shows the flash, nothing is erased unsaved, callers see one store (`ThemeStore`), calls end | 3 bitmaps over 2 sectors of 2 pages, 2 calls, 2 attempts, 2 faults, 1 removal or crash | 754,000 |
| `gui_worker` | what is shown is of the present session, reads end, the view catches up, stray answers decide no status, a shutdown waits for its read | 2 reads or other operations, 1 refusal or timeout, 1 move | 295,000 |
| `main_window` | the page that is shown is drawn from what was recorded, no sample comes back, a loaded form is the active configuration's, a running operation ends | 3 samples with room for 2, 2 views, 2 events, 1 command or selection, 1 move | 5.6 million |
| `command_line` | the decoder finds the log, a destination is whole, a failure leaves no trace, a success lasts; losses of events can be told, what is shown is as new as what was announced, a watch catches up | every flash of 6 whole slots in 3 sectors of 3 slots, log end after 2; 2 temporary names, 2 upsets; 5 states, buffers of 2 and 1 | 700,000 |

Every bound is a constant whose name begins with `Max` (`Capacity`, `Pending` and the
sizes of `HistoryLog` stand for constants of the code), or a switch (`MayStop`,
`MayCrash`, `LateFaults`, `ScanMayFail`, `LateAnswers` of `ThemeFlash`, and `Mortal`, the
clients that may be killed) that turns one kind of event off where a run asks about
something else. Why they are enough:

- Two ports are what an ambiguous or a replaced device needs; two dumps are what
  a stale id, token or lease needs; two plugging changes take a device away and
  bring it back; one upset at any place already meets every error path, and the
  third of three polls fails through a link that is dead rather than by upsets. Sends
  that fail late (`LateFaults`) change nothing but the device's own pause, of which no
  property of `manager_liveness` speaks; the theorems are about them too. One port is
  enough for a device to be served again; what a retry of one port does to another is
  in `manager_safety`, and in `RetryExplained`, which is proved.
- Three calls let a client read, another one write and the first apply, or the first
  lose its device and apply to the next; with two parts a lost frame leaves a mixture.
- Two commands let the result of a read that was invalidated meet the next one, or an
  operation meet a read. One
  timeout in a refresh leaves an answer behind for every call that may follow; one
  move replaces the device or the daemon, which also ends calls without a timeout.
- Three bitmaps over two sectors let the middle one span both, and share a page with
  each neighbour; two calls let a write follow one that left damage. Two faults let
  one begin the restoration and the other meet it.
- Three samples with room for two let the oldest go; a second session has samples of
  its own to be told from the first's. The clock stands still in the run (`MaxTime`), so
  that every time of a sample but the first comes from the one before it. Two events let a
  session's change wait behind its status, or an outcome behind a configuration.
- Two clients let a dump follow one of another, with one that is killed holding the first;
  with one page per dump, two dumps and the retry of a page still meet every answer that
  may be left on the line. A removal ends the read and clears the line, so of a fault
  before it nothing is left for what follows the next attachment.
- Three sectors with one padded slot each put the walk's rounding before, within and
  after the end of a log, and over the end of a sector; two erased slots in a row are
  what a count needs to be interrupted. Flashes of all contents are walked without faults,
  because no step of the walk depends on one; one flash of every kind meets all of them.
- Five states are a connection, its polls, and a second connection; two events in the
  broadcast and one in the stream overflow both before the client has read one.
- Two attempts stand for three: the first, and the last, differ from each other;
  a middle one does not differ from the first. With two cut answers both fail.

`CHECK_DEADLOCK FALSE` is set where the system may stop: a daemon that was asked to has
stopped, clients that have used up their bound are silent, and a command has run. The
window never stops.

`TypeOK` of each module with a specification of its own (that of `EventStream` is in
`CommandLineProofs`), `BusyMeansOwned`, `RetryExplained` and `AttachmentIsNewSession`
of `Manager`, `ReadIsTrue` of `ThemeFlash` and `PagesAreTheirOwn` of
`HistoryTransfer` (which `ThemeStore` and `DumpLending` contain) are not properties of a
run: they are proved.

Symmetry is used for ports, clients and bitmaps in safety runs only. `config` checks
`ConfigStore` as a property without fairness, where symmetric clients are sound.

## 4. Where code and documents differ

Four runs expect a violation. Each checks one sentence of a document or a test.

| Run | Property | What happens |
|---|---|---|
| `cleanup_spin` | `CleanupNeverSpins` | A resume fails and is to be retried; a dump begins first. `retry_display_resume_cleanup` returns without clearing the due time while the manager is Busy, and the timer arm fires again at once until the dump ends. |
| `rollback_saves_active` | `SavedSurvivesRollback` | A persistent change fails before anything was stored. Its rollback stores the previous active settings, and what was saved is lost. |
| `theme_late` | `WriteIsWhole` | An answer to a page of the backup arrives after its time limit and is taken for the answer to the repeated request, and so on to the last page. The shifted backup is written around the bitmap and compared with itself: the write reports success and the neighbouring bitmap is damaged. |
| `wrong_slot` | `WritesChosenSlot` | A preview is read; another slot is selected and its replacement asked for. The preview arrives and selects its own slot again (`apply_theme`), under the confirmation, which names no slot and writes the selected one. |

`ConfigStore` states what the code does in the second case (a rolled-back persistent
change saves what was active), so that its other promises can be checked as a whole.

Some limits have no run of their own. The session of a document's revision is read after
the manager's answer (`varlink.rs:321`): a device that is replaced in between, by one
with equal contents, is written on the strength of a document of the old one, though
`docs/varlink.md:77` says that a reconnect causes zero hardware writes.
REFRESH on the Device page fills the form anew and drops the edits, though
`docs/desktop.md` says that the page keeps them until they are applied, stored or
discarded. One failed scan ends discovery for good, and
nobody notices until the shutdown (`docs/operations.md` says that the daemon continues
scanning): `manager_liveness` with `ScanMayFail` violates `StableDeviceIsServed`. A
page of a history, too, may be made of the answers to other requests once an answer is
late, or left over from a read that failed, by the same line as `theme_late`: `PagesAreTheirOwn` says that this is the only
way. A resume that reaches the device although its send fails
leaves `display_physically_paused` true, so that the next dump sends no pause:
`PauseRecordIsTrue` holds, and is proved, only where sends do not fail so late
(`LateFaults`). A history chunk whose read fails and whose resume then loses the connection
leaves the manager Ready over a dead tty, with the pause recorded and nobody to undo it:
`PauseAccounted` says that a pause without owner has a retry scheduled or a tty that is
dead, and `ImplementsDisplayPause` that it ends, because the polls that fail detach. And a
shutdown disconnects without a resume: a display that was
paused under a lease stays so, and no lease is left to expire.

Of events: `docs/varlink.md:123` sends a client that sees a gap in the numbers back to the
state; gaps also occur without a loss, because states that are published without an event
take a number of the same counter, so a gap is no proof of a loss (`LossIsSeen` states what
the numbers do tell). A watch shows its first telemetry before it subscribes, so what
changes in between is shown with the next event. `DeviceService::new` takes its snapshot
before it subscribes to the broadcast: an event sent in between reaches no stream.

Of exports: an empty log is written as one sentence in either format, which is neither
JSON nor CSV. A success of the window, or of a path without a directory, is not followed
by a sync of the directory, so that a loss of power may bring the old file back;
`SuccessIsDurable` says for whom it does not.

## 5. Fairness

- `select!` picks at random among ready arms: an arm that is ready again and again
  is taken. This is strong fairness of host events, the timer arm and commands.
- An await that is in progress ends, because the backend bounds each by a time
  limit: weak fairness of the actions that finish it.
- Futures of connections, spawned timers and time go on: weak fairness.
- Discovery repeats its snapshot: weak fairness of `Scan`, while the task lives.
- The GUI's loop takes what is ready at random as well: weak fairness of its next
  step and strong fairness of taking a result, which competes with commands and
  ticks. The daemon serves calls (weak fairness); calls that are given up although
  the daemon would answer are bounded, like other faults.
- In `EventStream`, the manager's send, the publisher's task and a client that waits for
  an event or an answer go on (weak fairness). Changes of the state are not fair.
- Clients, faults, plugging, crashes and the request to stop are not fair. In
  `HistoryTransfer` neither is what follows that request: whoever waits is answered
  even by a daemon that is slow to stop.

`manager_liveness` assumes no fairness of answers: a device that stays is served
because faults are bounded, which is to say that they stop.

## 6. What is proved

All theorems hold for every value of the constants under the named assumptions
(`PortsAssumption`, `TimesAssumption`, `BoundsAssumption` in `Manager`;
`SettingsAssumption` and `NoCallAssumption` in `ConfigTransaction`; `SizesAssumption`
and `BoundsAssumption` in `HistoryTransfer`; these and `SlotsAssumption` in
`ThemeFlash`; `LayoutAssumption` in `HistoryLog`; `ExportAssumption` in `HistoryExport`;
`StreamAssumption` in `EventStream`; `BoundsAssumption` in `GuiWorker`; `GraphAssumption`
in `GraphState` and `WindowAssumption` in `MainWindow`), which TLC evaluates in the runs.
An inductive invariant is not a property of its own in the runs, which check its parts
that say something of the system; TLC agrees with the whole on the same instances.

**Manager.** `Inductive` is the conjunction of the type invariant, the five safety
invariants and `TaskMatchesConnection`, which ties `step` to the connection: a
dump excludes operations, a read chunk has a dump, an attached device has fewer
than three failed polls. Without it, for example, `FinishPlain` could make the
manager Ready while a dump is open, and `BusyMeansOwned` would not be preserved.
`ManagerProofs` has one lemma per action or group of actions, whose steps are the
parts of `Inductive` that the action can disturb; `AlwaysInductive` combines them,
and the invariants follow. `PauseAccounted` excuses a dead tty, so its steps need that a
tty that is dead stays so until the manager detaches, which resets the pause
(`OverlookedEffect`, `LossOverlookedKeeps`).

It also proves that attachments and sessions go together
(`AttachmentStartsSession`), that the recorded pause is the device's own if no
send fails late (`RecordStaysTrue`, with the strengthening that it needs), and
that every step is a step or a stutter of `DisplayPause` (`PauseStepsImplemented`).

**ConfigTransaction.** All three properties of the run `config` are proved, without a
bound on clients, parts, calls, faults or crashes. `ServiceOK` says that a client whose
settings are on their way expects the revision of its own document; `QueueOK` that a
client's command waits once or is handled, never both, which keeps the call of a handler
from being replaced under it; `WorkOK` what each stage knows: nothing is written before
the check, `want` asks for what the call does, `before` holds the settings that were
active when the handler began, and after a store or a load the two memories agree.
`Spaced` says that the host knows of every mutation of late. A step is then of one of
three kinds, each with its lemma: the handler answers, and `Allowed` says that the
answer is one `ConfigStore` gives (`AnsweredStep`); it goes on, and nothing of it is
visible (`GotoStep`); or it loses the connection (`LostStep`). There is one lemma per
stage, and `CrashStep` shows that a daemon that dies leaves at most one call cut short.
`TransactionsImplementStore`, `AppliesOverWhatWasShown` and `MutationsAreSpaced` follow
from `InductiveHolds` and these; `TypeOKHolds` adds the counters, which decide nothing.

**HistoryTransfer.** The properties of cancellation are not inductive. A timer that is left
behind could cancel a later dump, so `ReadsTheDump` says that timers exist only
while their own dump is read and agree with its lease; `DumpKnowsItsEnd` says that
an open dump whose end was asked for is cancelled, which needs that the slot names
the open dump and that ids are never given out ahead (`IdsAreOld`). For the
shutdown, a queued begin may still open a dump after the token was cancelled;
`ShutdownCancels` says that no queued command can read that dump, and holds because
nobody is served any more (`NobodyIsServed`). `HistoryTransferProofs` proves that
their conjunction `Inductive` holds (`InductiveHolds`), and from it `TypeOKHolds`,
`CancelledForAReasonHolds`, `EndedDumpIsQuietHolds` and `ShutdownIsQuietHolds`.
`PagesAreTheirOwnHolds` rests on an invariant about the line, `OwnAnswers`: as long as no
answer has been late (`late` is an answer that is on its way when its read times out or
fails), the line is empty while no page is awaited, and while one is, what
has been taken and what is on its way are a beginning of its own answer, in order. It is
kept because a wait that does not end with the whole page taken ends by a time-out or an
error, and one that leaves something on the line is what makes an answer late.
`TransferImplementsLending` maps all this to `DumpLending`, in which a client is idle,
waits for a dump, holds one, waits for a chunk or ends: a command takes effect when the
manager answers it, and the queue, the page reads, the tokens and the timers are stutters
(`QuietLends`) until the last page of a chunk is there (`GiveLends`). The inductive
invariant says what the manager reads, and nothing of who waits for it, so the
refinement needs `AnswersFit`: a client that waits has exactly one question in the queue
or in the read, of the kind, dump and chunk that it waits for. Interruptions and kills
keep it because they take the questions of the dropped connection from the client
(`OrphanFits`); with it, an answer moves the client that it was for, in the phase
in which it expects it. The run has one chunk, so that chunks come in order is shown by
the theorem alone.

**ThemeFlash.** The theorems assume that answers are not late (`~LateAnswers`;
`theme_late` shows that they fail otherwise), and hold for every layout of bitmaps
that are disjoint and every size of a sector that is a multiple of a page's.
The properties speak of the end of a call, so the invariant says what leads there:
`LineOK`, that the line holds nothing but the present request, or the beginning of
the page that was asked for; `PlaceOK`, that the transaction is inside its range
and that whole pages are left to write; `ContentsOK`, that `copy` agrees with the
flash up to `job.at`, that nothing has changed before the erase, and that from then
on `backup` holds the sectors as they were and the rest of the flash is untouched.
`ThemeFlashProofs` begins with the arithmetic of the ranges (`SectorFacts`: the
sectors are whole, inside the flash, and contain the bitmap), has one lemma for
each way a job goes on (`StartPreserves`, `NextPagePreserves`, `FinishPreserves`,
`FailPreserves`), and from them one per action. `CheckedFlash` is the step that
makes a comparison of sectors a statement about the whole flash.
`FlashImplementsStore` maps the transaction to `ThemeStore`: a call begins when it is
taken from the queue, a request that the device carries out disturbs what is around
the bitmap, and the stage `resume` (or a pause that fails) ends the call; all else is a
stutter (`WithinIsStutter`). At the end `Truth`, which the invariant holds of every
result from the moment it is decided, is what `ThemeStore` lets a call be told: a write
that is done has the flash of before with the bitmap in it, one that failed cleanly has
the flash of before, and a read that is done has copied the bitmap as it is.
`ThemeStore` has the unknown outcomes and the failed rollbacks too: after those it
promises only that nothing outside the sectors has changed.

**HistoryExport.** `LayoutAssumption` asks only that an entry fits a page and a page a
sector, `ExportAssumption` that flashes are padded. `DecodesTheLog` compares a walk with a
definition by sets, so the invariant relates the two at every slot. `WalkOK` says that
`written` is the log before `at`; `Tracks` that `found` is what the definition says of the
slots before `at`, and that the log has not ended there; `Counted` that `empty` is the
number of whole slots in the longest run of erased ones that reaches up to `at`. A step
over padding keeps both only if the slots it passes all cross a page and the one it
reaches is the next: this is `SkipIsNextSlot`, which is arithmetic with quotients and
remainders for every layout. `FileOK` says what a stage has done to the disk, and gives
the three properties of the file.

**EventStream.** `ManagerOK` says that the event that is to be sent is that of the
published state, and that the state shows what any event announced, or something newer;
`NumbersOK` that events have numbers of their own, along which sessions grow, and that a
connection begins a session; `WayOK` that the broadcast, the last event passed on and the
stream hold sent events in their order, later than those received; `ClientOK` that a
client that has not subscribed has received nothing, and `EventsFollowState`.
`EventsAreFollowed` and `LossesAreSeen` follow, for buffers of every size.

**CommandLine.** Every step of a run is a step or a stutter of `EventStream` and of
`HistoryExport` (`ARunIsOfItsParts`), so what is proved of these holds of it.

**GuiWorker.** `TypeOK` is strengthened by what bounds the sessions (`KindsOK`).
`ReadsOK` says that a read is one task or one result, and that no task but the one that
the window waits for goes on without having been cancelled, except after the end.
`LineOK` says that the calls of a connection are answered in order, that two answers of
it are as far apart in its process's sessions as in the sessions of all processes, and
that a status is asked for last. `MarksOK` says that every answer on the line and
what the awaited read will bring are of the session that is shown or of a later one. The two together are what `CurrentDataOnly` needs: the answer to a call that was
given up stays on the line and is taken for another's, and is still not of an older
session than the one shown, because what was answered before the status that showed it
has been taken before.

**MainWindow.** The window is behind its worker by the events on their way, so each part
of the invariant speaks of the queue. `OutcomesOK`: whatever is shown or announced as
running has a busy worker or an end behind it. `FormOK`: the last configuration on its
way, if no session follows it, is the worker's. `InOrder`, `ArrivesOK` and `LatestOK`:
between two changes of the session samples are in the order in which they were taken,
each that arrives is the newest that was recorded or newer, and while the connection
lives the daemon's sample comes after those on their way. `GraphOK`: the newest sample and
its time are remembered over a clear, which is why a cleared sample does not come back
although it is sent again. `RunningEndsHolds`, `FormIsTrueHolds` and `SamplesAreNewHolds`
follow; `GraphIsCurrentHolds` needs besides only that recording a sample does not pause the
graph: whatever else changes the graph or the page draws what is then shown.

All invariants and all action properties of the passing runs are stated by theorems.
What is left to TLC:

- Liveness, because neither fairness of an action (which is about ENABLED) nor leads-to
  can be proved with these provers: in `Manager` `AbandonedDumpCloses`,
  `StableDeviceIsServed`, `ShutdownCompletes` and the fairness of `DisplayPause` (its
  steps are proved); in `HistoryTransfer` `EndIsAnswered` and `AbandonedDumpIsClosed`; in
  `ThemeFlash` `CallsEnd`; in `GuiWorker` `ReadEnds` and `ViewCatchesUp`; in
  `CommandLine` `WatchCatchesUp`.
- The four violations, each of which is a behaviour that TLC shows.
- That `TheLogIsDecoded` and its like hold of `CommandLine` needs no proof of its own:
  its behaviours are theirs by `ARunIsOfItsParts`.

## 7. What is left out

- `GetStatus`, whose inconsistent reading is listed as a hazard without a property: the
  parts that it reads besides the state are not in `EventStream`.
- The handshake's bytes, and the fields of telemetry, configurations and history
  records: pure functions without behaviour over time, which the fuzz targets and unit
  tests of the repository reach.
- The texts of the command line, the generated documents, and the choice of a format.
- `ReadHistoryChunk` as a page read of its own: it uses a token that nobody
  cancels, and `Manager` has it as an operation.
- In `GuiWorker`: local exports (in `HistoryExport`), and answers that decode and
  are then rejected as inconsistent. A status is always of a compatible daemon.
- In `ThemeFlash`: the owners of the display's pause (in `Manager`), and the checks
  of a call's length and digest before it reaches the manager.
- In `MainWindow`: the history page, the texts, the scaling of `build_path` to the page,
  the tray, and the demo mode. Keyboard focus is taken to stay with a confirmation.
- The IPC client (`crates/wireview-ipc`) has no module of its own: it is a typed proxy. Its
  check of the interface and its types are in `CommandLine` and `EventStream`, and how
  calls on a connection end is in `GuiWorker`.
- Rendering and packaging: no behaviour to check.
- Wraparound of dump and session counters (64 bits, saturating or counted once
  per attachment): not reachable.

## 8. Plan

1. `Manager`, `DisplayPause` and their proofs: done.
2. `ConfigTransaction` over `ConfigStore` and their proofs: done. To check: that every
   call is answered, under fairness; and a late revision (section 4) as a run.
3. `HistoryTransfer` over `DumpLending` and their proofs: done.
4. `ThemeFlash` over `ThemeStore` and their proofs: done.
5. `EventStream` and its proofs: done. To do: the three reads of `GetStatus`.
6. `HistoryLog`, `HistoryExport` and their proofs: done.
7. `GuiWorker` and its proofs: done. To do: the window's `history_loading`, which a late progress
   event sets again after the read is over, and a reload that takes the answer of a
   configuration read given up before it (both are in the hazards).
8. `MainWindow` over `GraphState`: the graphs, the form, the themes and the operation,
   and their proofs, are done. To do: the history page, and `build_path` against a
   reference definition.
9. `CommandLine` over `EventStream` and `HistoryExport`: done. To do: the download itself,
   which would compose it with `HistoryTransfer`.
10. Compositions: `HistoryTransfer` with `Manager`'s display owners.

## 9. How to run it

`tlc -workers 2 -config ManagerSafety.cfg MCManager.tla` checks a run (the module
and the configuration of each are in `PROJECT.json`), and `tlapm ManagerProofs.tla`
checks the proofs of a module.
