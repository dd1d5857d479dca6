# Verification of vast-shell

TLA+ models, model-checking runs and machine-checked proofs for the parts of
vast-shell whose correctness depends on the order in which things happen. Paths
below are relative to `src/`.

## 1. The system

vast-shell is a desktop shell for Hyprland: a QML user interface (`Qml/`) run by
quickshell, native Qt plugins in C++ (`Plugins/Vast/`), and a command line tool
in Go (`vastctl/`) that supervises the shell and sends it IPC calls. Almost all
of the shell's own code runs on one thread; it is concurrent because work is
handed to a worker thread (`JobExecutor`) and comes back as a queued call, because
D-Bus, Wayland, processes and timers answer later, and because several `vastctl`
processes work on the same files.

### Inventory

| Component | State it keeps | Operations | Interacts with | What makes it correct |
|---|---|---|---|---|
| Daemon supervisor (`vastctl/internal/daemon`, `vastctl/cmd/daemon.go`) | `vast.lock`, `state.json`, one shell process | start, run, stop, restart, status; signals; boot timeout | other supervisors, clients, quickshell, the kernel | one supervisor and one shell per namespace; the state file names a shell that answers; stop and boot end |
| Clipboard history (`Plugins/Vast/Clipboard`) | the SQLite table, the list model, the loopback hash, limits | selection, copy, pin, delete, clear, limits, search | the Wayland selection, the event loop, the drawer | the list shows what is stored; pins survive; pruning spares the newest and the pinned; the order and the search are right |
| Wayland selection (`WaylandDataControl.cpp`) | the current offer, a pending file name, a generation, reads, own sources, writes | offers, reads from a pipe, own selections and their pastes, a device or a connection that goes, reconnects | the compositor, Clipboard history | no copy is missed; a name is joined to the offer it came from; what was copied can be pasted; the connection comes back |
| Job executor (`Plugins/Vast/Jobs`) | one worker thread and its event queue | post, run, quit | brightness, search, colours, image cache, clipboard entries | jobs run one by one in the order of posting; a reply finds its receiver as it is now |
| Bluetooth agent (`Plugins/Vast/Utils/BluetoothAgentManager.cpp`, `Qml/Modules/BluetoothAgent`) | active, activation in flight, pending prompts, the dialog | register, default, prompts, cancel, release, answers | bluetoothd over the bus | every prompt is answered once and settled; active means default |
| Dynamic island (`Qml/Services/DynamicIslandService.qml`) | current, overlay, queue, closing, three timers | show, dismiss, expiry, close | transfers, privacy, status and drag notices | what was shown disappears, what is queued is shown, timers match content |
| Brightness (`Plugins/Vast/Brightness`) | a worker per display and scan: pending, in flight, current; the service's primary display | set, group, profiles, all, rescan, screens that come and go | job executor, DDC and sysfs | the last value set is the one the display ends at; what is shown is what it has |
| File search (`Plugins/Vast/Search`, `Qml/Components/Dialog/FileDialog`) | the text and its debounce timer, the folder history, a walked list with its key, results, generations | type, navigate, refresh, toggle, close, walk, search | job executor, the file system | results are those of the last search; the cached list is what its key says; walks end |
| Colours (`ColorMaterial`, `PaletteAnimator`) | the palette, a generation | source, path, mode | job executor | the palette belongs to the last source |
| Image cache (`Plugins/Vast/ImageCache`) | entries, sizes, pending loads | load, evict | job executor | an evicted image stays out; the cap holds |
| Lyrics (`Plugins/Vast/Lyrics`) | lines, boundaries, the highlighted word, a timer, requests, cache files | fetch, reply, clear, seek, pause, offset | lrclib over HTTP, the players | lyrics belong to the track fetched; the highlight is the word at the position |
| Audio watchers (`Plugins/Vast/Audio`) | devices and nodes with dirty flags, sequence numbers, staging lists, the published models | registry and info events, enumerations, polls, set a profile | PipeWire's thread and the poll timer | the models show what PipeWire has, each card its own profiles |
| Notifications (`Qml/Services/Notifs.qml`) | the list, locks, timers, the saved file | notify, close, expire, clear, limit | the notification server, delegates | closed notifications leave once nothing shows them |
| Transfers (`TransferController.qml`, `KDEConnect*.qml`) | a queue of files, an active device, the island's token | share, reply, dismiss | D-Bus, the island | each file is reported once, in its own transfer |
| Thumbnails (`ThumbnailQueue.qml`) | a queue, one current job | enqueue, probe, generate | two processes | each job finishes once and the next starts |
| Screen recorder (`CaptureScreenVideo.qml`) | recording, paused, a process | start, pause, stop | a recorder process | one recorder; the state follows it |
| Authentication (`AuthFlow.qml`, `Modules/Lock`, `Greeter`) | phase, buffer, attempts | submit, response, result | PAM, greetd | unlock only after success |
| Panels and OSD (`Qml/Core/States`) | open panels, timers | open, close, toggle | drawers | one exclusive panel |
| Keyboard locks (`Plugins/Vast/Keylock`) | caps and num lock, the open keyboards | scan, initial state, key and LED events, removal | evdev, the compositor | what is shown is the compositor's lock |
| Material colours (`Plugins/Vast/MaterialColor`) | a scheme, the cache of resolved tones, the palette | resolve roles, build and validate a palette | job executor, the vendored colour library | the recursion ends; text is legible; every scheme gives a palette that is accepted |
| Translation, fuzzy matching, launch history, templates, IPC commands, configuration, status pollers | values | read, compute, write | files, processes, HTTP | functional; covered by unit tests |
| QML modules, widgets and components | layout | bindings | the services | presentation |

### What is hard to test here

`PROJECT.json` lists each hazard at its line. The main ones: a supervisor killed
between starting its shell and naming it in a file; a state file read, judged and
removed in three steps; a list that changes now and a table that changes when
the event loop gets to it; the same decision (what is pinned?) taken twice from
two copies of the state; two asynchronous registration calls overtaken by a
restart of the other side; two prompts for one device; pruning under two limits; slots that run in the
middle of an assignment; a value set while the previous one is being written and
the worker that writes it is replaced; late results of a search or a walk; a
selection, a paste and a broken connection at once; PipeWire's ids that are given
again between two polls; a highlight that a single-shot timer, seeks and new
lyrics all move; keyboards that tell one lock in different ways; tones that are
computed from one another.

## 2. Modules

Each module names the code it models in its header; `PROJECT.json` (`map`) gives
the lines for every definition. Definitions that carry the comment `fault:` are
not part of a specification: each is a plausible bug of the definition that
follows it, and one property fails when it takes that definition's place.

| Module | Models | Extends or instantiates |
|---|---|---|
| `ShellOwnership` | what `vastctl daemon` promises: one owner, its shell, its loss | |
| `Daemon` | supervisors, clients, shells, lock, state file | `INSTANCE ShellOwnership` (`Ownership`) |
| `Daemon_proof` | theorems about `Daemon` | `Daemon`, `TLAPS` |
| `ClipboardHistory` | table, list and event queue of the clipboard manager | |
| `ClipboardHistory_proof` | theorems about `ClipboardHistory` | `ClipboardHistory`, `TLAPS` |
| `ClipboardRows` | order of the rows and the search over them | `Parts` |
| `Parts` | which component a behaviour of `ShellPlugins` follows | |
| `BluetoothAgent` | registration, prompts and their dialog, the bus, bluetoothd | `Parts` |
| `BluetoothAgent_proof` | theorems about the agent in `ShellPlugins` | `ShellPlugins`, `QueueTheorems` |
| `WaylandSelection` | offers, reads, sources and reconnects to the compositor | `Parts` |
| `WaylandSelection_proof` | theorems about the selection in `ShellPlugins` | `ShellPlugins`, `TLAPS` |
| `AudioProfiles`, `AudioDevices` | the two PipeWire watchers and their polls | `Parts` |
| `Lyrics` | provider, parser, cache and scheduler of lyrics | `Parts` |
| `Keylock` | keyboards, their events and the locks shown | `Parts` |
| `MaterialRoles` | the roles of a colour scheme, palette building and validation | `Parts` |
| `ShellPlugins` | the plugins that share no state, one per behaviour | `ClipboardRows` and the seven above |
| `ShellPlugins_proof` | theorems about lyrics, audio devices and cards, keyboard locks, clipboard rows and colour roles in `ShellPlugins` | `ShellPlugins`, `QueueTheorems` |
| `DynamicIsland` | the island service and status notices, as functions on an island | |
| `IslandClients` | drag and drop, the receiver and privacy over the island | `DynamicIsland` |
| `Island_proof` | theorems about `IslandClients` | `IslandClients`, `QueueTheorems` |
| `JobExecutor` | the worker thread, its queue and the queued replies | |
| `Brightness` | workers, writes, scans, the brightness service | `JobExecutor` |
| `FileSearch` | the search of the file dialog, the walker, the search engine | `JobExecutor` |
| `ShellJobs` | the executor with its users | `Brightness`, `FileSearch` |
| `ShellJobs_proof` | theorems about `ShellJobs` | `ShellJobs`, `QueueTheorems` |
| `QueueTheorems` | lemmas about queues and sets: what popping and posting keep, counting, a least index, enumerations, sorting | the library's theorem modules |
| `MC*` | instances for TLC | the module they are named after |

### Daemon

A process of the model is one operating-system process: each member of
`Supervisors` is one run of `Supervise` (and the shell it may start), each member
of `Clients` one `vastctl` process that issues commands one after the other.
`pc[p]` is the place in `Supervise`, `Running`, `Stop` or `waitForExit`; between
two values of it any other process may run. `lock` is the holder of the flock on
`vast.lock`, `state` what `state.json` names, `seen[p]` what the last `ReadState`
of p returned. `shell[s]` tells a booting from a serving shell and a shell that
died before it ever served (`dead`) from one whose by-pid link may remain
(`gone`). The kernel's part is in `Kill` (a lock dies with its holder) and
`Deliver` (SIGTERM before `signal.Notify` is called, or after `signal.Stop`,
kills). `Kill` may happen at every step of a supervisor; commands that fail
(`cmd.Start`, `WriteState`, spawning) have a disjunct each.

`ShellOwnership` is the abstract specification: `Take`, `Start`, `End`, `Give`,
`Lose`. Files, polls and signals do not occur in it. The mapping is `owner` for
`lock`, `alive` for the live shells, `lost` for the killed supervisors.

### ClipboardHistory and ClipboardRows

The clipboard is split where the code splits it. `ClipboardHistory` decides
which rows exist: `stored`, `pins`, `content`, `stamp` are the SQLite table,
`shown` and `shownPins` the list model, `queue` the event queue of the main
thread, which holds the selections posted by the Wayland thread and the halves
that `ClipboardManager` defers by a zero timer. `Pin` changes the list and posts
the change of the table; `Clear` changes the table and posts the reload of the
list; `Remove`, `RemoveMany` and `Prune` change both. `Prune` is the whole of
`pruneToLimit`: `CountVictims` for `maxEntries`, then `ByteVictims` for
`maxMegabytes` one row at a time. Rows with equal timestamps are not ordered by
the query, so the victims are any set the ordering allows.

`ClipboardRows` is `ClipboardModel`: `entries` with the positions they are
inserted at and moved to, and `filtered`, the index list of a search. The pinned
group comes first and each group is newest first, except that bumping a leader
moves it one place down (`BumpToTop` computes its destination in a list that
still holds the row).

### BluetoothAgent

`active`, `inFlight`, `exported`, `pending` and `dialog` are the shell's;
`up`, `agent` and `waiting` are bluetoothd's; `wire` and `inbox` are what each
has sent to the other. An action handles one message, with every call of the
handler: `HandleCancel`, `HandleRelease` and a vanished owner share `Drain`,
which answers all prompts and closes the dialog. bluetoothd and the bus are
external: they order messages per sender, refuse a registration when `bus.refuses`,
answer calls to a name nobody owns with an error, and may stop (with a release)
or crash (without one). `bus.lag` says who may still have something to handle when
bluetoothd comes back; a behaviour keeps the `bus` it starts with.

### DynamicIsland and IslandClients

A QML assignment runs the slots of its change signal before the next statement,
so `show()` can run in the middle of `promoteOrClose()`. The functions of
`DynamicIslandService` are therefore operators from an island to an island that
take each assignment with its slots (`SetCurrent`, `SetOverlay`, `SetQueue`), in
the order of the code; an action is one timer or one call from outside.
`IslandClients` adds the owners: drag and drop and the receiver (infinite, then
dismissed by the id they kept), privacy notices (finite, one per kind), status
notices (a queue of their own, told one at a time). Request ids are reused once
nobody refers to them any more.

### JobExecutor, Brightness, FileSearch, ShellJobs

`JobExecutor` is one thread: `jobs` is its event queue, `replies` the queued
calls to the main thread. A job and the posting of its reply are one step, since
the main thread learns of a job by its reply only. `Run` takes the first job,
`Deliver` the first reply.

`Brightness` keeps, as the code does, one worker per display and scan:
`pending[w]` and `inFlight` of a worker live on when a scan replaced it, because
its write job holds a reference. `SetBrightness` stands for the calls of one
display, a group, a profile and all displays. `ScanDisplays` may find any set of
the connected displays that has the internal ones, and read any part of them.
`level` counts in hardware units: `Raw` is what is written for a percentage (a
backlight's is scaled and truncated, a DDC display is sent the percentage itself)
and `Percent` what is made of what is read. A write that is reported as done need
not have `reached` the display, since sysfs is not looked at again; the ghost
`guessed` holds the displays whose shown value came from no read and no write
that arrived.

`FileSearch` is the dialog's text field with its debounce timer, the folder
history, `DirectoryWalker` and `SearchEngine`. `RunFileSearch` is the whole of
`runFileSearch`. A generation number is only ever compared with the latest one,
so a job carries whether it is the latest instead. `Reopen` destroys the dialog,
its timer and its walker while the singleton's results and the two keys live on.

`ShellJobs` puts the users behind one executor. Each behaviour belongs to one
`user`, which makes all its calls: jobs of another user only delay one's own, and
every delay is already possible because `Work` and `Reply` are interleaved
freely with calls.

### WaylandSelection

The shell's side is `WaylandDataControl`: `display`, `device` and `reconnecting`
are its connection, `current`, `generation` and `pendingMeta` what `receiveSelection`
keeps of the last offer, `reads` the pipes it reads (the file name of an image
first, then the content), `sources` and `writes` what it offers itself. `events`
is what the compositor sent on this connection and the shell has not dispatched;
a new connection starts with none. `announced` collects the signals
`selectionReceived`, which the clipboard manager turns into rows. The ghosts
`stranded` and `crossed` mark the two cases in which the code gives up: a
reconnect that fails, and selections that were read under one number, since a
name that comes late sets the number back.

### AudioProfiles and AudioDevices

PipeWire calls back on a thread of its own and a timer of the main thread polls
under the loop's lock, so an action is one callback or one poll. Each device
carries the sequence number of the enumeration it waits for and a staging list;
`DeviceEventParam` drops the answers of older enumerations (`Accepts`). A poll
takes the stale devices, upserts their cards and then removes the ids that went.
`AudioDevices` has dirty flags in place of sequence numbers, and publishes a whole
snapshot. A node keeps the class it was `announced` with: whether it is followed
is decided by that class, whether it is listed, and as what, by the class of its
last info.

### Lyrics

`Fetch` answers from the cache at once or starts a request; a reply is applied
whenever it comes, whatever it is a reply to. The ghost `overtaken` holds while the
last of them was of another track than the one fetched. `Boundaries` are the times the parser gives the words of each
line (`InterpolateWords` spreads a line's time over its tokens). The scheduler's
timer is started for the distance to the next boundary; `Reschedule` is what a
seek, a pause, an offset and new lyrics share. The rate of playback is 1.

### Keylock

Each keyboard has a queue of events, its LEDs or none, and may be unplugged. A
press reaches the compositor, which toggles the lock and sets the LEDs of every
keyboard that has them. `ApplyEvent` is `KeyEventDecoder::applyEvent` for one
event: LED events tell the lock, key events toggle it on a keyboard without LEDs.
One lock stands for both, which share no state.

### MaterialRoles

`resolveTone` is a recursion with a cache; the model keeps its stack, so that a
table that makes a role wait for itself is a reachable state. The definitions of
the 2021 and the 2025 edition are operators from a role to a record (palette,
tone, backgrounds, curve, pair) in the order of the source's cases (`defs` holds
them for the scheme of the behaviour), and `ToneOf` is the arithmetic of one call. Tones are counted in fifths and contrast ratios in
hundredths; hue and chroma appear where a tone depends on them, as `Hues` and
`Reaches`. The contrast functions of the colour library, a submodule, are external.

### ShellPlugins

These components follow sources of their own and share no variable, so a
behaviour is one of a single component (`part`) while the others keep their
initial state: their product would multiply states without a new interaction.

## 3. Runs

Runs that pass:

| Run | Module, configuration | Instance and bounds | What it shows |
|---|---|---|---|
| `daemon` | `Daemon`, `MCDaemon.cfg` | 2 supervisors, 1 client with any number of commands | the lock, the shell and the state file agree after any kills; the refinement; a boot settles, a stop completes |
| `clipboard_history` | `MCClipboardHistory` | 3 contents (one blank), 3 rows ever, 3 timestamps, 2 queued events, `maxEntries` in {0, 1}, byte limits 0, 3, 4, one round of byte pruning (332,410 states) | list and table agree once deferred halves have run; pins survive; only an unpinning disturbs what a deletion or the limits leave; pruning spares the newest |
| `plugins` | `MCShellPlugins` | see below (365,171 states) | one claim or two per plugin, listed below |
| `island` | `MCIsland` | 1 privacy kind, 2 notices, 2 pending notices, a queue of 2 (86,505 states) | content always has its timer, nothing waits in vain, owners reach what they show |
| `shell_jobs` | `MCShellJobs` | 2 displays, 3 percentages over a backlight with 4 levels and a monitor with 2, 3 calls; 2 folders (one empty), 2 texts (one blank) and 5 calls (1,488,577 states) | no pending value is forgotten; once all is quiet what is shown was written or is what is read, and a backlight shows what was asked or one percent less; the cached walk is what its key says; the last search wins; walks end |

`plugins` checks, for each of its parts:

| Part | Bounds | Properties |
|---|---|---|
| Bluetooth agent | 2 devices, 3 boots, 3 prompts; a bluetoothd that refuses while both sides lag, or one that refuses nothing and the shell keeps up with | `NoOrphan`, `OneAnswer`, `ActivationBacked`; `PromptSettles` and, while the shell keeps up, `ReRegistersKeepingUp` |
| Rows of the clipboard | 3 rows, 2 searches and the blank one, 4 timestamps | `FilterCurrent`, `DisorderOnlyByLeader` |
| Wayland selection | 3 acts of copying, an image with a suggested name and a secret, 2 entries of the shell, 1 loss | `NoCopyMissed`, `NameIsOwn`, `PasteIsBacked`, `SelectionReturns` |
| Audio watchers | 2 ids, 2 devices, 1 change, 2 profiles kept of those offered; 2 nodes of 3 classes, 1 change of state | `AudioMirrors` |
| Lyrics | a synced song with lines out of order and equal times, a plain one, none; a position up to 8, 3 acts, delays up to 3 | `HighlightFollows`, `LyricsOfTrack` |
| Keyboard locks | 2 keyboards with any LEDs, 2 presses | `LocksMirror` |
| Material roles | 4 variants of 2025, 3 of 2021, both modes, 3 hues, 4 reaches, 3 source tones, contrast 0 | `NoRoleWaitsForItself`, `TextLegible`, `PaletteAccepted` |

Runs that end in a violation, one for each of the seven findings (section 6):
`daemon_one_shell`, `daemon_restart_race`, `clipboard_bump_front`,
`bluetooth_reregisters`, `island_overlay`, `audio_card_missing`,
`lyrics_unsynced`. Each checks its one property on its own small instance.

### The bounds

* Two supervisors are enough for every race over the lock and for an orphan that
  outlives one supervisor and meets another; the theorems hold for any number.
  Process ids are not reused; each supervisor of a behaviour starts at most one
  shell, as in the code.
* Three rows and one round of byte pruning: a victim of each limit, the row just
  stored, and one that survives exist together; `PruneRounds` is 1 where the
  code has a hundred, so that running out of rounds happens. A queue of two
  holds a deferred half behind a selection, or two halves for one row. The
  limits 3 and 4 are one long content alone and both contents together.
* Two devices and two ids: a device goes and another takes its id, or the free
  one, between two polls. One profile more than is kept makes the limit bite.
* Three acts of copying with one loss: an image's name is being read when the
  next selection comes and the connection breaks; a source of the shell that is
  replaced by another of its own, or by another program's, while it is pasted.
* Three acts on the player with a timer that reaches three ticks: a fetch, a
  fetch that overtakes it and a seek; `MaxDelay` 3 is passed by a gap of the song.
* The reaches are the corners of what a palette can show (chroma at one tone
  only, at dark, middle and light tones); the hues are one of each side of the
  tables' breakpoints that change a tone.
* Three prompts and three boots: a prompt that displaces another while one is
  being cancelled, and a restart during the recovery from a restart.
* A queue of two on the island with an infinite base, an overlay and a closing
  animation makes every function of the service promote, interrupt and close.
* Three calls of brightness: a value during a write, a rescan, and a value after
  it; five calls of the search: type, search, navigate, refresh or reopen during
  a walk, and one more. Three percentages tell a lost value from a
  kept one, and a hardware maximum of 3 truncates them in both directions; one of 1
  is less than the percentage a DDC display may be sent.
* `MaxClock`, `MaxId`, `MaxBoots`, `MaxPrompts` and `MaxCalls` are guards of the
  actions that count; a behaviour that reached them goes on with all others.
  `MaxQueue` of the clipboard and of the island keeps new calls out of a full
  queue; the real queues have no limit.

### Fairness

* `Daemon`: `WF(SupervisorStep)` per supervisor, since the operating system
  schedules a process that is not blocked and `AwaitInstance` polls against
  `BootTimeout`; `WF(ShellObeys)`, since a shell that was sent SIGKILL or the
  forwarded signal exits. No fairness for clients, kills or spontaneous exits.
* `ShellPlugins`: the shell's event loop runs, so what bluetoothd and the
  compositor sent is handled and the zero timer of a reconnect fires; the bus and
  bluetoothd handle what they are sent, and the user answers the dialog in the
  end. No fairness for restarts, prompts, losses and the compositor's clients.
  `ReRegisters` is about a bluetoothd that stays up. The audio, lyrics, lock and
  colour properties are about safety and need none.
* `IslandClients`: a timer that runs fires and a session that is on ends, written
  as `[]<>~running \/ []<><<Fires>>_vars`, which is weak fairness with ENABLED
  spelled out. Nothing is assumed of notices.
* `ShellJobs`: the two event loops run what the search has queued in them (in a
  behaviour of the search there is nothing else) and the debounce timer fires.

`CHECK_DEADLOCK FALSE` is set where the system may come to rest: a bluetoothd
that is down and out of boots, and an executor whose calls are used up.

## 4. Theorems

The theorems hold for every value of the constants that the named assumptions
allow: any numbers of supervisors, devices, rows, displays, keyboards, songs and
requests, and any bounds. Each safety property is one conjunct of an inductive
invariant, or follows from it; TLC checked every invariant on the instances of
section 3 before it was proved. The theorems about a plugin are about
`ShellPlugins` and those about brightness and search about `ShellJobs`, the
specifications that the runs check.

| Module | Assumes | Inductive invariant | Properties proved |
|---|---|---|---|
| `Daemon_proof` | `DaemonAssumption` | `DaemonInv` | `TypeOK`, `OneOwner`, `ShellHasKeeper`, `StateNamesServed`, `StateFollowsOwner`, `OneShellUnlessKilled`, `LiveStateKept`, `ImplementsOwnership` |
| `BluetoothAgent_proof` | `AgentAssumption` | `AgentInv` | `NoOrphan`, `OneAnswer`, `ActivationBacked` |
| `ClipboardHistory_proof` | `HistoryAssumption` | `HistoryInv` | `ShownIsStored`, `PinsSettle`, `SettledPinSurvives`, `OnlyUnpinDisturbs`, `NewestKept` |
| `WaylandSelection_proof` | `WaylandAssumption` | `WaylandInv` | `NoCopyMissed`, `PasteIsBacked`, `NameIsOwn` |
| `ShellJobs_proof` | `BrightnessAssumption`, `FileSearchAssumption` | `JobsInv` | `NothingForgotten`, `QuietAgrees`, `CacheMatchesKey`, `LastSearchWins` |
| `Island_proof` | `IslandAssumption`, `ClientsAssumption` | `Inv` | `TimerBacked`, `QueueBehindContent`, `OwnersHoldTheirs` |
| `ShellPlugins_proof` | `LyricsAssumption`, `LocksAssumption`, `RowsAssumption`, `ProfilesAssumption`, `PaletteAssumption` | `LyricsInv`, `DevicesInv`, `CardsInv`, `LocksInv`, `RowsInv`, `PaletteInv` | `HighlightFollows`, `LyricsOfTrack`, `AudioMirrors`, `LocksMirror`, `FilterCurrent`, `DisorderOnlyByLeader`, `NoRoleWaitsForItself` |

The assumptions say that `None` is none of the values it stands beside, that
bounds are natural numbers, and what the code fixes: sizes are natural numbers,
internal displays are displays, the sets of displays and of rows are finite, the
three kinds of stream are told in one order, a device offers a profile at least,
and tones lie between 0 and 100 and hues on the circle.

### Daemon

None of the properties is inductive alone: `OneOwner` needs that the lock names
whoever is past `AcquireLock`, `ShellHasKeeper` that no live shell belongs to a
supervisor that is past its clean-up, `LiveStateKept` that what a supervisor is
about to clear is its own or dead. `DaemonInv` collects these:

1. types, including where a client may be and what a client in `signal` has read;
2. `Owning(s) <=> lock = s`;
3. a live shell's supervisor is between `await` and `drain`, or killed;
4. a supervisor about to publish has a shell that resolves;
5. `StateNamesServed` and `StateFollowsOwner`.

The proof has a lemma for the steps of supervisors, of shells (with kills) and of
clients, and one step per action in each; where `Running()` sends a process is a
lemma of its own (`RunningTargets`). A client's `Stop` is split into the signal
that the supervisor takes and the one it dies of, which drops its lock. The refinement maps each
action to one abstract step or a stutter: `AcquireLock` to `Take`, `StartShell`
to `Start`, `ShellDies` to `End`, `Release` to `Give` (by part 3 the shell is
dead by then), `Kill` and a deadly `Stop` to `Lose`.

### Bluetooth agent

That no prompt is orphaned or answered twice needs where each prompt is: awaited
prompts are in the inbox, in `pending` or answered on the wire (`AwaitedLocated`),
in one of these only (`Exclusive`), and only the default agent is asked
(`AskedByDefault`). The handlers that answer (`Drain`, a newer prompt, a cancel,
the dialog) all answer a set of prompts once, so one lemma (`AnsweringKeeps`)
serves them all. That an activation in flight has its reply (`FlightBacked`)
counts the calls and replies of a registration on wire and inbox. That an active
agent is the default needs the whole handshake while the shell keeps up:
`Handshake` lists its phases (a registration on the wire, its reply in the inbox,
the request for the default, its reply, active; or the end of bluetoothd seen or
queued), and every step goes from one phase to the next.

### Clipboard history

`HistoryInv` is types and three facts about the deferred halves: rows are numbered
below the next id (`Fresh`); the list shows a row that is not stored only while a
reload is queued
(`GhostsReload`); a row whose two pins differ has a change of the pin queued, the
one to what the list shows (`PinsBacked`). The two action properties come from
the same invariant: a deletion other than the user's takes unpinned rows only
(`SettledStays`), a row is hidden but stored only past a queued unpin
(`HiddenRowUnpins`), `pruneToLimit` leaves at most `maxEntries` unpinned rows
(`PrunedWithin`), and no other step adds one (`WithinKept`).

`NewestKept` needs that the row just stored has the greatest stamp (`Stamped`,
`LatestIsLast`), so that pruning by number or by bytes, which takes the oldest
first, would take every other unpinned row before it. What is left then is the
pinned rows and the new one, and their bytes are those of the property's last
line. Bytes are a fold over a set, whose value is a choice among the orders of
adding. That the order does not matter (`AddsSame`) is proved with a smallest
set for which it would (`SmallestSet`), not with an induction theorem.

### Wayland selection

`WaylandInv` says that the last selection event of a connection carries the
compositor's selection, or the shell holds it (`LastWord`); what the shell holds
is being read or announced (`Held`); the source of the shell's own selection
lives and no queued event ends it (`Backed`, which rests on `Past`: only copies
that happened are talked about); and names and contents are read one selection
after the other (`NamesInOrder`), or `NameIsOwn` would not survive the answer to
a read. The last event but one becomes the last word when a device goes, so
handling the first event and adding one are lemmas of their own.

### Executor, brightness and search

`JobsInv` is `SearchInv /\ BrightnessInv`. A worker's in-flight flag stands for
one write among the jobs or one reply, never two (`OneWrite`); the executor's
order makes scans and writes of one display end in the
order in which they were asked (`ScansInOrder`, `WritesInOrder`), so that the
last of them tells the value asked last (`LastTells`). Without the order
`QuietAgrees` is not inductive: a write of a replaced worker might come after the
new scan. The theorem holds for every maximum the hardware may report; that
a backlight reads back as at most one percent less is a lemma about the two
truncating divisions. For the search, at most one job is the latest of each kind and its
reply comes after those of all others (`LatestIsLast`), and `Cached` relates the
list, its key, the walk on its way and the state of the folders on disk. The
lemmas of `QueueTheorems` say what popping one queue and posting to the other
keep of such relations.

### Dynamic island

The functions of the service call one another through the slots of their own
assignments, so an action is many of them nested. Each has a contract, a lemma
about any island it is called on: `PlaceFacts`, `AdmitFacts`, `ReopenFacts`,
`ShowFacts`, `PromoteFacts`, `StartFacts`, `PromoteOrCloseFacts`,
`FinishDismissedOverlayFacts`, `DismissFacts`, `FinishCloseFacts` and those of the
timers. Inside `promoteOrClose()` the invariant does not hold, so the contracts
say how the island may rest (`Rest`). Between two calls `Inv` holds: finite
content has its timer and a closing island its animation (`Closes`, `Based`,
`Overed`), requests wait behind content only and notices behind a notice
(`Fenced`, `Told`), a request is in one place (`Apart`), and what an owner
shows has the id that owner keeps (`ClientsInv`). `Apart` is what the others rest
on: a dismissal by id may otherwise take the wrong request off.

### Lyrics, audio, keyboard locks, clipboard rows

`LyricsInv`: the highlight is that of the last boundary passed and the timer, if
there is a next boundary within reach, runs for the distance to it (`Scheduled`);
the provider's state is that of the last reply (`Provided`). `DevicesInv`: the
last message about each node is on its way or recorded, and a node that is not
published as it is recorded is dirty. `Announced` adds that a node PipeWire has is
followed, if it was announced as a sink or a source, as soon as that message is
handled, which makes the list complete and not only current. `LocksInv`: presses are numbered in order
(`Numbered`); the last LED event queued by a plugged keyboard tells the lock
(`LedsTell`); and where no keyboard has LEDs, the shell's lock differs from the
compositor's exactly when an odd number of presses is yet to be inferred
(`Certain`).

`CardsInv`: what PipeWire knows and what the watcher follows differ by the
messages on their way, and an id is given again only behind the remove of who had
it (`Tracked`, `InOrder`, `Renewed`). Each enumeration has a number of its own
(`EnumsNumbered`). A device is in one of three phases (`Phase`): it changed and
the message that tells so is on its way; its last enumeration is asked and not
answered; or it holds the first answers, all of the version PipeWire has, and the
others are on their way in order. A poll takes only what came whole, save from a
device whose answers it split, and leaves a card as the device's last profiles
(`Published`). Answers to an enumeration that was overtaken carry an old number
and are dropped, which is why the number must be unique.

`RowsInv`: no two rows have one id or one stamp, and the search is what
`rebuildFilter` makes of the list. `Sorted` is a choice of an order; that there is
one (`SortExists`) is proved by giving each element the place that counts those
up to it. `DisorderOnlyByLeader` then compares where a row is inserted, the
first position it passes, with the order of the list it is inserted in.

### Colour roles

`NoRoleWaitsForItself` says nothing of why the recursion ends. `PaletteInv` does:
every role has a rank of 0 to 3 (`Rank`) and each call that has not returned is
for a role of lower rank than its caller's (`Descends`), so the stack is never
deeper than four. Surfaces have rank 0; a text on them, a container and a fixed
accent 1; a base and a dim fixed accent 2, with `surfaceTint`, which 2025 defines
as the primary base; a dim accent and what is written on accents 3. The proof goes through the tables row by row: whatever a definition is painted on, takes its tone
from or is kept apart from has a lower rank (`Sound`), with the exception of the 2021
pairs, whose members are kept apart by their raw tones and so do not wait for
each other. A 2025 pair resolves one member only, and the rank tells which. That a
call returns with a tone at all needs that every tone written to the cache is
one, from 0 to 500 fifths (`ToneIn`), through curves, contrast and clamps. The
theorem holds for any contrast, negative ones included, where the run has only 0.

### Only model-checked

* Liveness (`BootSettles`, `StopCompletes`, `PromptSettles`,
  `ReRegistersKeepingUp`, `SelectionReturns`, `QueueMoves`, `WalksEnd`): the
  prover does neither fairness nor ENABLED.
* `TextLegible` and `PaletteAccepted`: whether given tables of tones leave enough
  contrast is arithmetic on luminance with no argument but the numbers; the run
  enumerates the schemes. They are claims about contrast 0, the default
  of `buildPalette` (PaletteBuilder.hpp:27): at -0.5 TLC finds schemes `PaletteAccepted` rejects,
  and at 0.31 text on a single ground misses its ratio in dark mode by a fraction
  of the library's tolerance (two foregrounds within 0.1 count as alike).

## 5. What is not modelled

* `Daemon`: the mechanics of files (a state file is read and written whole, as
  `rename` guarantees), `status` output, logs, the contents of IPC calls, reuse
  of process ids.
* Clipboard: failures of SQLite, equal timestamps, `requestFullEntry`, images.
  A restart reloads everything.
* Wayland selection: the primary selection, pipes that fail or fill up, partial
  writes and the bytes. Offers reach the shell together with their selection.
* Audio: default devices (metadata), `AudioRestore`, volumes; how profile names
  are worded.
* Lyrics: the text of LRC files, the durations of words, a rate other than 1, and
  network failures other than an error.
* Locks: a dropped event queue of the kernel, which the code does not treat.
* Colours: quantisation, the temperature cache, hue and chroma, `ColorMaterial`'s
  job and generation: floating point with golden tests. Roles have tones only.
* Bluetooth: the texts of prompts and `DisplayPasskey`, which waits for no answer
  and leaves the pending prompt alone. Devices and adapters are quickshell's.
* Island: widths, animation and the content's appearance; `TransferController`
  is left out.
* Executor: jobs that are dropped at exit. Brightness: opening displays over DDC
  and parsing sysfs. Search: ranking, launch history, `fileDirs` (empty by default).
* The other components of the inventory: `PROJECT.json` gives the reason for
  each. Translation, fuzzy matching and
  templates compute values and have unit tests; panels, widgets and status
  services are bindings and polling.

## 6. Findings and behaviours that do not hold

Findings, each with a run that shows it:

1. `daemon_one_shell`: a supervisor killed between starting its shell and writing
   the state leaves a shell that no file names; it does come to serve, and the
   next supervisor starts a second one
   (`vastctl/internal/daemon/supervise.go:41` says it does not).
2. `daemon_restart_race`: `waitForExit` waits for the state to go, not for the
   lock (`vastctl/cmd/daemon.go:184`).
3. `clipboard_bump_front`: bumping the row that leads its group moves it one
   place down (`Plugins/Vast/Tests/Clipboard/tst_clipboardmodel.cpp:257`).
4. `bluetooth_reregisters`: when bluetoothd returns while an activation with its
   predecessor is in flight, the failure of that activation is final
   (`Plugins/Vast/Utils/BluetoothAgentManager.cpp:126`).
5. `island_overlay`: a notice promoted by the slot of `queueChanged` becomes an
   overlay over a finite base (`Qml/Services/DynamicIslandService.qml:135`).
6. `audio_card_missing`: when PipeWire gives the id of a device that went to
   another before the poll, the poll upserts the new card and then removes the
   id (`Plugins/Vast/Audio/AudioProfilesWatcher.cpp:357` says that a detected
   device is never silently missing).
7. `lyrics_unsynced`: choosing another player with plain lyrics leaves the
   highlight of the words before (`docs/Testing.md:137`).

Two behaviours are against a comment without a run that states it:

* Brightness: after a rescan a display has a new worker, and the next value queues
  a second write beside that of the old worker, where
  `Plugins/Vast/Brightness/BrightnessManager.hpp:88` says "at most one queued write
  per display". It holds per worker (`NothingForgotten`), and the last write is
  still that of the value set last (`QuietAgrees`).
* Island: a privacy notice that comes to the island from the queue is in neither
  when `syncAllRequests`, the slot of `queueChanged`, looks, so its id is forgotten
  and clearing its kind does not dismiss it before its 3 s are over, where
  `Qml/Services/PrivacyServices.qml:75` says "A cleared kind dismisses its own
  request instead of notifying". It does end (`TimerBacked`).

Other behaviours met while modelling, which no document of the repository promises
otherwise, so no run states them:

* Clipboard: `maxEntries` and `maxMegabytes` are never set from QML (the plugin's
  500 entries and 64 MB apply; `docs/Configuration.md` names a `maxEntries` of 300);
  the count limit counts unpinned rows while the byte limit counts all, so many
  pins can make every new selection its own victim; a duplicate selection moves
  its row up without storing a new timestamp; a reload drops the active search.
* Bluetooth: with prompts of two devices the dialog shows the later one only
  (`TakenOver` in `PromptSettles`).
* Wayland selection: a reconnect that fails is never tried again; a slow name
  read that ends after a newer one joins the wrong image (`crossed`), and the
  last name stays when the next image has none; an older, slow read is announced
  after a newer one. `NameIsOwn` exempts the images that were read under one
  number and no others: every other name is that of its image.
* Audio: a poll between the answers of one enumeration publishes half of it and
  then replaces that by the rest (`split`).
* Lyrics: a reply to a track that was left overwrites that of the current one,
  until the next reply, fetch or clear (`overtaken`); a gap of more than 60 s between words starts no timer, so the
  highlight stays until the next seek (`farAhead`).
* Locks: what is inferred from keys is wrong after a press while the keyboards
  are opened, after an LED told of a press before the key was read, and after
  events that went with their keyboard (`doubtful`).
* Colours: a negative contrast gives 2021 palettes that validation rejects
  (`docs/Testing.md:101` states the gap; the tests try 0 and 1.0); `PaletteAccepted`
  is checked at contrast 0.
* Island: two status notices told at once share the text of the second; a base
  timer left over from such a notice can take an infinite session off the
  island.
* Brightness: a value that is pending in a worker whose write is in flight when a
  rescan replaces it is never written (`Settled` exempts it). A monitor whose
  maximum is not 100 is sent the percentage as it is and read as a part of its
  maximum, so that a rescan shows another value than the one set (50 of 255 is
  shown as 19); a comment says that most monitors count to 100. A backlight that is
  set and read back loses up to one percent each time. A write to sysfs that did
  not arrive is shown as if it had (`guessed`).
* File search: in a folder without files every finished walk starts the next;
  Back and Forward leave the results of the folder that was left; a text typed
  back before the debounce timer fires leaves the results of the other text;
  closing the dialog during a walk leaves a key without its list (`abandoned`).

## 7. Plan

Done: the models of `Daemon` with `ShellOwnership`; `ClipboardHistory` and
`ClipboardRows`; `DynamicIsland` and `IslandClients`; `JobExecutor` with
`Brightness`, `FileSearch` and `ShellJobs`; the plugins of `ShellPlugins`; the
theorems of section 4.

Every safety property is proved but two of `MaterialRoles` (section 4, "Only
model-checked").

Not planned, with their reasons in section 5 and in `PROJECT.json`: transfers,
notifications, thumbnails, the screen recorder and authentication, whose objects
are quickshell's and external processes.
