# TLA+ verification of llm-usage-monitor

llm-usage-monitor shows how much of their quota the user has left with Codex,
Claude and Antigravity, how many tokens the local logs record, and whether the
vendors report an outage.  Two programs do the same job, a native one in Rust
(`src/apps/rust`) and an Electron one in TypeScript (`src/apps/node`).  They
share two files, `quota-v2.json` and `local-usage-index-v2.json`, and a
loopback port that serves as the lock between them
(`src/docs/shared-cache-contract.md`).

The project keeps TLA+ modules of the parts whose correctness depends on the
order of events, TLC configurations that check them on small instances, and
TLAPS proofs for every instance.

## 1. The system: components, state, operations

| component | source | state | operations | what is hard |
|---|---|---|---|---|
| Rust coordinator | `core/engine/monitor.rs`, `jobs.rs`, `reducer.rs`, `engine.rs` | snapshot, 8 jobs (generation, in flight, queued, failures, due), engine, cache_loaded, received_quota, stopping | start due jobs, apply results, merge the late cache, accept commands, send images, stop | results in any order, late cache, panicking collectors, stop with work under way |
| Rust quota cache | `core/engine/cache.rs`, the writer task in `monitor.rs` | the file, the writer's channel, the save in progress | load, save (temporary file and rename) | crash at any step, failed saves, order of images |
| Rust local index | `core/local_usage/*` | per file: size, mtime, identity, offset, boundary hash, contribution; per provider a section and a summary | scan, resume, rescan, checkpoint, validate | files that grow, shrink, are replaced or unreadable while they are scanned; restarts on a half-written index |
| Rust vendor health | `core/vendor_health.rs` | none | combine status pages into one indicator | precedence of indicators, missing components |
| Rust providers | `providers/*.rs` | child process, terminal screen, deadlines | one collection each | timeouts, early exits, output that never comes |
| Rust instance server | `shell/instance.rs`, lock in `bin/main.rs` | listener, handler thread, one-slot request channel | bind, accept, answer, show | two starts at once, silent clients, hand-over at exit |
| Rust shell | `bin/main.rs`, `shell/*` | window visibility, popover grace and cooldown, received snapshot | toggle, hide, quit | focus loss racing the tray click; shutdown order |
| Rust UI | `ui/*` | animation only | draw | - |
| Node store and poller | `usage/store.ts`, `usage/poller.ts` | entries with generation, running and queued refreshes, timers, in-flight operations | refresh, publish, schedule, stop | late results, timers and manual requests, queued reruns |
| Node core | `core/UsageMonitorCore.ts` | background work, subscriptions | create, start, refresh, stop | late checkpoint summaries, work during stop |
| Node snapshot cache | `storage/snapshotCache.ts` | promise chain of saves, the lock | acquire, load, save, flush | order of saves, failure of one of them |
| Node local usage | `usage/localUsageCoordinator.ts`, `local-usage/*` | running scan, queued round, debounce, watchers; scanner state as in Rust | request, watch, scan, stop | requests during a scan, abort |
| Node vendor health | `usage/vendorHealthPoller.ts`, `vendorHealthFetcher.ts` | timer, running request | request, schedule, stop | late answers |
| Node providers | `providers/**` | request table and child process (Codex), pseudo terminal (Claude), single running process (Antigravity) | connect, request, close; probe; run, cancel | timeouts against answers, exit of an earlier process |
| Node main process | `main/*` | main window, pending show request, idle timer, quit flag | instance request, show, hide, shutdown | two shows at once, quit while stopping |
| Node renderer | `renderer/*`, `preload/*` | last snapshot | initial state, pushed snapshots | answer overtaken by a push |

Interaction, in both programs: collectors -> coordinator or store -> snapshot
-> window; coordinator or store -> cache file; command (refresh, stop) ->
coordinator or store; second instance -> listener -> window.  The two programs
never run together on one machine: the port is held until the last save.

Correctness, per component:

- coordinator and store: what is shown never goes back to an older reading;
  windows and their time come from one reading; one collector per job; a
  request during a run leads to exactly one more run; a stop starts nothing
  new, waits for what runs and ends; progress shown is the work under way;
- cache: the file is only ever replaced as a whole, by images in the order of
  their age, also over crashes and restarts;
- local index: the sum equals what a scan from scratch would give, whatever
  grew or was truncated; a restart loses nothing;
- instance protocol: at most one owner of the shared files; a second start
  always learns the outcome;
- providers: each collection ends, once, with the answer of its own process;
- window: a request to show leads to one visible window.

`PROJECT.json` lists the components with their status and the hazards, each at
its line.

## 2. Plan

Done in this order; a module is followed by its runs and, where it can carry
them, its theorems.

| step | module | of | abstract specification, composition | proofs |
|---|---|---|---|---|
| 1 (done) | `QuotaLedger` | the promise of both programs about quota readings | - | - |
| 2 (done) | `EngineMonitor` | Rust coordinator, writer, cache file | implements `QuotaLedger` | all safety and the refinement |
| 3 (done) | `NodeMonitor` | Node store, poller, core, coordinator, health poller, snapshot cache | implements `QuotaLedger` | safety and the refinement |
| 4 (done) | `LocalScan` | incremental scan, checkpoint and index file, Rust | a scan from scratch | all safety |
| 5 (done) | `CodexClient` | Node's client of the Codex app server: processes, requests, timers | one process per request | safety |
| 6 (done) | `InstanceProtocol` | port, second start, hand-over, Rust | one owner | safety |
| 7 (done) | `DesktopShell` | the event loop, popover, login setting and refreshes, Rust | - | safety |
| 8 (done) | `ClaudeProbe` | the terminal session of a Claude read, Rust, both platforms | each read ends clean | safety |
| 9 (done) | `PopoverPlace`, `VendorHealth`, `CliSearch`, `ProviderAnswers`, `ClaudeScreen` on `Sifting`, composed in `Collections` | the algorithms without a state, Rust | reference definitions | all safety |
| 10 | `AntigravityRunner`, `RendererHook`, `MainWindow` | Node: one process at a time with deadline, kill and close; the first answer against pushed snapshots; creation of the window | - | safety |
| 11 | `JobCadence` | delays and backoff, Rust and Node | the contract's table | bounds of the delay |

## 3. Modules

### QuotaLedger

What the program promises about a provider's quota, whatever happens inside:
readings are taken in order (`Measure`), a start may recall what the file
holds (`Recall`) but never over something newer, what is saved was shown
(`Save`), a kill forgets the screen and keeps the file (`End`).

### EngineMonitor

| TLA+ | code |
|---|---|
| `phase` "top" / "select" | head of the loop in `start_monitor` / its `select!` |
| `phase` "flush", "exited" | after the loop, waiting for the writer / task ended |
| `show[p]` | `snapshot.providers[i]`: `status`, `quota` (the reading the windows come from, and the one `last_successful_at` comes from), `look` (status of the windows), `error`, `local`, `health` |
| `refreshing` | `snapshot.refreshing` |
| `received`, `cacheTask = "merged"` | `received_quota`, `cache_loaded` |
| `inFlight`, `queued`, `gen`, `failures`, `due` | fields of `Job`; `due` is the set of jobs with `due <= now` |
| `tasks` | the collectors in the `JoinSet` with their `(key, generation)` |
| `pending`, `saving`, `disk` | the writer's channel, its `spawn_blocking` save, the file |
| `taken`, `unread`, `missed` | history variables of the properties; no action reads `unread` or `missed`, and `taken` only numbers the readings |

`Schedule` is the whole head of the loop up to `select!`, and each branch of
`select!` is one action with everything it does before the loop starts over:
`Refresh`, `Stop`, `Tick`, `CacheMerge`, `EngineReady`, `EngineLost` and the
results `QuotaFresh`, `QuotaFailed`, `HealthResult`, `LocalResult`.
The code between two awaits cannot be interleaved with the coordinator's own
state, so an action is as large as the code between two awaits.  `CacheRead`,
`WriterTakes` and `WriterSaves` are the steps of the other tasks, `Crash` kills
the process at any point and `Launch` starts it on what is on disk.

What is abstracted, and why that loses nothing the properties speak of:

- *Time.*  A job's due instant is past or not (`TimerExpires`).  How long the
  delays are is not modelled; the model allows every delay.
- *Collectors.*  A collector reads nothing the coordinator writes, so its end
  and the handling of its result are one action.  The cache task is different
  (what it reads can be outdated when it is merged) and has two.
- *The channel of the writer* holds only its latest image: the writer drains
  the channel before each save, so older ones are never seen.
- *The snapshot's contents* are the number of the reading they come from.
- *Summaries of the checkpoint* and *results of collectors* are arbitrary.
- *The UI* (`DesktopShell`) receives the snapshot at each head of the loop and reads nothing
  else; the properties are about the snapshot itself.
- The test-only fixture mode is left out, and so is the second process: the
  port admits one owner at a time, which `InstanceProtocol` shows (`Launch` only
  from "off", "exited").

### NodeMonitor

| TLA+ | code |
|---|---|
| `phase`, `started` | the stages of `UsageMonitorCore.create`, `start` and `stop` |
| `show[p]`, `refreshing` | the store's `snapshot` (`usage/store.ts`) |
| `fetch[p]` "running" / "again" | an entry of the store's `inFlight`, `queued` or not, and the poller's operation |
| `gen`, `fetches` | the generations of a provider and the promises under way |
| `timer`, `checkTimer` | the timers of `poller.ts` and `vendorHealthPoller.ts` |
| `scan[p]`, `check[p]` | the running promise of `localUsageCoordinator.ts` / of the health poller, and its queued round |
| `summaries` | the background reading of checkpoint summaries in `create` |
| `writes`, `disk` | the promise chain of `snapshotCache.ts`, the file |

An action is one macrotask of the event loop with all the promise reactions it
settles.  This is why `fetch[p]` stands for two variables of the code: the
poller's operation and the store's entry are made in the same call and removed
in the reactions of the same promise, and no other macrotask can come between.
The IPC handler calls `core.refresh` synchronously, so a request is one action
too.  Delays are not modelled: a scheduled timer may fire at any moment.  Two
equal images next to each other in the chain of saves are kept as one, since
two saves of the same bytes end like one that fails or succeeds; the chain is
then finite.  The summary of the checkpoint is not awaited by anything, and may
be applied after the core was stopped; so may a health result.

The two programs differ in one respect the models show: a fetch that was
requested while another runs is started by Node also after a stop
(`FetchEnds`) and waited for, and dropped by Rust (`NoWorkAfterStop`).

### LocalScan

| TLA+ | code |
|---|---|
| `log[f]` | a JSONL file: its complete lines, an unfinished one at its end, and its `epoch` |
| `epoch` | what `identity` and the boundary hash tell apart: it changes when a file is replaced or rewritten |
| `index`, `disk`, `section` | the store's state, the index file, the clone a scan works on |
| `stat` | the metadata taken before a file is read |
| `failed`, `listed` | `failed` and `discovery_failed` of `scan` |
| `seen` | history: what the files held when the scan began |

A line is a cumulative count, or `Bad`: one that names token counts and cannot
be parsed, or is oversized.  Other lines do not count and are left out.  A line
is two bytes long and an unfinished one is one byte long, which is what the
comparison of sizes needs.  The file's time stamp is the choice `touched` (it
may change without the content) and always changes with the content.  A file is
rewritten between two scans of it, never between its `stat` and its reading;
appending in that window is modelled, and matters: see the finding below.  One
provider is modelled; the index file holds two, which share the validation.

**Finding** (`scan_grown_file`).  The contract says that a file that has grown
is read from its offset.  The scanner takes the size first and the offset at
the end of reading, so a file that grows in between is recorded with
`offset > size`.  That is harmless in memory, but the validator of the index
file refuses such a state as a whole: after the next launch every file is read
from the beginning.  The totals stay right (`IncrementalIsExact` holds), the
work is done twice.

### CodexClient

| TLA+ | code (`providers/codex/appServerClient.ts`, `provider.ts`) |
|---|---|
| `step` | what `fetchQuota` awaits: the answer to `initialize`, to `account/read`, to `account/rateLimits/read`, the close, or nothing |
| `known` | `readAccount` has returned an account |
| `transport`, `ready` | the fields of that name; `transport` is the process it belongs to |
| `via` | the process the pending request (`pending`) was written to |
| `closing` | the process `close` waits for, with its timer and exit waiter |
| `process[k]` | what the client did to the child process `k` (used, input closed, killed) and whether its exit was reported |
| `outcome` | what `fetchQuota` returned |

An action is a macrotask of the event loop (output, error or exit event, timer)
with the promise reactions it settles: a failed request makes `fetchQuota` go
on to its `finally`, and to `close`, before the next event.  Ids of requests
are unique, so an answer can only match the request that is pending.  A chunk
of output may hold an answer and, behind it, a line that is not JSON; the
answer settles the request and the garbage then fails the connection the next
request would use, which makes a client connect twice.  A client lives for one
collection; what remains of the processes of earlier clients touches nothing of
the next one, and is forgotten in `Begin`.  The app server is external: it
answers, refuses, prints garbage, exits or does none of these.

**Finding** (`codex_shutdown`).  `close` asks the process to end, and kills it
when it has not ended in time; a test says so.  The exit event of a process
that was killed because of garbage, however, clears `this.transport` without
asking whose exit it is.  When a second process is in use by then, the pending
request fails, and `close` finds no process: the second one is neither asked to
end nor killed.  It keeps its open stdin, and an app server that waits for
input lives as long as the monitor.

### InstanceProtocol

| TLA+ | code (`bin/main.rs`, `shell/instance.rs`) |
|---|---|
| `stage[p]` | how far `main` of a start has come: it holds the port ("bound", "starting", "running", "leaving", "closing") or asks who does ("blocked", "asking", "accepted", "refused") |
| `wants[p]` | the line it writes: `show` or `hidden` |
| `port`, `backlog`, `serving` | the listener, connections not accepted yet, the one the thread answers |
| `worker` | the thread of `InstanceServer` |
| `slot` | `sync_channel(1)` to the event loop |
| `reply[p]` | what the asking start can read |
| `owed` | history: an accepted request to show that is not carried out |

A start is used again and again: it ends, crashes and starts anew.  A
`Stranger` is anything else at the port: the Node program, an unrelated
listener, a client that sends nothing.  `Quit` ends the event loop and drops the
receiver; the port is kept until the monitor's task has ended (`CollectionEnds`,
which is `StopEnds` of `EngineMonitor`) and the thread has been joined
(`Release`).  The protocol's lines are abstracted to their meaning.  A start is
reused only when its old connection is gone, so that a connection is told apart
by the start that made it.

### DesktopShell

| TLA+ | code (`bin/main.rs`) |
|---|---|
| `pass` | what the 100 ms task looks at next; "wait" while it sleeps |
| `handle`, `windows` | `window_handle`, and the windows that exist |
| `pinned`, `dragging`, `opened`, `hidden`, `compact`, `measured` | fields of `AppState`: `opened_at` and `hidden_since` by the interval (grace, cooldown, rest) they lie in |
| `slot`, `click`, `menu` | the second start's request, the tray's events, the menu's events |
| `mark`, `pending` | the check mark of the login item, `startup_pending` |
| `setting`, `helper`, `result` | the setting itself, the helper's thread, its channel |
| `requested`, `refreshing`, `inbox` | `refresh_requested`, `refreshing`, the channel of snapshots |
| `command`, `busy` | the monitor: a command waits, collectors run |

One pass over the channels runs without a pause, in the order of the code;
`KeyDown`, `Blur`, `HeaderAction`, `Drag`, `WindowLost` and `Measure` are events of the
window and come between two passes.  The helper, the monitor and a second start
act at any time, and time passes at any time: the grace period of an opened
popover and the cooldown of a hidden one may end between the press of the tray
icon, its release and the pass that looks at it.  The demo mode, themes and
what is drawn are left out; `Mixes` says which kinds of input come together.

A limit of the code shows here.  Pressing the icon of an open popover takes its
focus and hides it; the release is then a click, ignored only if a pass looks at
it within 250 ms of the hiding (`main.rs:84`).  Nothing bounds how long a button
is held, so a press of that length opens the popover again.  The history variable
`lapsed` says that the cooldown has ended during the click, and
`ClickOnOpenCloses` speaks of the other clicks only.

### ClaudeProbe

| TLA+ | code (`providers/claude.rs`) |
|---|---|
| `unix` | the platform the program was built for |
| `stage` | `WinPtySession::open` / `openpty`, the loop of `probe_claude_quota`, its exit and clean-up, `fetch_quota` |
| `handles` | pipes, console, job, attribute list, process, `auth status` |
| `sent`, `seen`, `idle`, `late`, `changed` | `sent_usage`, `screen`, `idle_since`, the deadline, `revision` |
| `raw`, `closed`, `done`, `reader` | `ScreenCapture`, the flag and the thread that reads |
| `cli`, `pipe` | the CLI and what it printed that nobody has read |
| `result`, `answer` | the status of the probe, the code of the snapshot |

The probe, its reader, the CLI and the clock interleave.  A chunk of the screen
is the kind of what the code looks for in it, and a number that says when it was
printed, which the code does not see; `asked` is the newest chunk on the screen
for which the code typed the question.  Time passes while the loop sleeps.  The
two pipes of a Windows terminal, and the two calls that prepare its attribute
list, are one step each with one failure, since the clean-up is the same.  The
capture is not modelled after the loop, when nobody reads it.  Errors of
`try_wait` and a child of the CLI that keeps the terminal open are left out;
the latter would make the join of the reader wait.

A comment (`claude.rs:783`) says that text of the start must never be used as
the answer.  What the code ensures is less, and is what `UsageComesFromAnswer`
says: nothing up to the screen it has looked at is used.  A panel that the CLI
prints by itself after that screen, and that reaches the reader after the capture
was cleared, is taken for the answer.

### PopoverPlace, VendorHealth, CliSearch, ProviderAnswers, ClaudeScreen

Algorithms without a state, as operators that follow the code's order of
cases.  `Collections` says for each which inputs it may get, of every size, and
what it promises of them; `MCCollections` gives finite sets of inputs for TLC.
Only what the code compares is kept of a text: a directory is a name, a program
a directory, a name and an extension, a character one of four kinds.  Loops
that find or keep elements (`Iterator::find`, `filter`) are the operators of
`Sifting`, with the places that pass the test as a set.

- `PopoverPlace`: `shell/position.rs`, in whole logical pixels (f32 in the
  code): anchor, nearest edge, size, clamping, a place chosen by the user;
- `VendorHealth`: `core/vendor_health.rs`: page, components and incidents to one
  indicator, the failures of either source, the simulated outage;
- `CliSearch`: the search for a program in `providers/mod.rs` and `cli.rs`, the
  PATH it is given (the user's if a directory cannot be part of one), and the
  command line on Windows, of a program or of a batch file behind the command
  interpreter, against the rules by which Windows finds the program and the
  program splits its arguments;
- `ProviderAnswers`: the requests of `codex.rs`, each of which may fail to be
  written, and their answers line by line, its windows and those of
  `antigravity.rs`, and which of them the card (`ui/presentation.rs`) and the
  compact row (`ui/compact.rs`) show; a limit is known by the lower-case form of
  its key, as the code makes its ids of that form;
- `ClaudeScreen`: `parse_claude_usage_screen`: blocks, percentages, advertisements,
  redrawn panels, and the time of a reset on the clock of a host whose time zone
  shifts twice a year.

What the code does there, and the properties state as it is:

- The card of Codex leaves out the base windows that are not weekly, the reserve,
  and, when one limit stands in for the account and has two weekly windows, the
  second of them (`presentation.rs:50-53`); `LeftOut` names these slots, and the
  card shows every other one.  Limits whose keys differ only in case have one id,
  and the card shows the first.
- A time that the host's clock skips or repeats has no single instant, and the
  reset is lost (`claude.rs:1239-1248`).
- On Unix the search takes the first file also if it may not be executed
  (`mod.rs:155`), although `cli.rs:60-73` and its test pass such files over: a
  program behind it is not reached.
- Between the interpreter's name and its first switch the code puts no space
  (`claude.rs:444-445`), so Windows finds the interpreter only if its name is quoted,
  that is, if it holds a space.
- Of Google's incidents the first open one that is about its AI decides, not the
  worst.

## 4. Runs

| run | instance | question |
|---|---|---|
| `engine_two_providers` | 2 providers, their quota jobs, 2 readings each (1.1 M states up to the symmetry of the two providers, sound because the run checks safety only) | do quota readings survive races of two providers, late cache, failed and pending saves, stop, crash and restart; is `QuotaLedger` implemented |
| `engine_all_kinds` | 1 provider with quota, health and local jobs, 1 reading (1.6 M states) | does a result of one kind ever damage what another kind shows; do requests coalesce; is progress real |
| `engine_liveness` | 1 provider, its quota job, 2 readings (12 k states) | does a stop end the process, is every job run again, does a reading reach the file |
| `node_all_tasks` | 1 provider, fetches, scans, health requests (86 k states) | does polling ever break off; is progress real; does a late summary yield to a scan; does a stop end and save; is `QuotaLedger` implemented by Node too |
| `scan_logs` | 2 logs of 2 lines, good or bad, replaced and removed (0.9 M states) | is what a checkpoint says what a scan from scratch would say, over appends, rewrites, failures and restarts; has a complete scan missed a line; does an incomplete one forget a file |
| `scan_grown_file` | 1 log (violation) | the contract on grown files, see above |
| `codex_collections` | 3 processes of one client (191 states) | does a request wait for the process it was written to only; are two processes ever open; does a collection end although the server hangs |
| `codex_shutdown` | the same (violation) | is a process that does not end always killed, see above |
| `instance_protocol` | 3 starts and a stranger | is there one owner, also during an exit; is an accepted request carried out; do starts and exits end although a client is silent |
| `desktop_shell` | 2 window identities, 2 menu clicks that wait | is there one popover; does a click on an open one close it, unless the cooldown ends first; does the check mark tell the setting; does the mark of a refresh go out |
| `claude_probe` | both platforms, 4 printed chunks, a capture of 3 (0.6 M states) | does a read end with nothing left; do windows come from what was printed after the screen that was asked on; is a quota fresh only if the CLI left by itself |
| `collections` | every input of the sets in `MCCollections` (0.7 M) | do the algorithms keep their promises |

Deadlock is checked in all of them; `DesktopShell` and `ClaudeProbe` have an
explicit step of rest once the program or the read has ended, and `collections`
checks inputs, not behaviours.

Bounds: `MaxReading` limits successful readings over all runs of the process
(failures, restarts and commands are not limited), and two are what "older" and
"newer" need.  `GenMod` 2 makes generations wrap at once, which is harsher than
2^64.  `MaxFailures` 1 (4 in the code) suffices for a counter of which the
model distinguishes zero, below the top and at the top only in `CountFailure`.
Two providers are needed for "one provider's save erases the other's file
entry"; a third adds no new relation, as no property relates more than two.
The theorems hold for every value of all of them.

In `scan_logs`, two lines and a tail are a checkpoint before, at and after any
line; one count suffices because a repeated count adds nothing only if the last
one was carried over with the checkpoint; epoch 2 is a file that replaces one
that was scanned.  The constraint `SomeWork` leaves out states with more than three
lines in all, and those in which a log is rewritten while the other one has
existed; the logs share only the set of failures and the totals, and the
theorems have no such bound.

Three starts in `instance_protocol` are an owner, one that is answered and one
that waits behind it, or an owner that leaves, its successor and a third.  In
`desktop_shell` the popover and all that opens and closes it, the login setting,
and refreshes are checked in behaviours of their own (`MCMixes`): they share no
variable but the menu's queue; the theorems hold for every mix.  Two window
identities are an old window and a new one.  In `claude_probe` a capture of
three chunks of four overflows; one phrase of a failure stands for all, as the
code treats them alike but for their order.

In `collections`, inputs are chosen at and around each boundary of the code:
work areas with negative origins and smaller than the popover, coordinates that
are not finite, pages with none, one and two components, two directories of two
files each in every state, overrides with and without a directory, arguments of
quotes, backslashes and blanks up to five letters, up to four lines of Codex's
answers in any order and a failure of each request, limits with two windows of
any kind and with one id, up to four lines of Claude's screen and redrawn panels
of up to six, clock times around noon, midnight, the turn of the year and the
shifts of five time zones.  Not among them: a leap day, and dates there are not.
That the compact row agrees with the card is asked of Codex and Claude;
Antigravity's compact row takes the first five-hour window of the answer, which
may be another group's than the card's.

Fairness of `EngineMonitor` (`FairSpec`), only in the liveness run: the head of the loop and the
writer are weakly fair (tokio does not starve a ready task); collectors, the
engine's construction and the cache task end, each having its own timeout or
being finite; `select!` picks among its ready branches at random, so a branch
that is ready again and again is eventually taken (strong fairness per
branch); time passes (`TimerExpires`).  Not assumed: that a save succeeds, that
a collector succeeds, that anyone requests, stops, starts or kills anything.

Fairness of `NodeMonitor`: the event loop serves
every settled promise and expired timer, and fetches (15 s and less), scans,
health requests and file operations end.  Weak fairness suffices, since nothing
but their own action, a stop or the end of the process disables them.

`CodexClient` needs two processes for everything it says, since a client
connects again at most once; the third shows that it never asks for one.  Its
fairness (`codex_collections`) is that of the client's own two timers.  Nothing
is assumed of the app server, neither that it answers nor that it ends.

Fairness of `InstanceProtocol`: the threads and the event loop run, the
collection ends (`StopEnds`), both ends of a connection have a deadline.  The
server's own flag is seen once it is set.  Nobody has to quit, start or connect,
and strangers may stay silent for ever.

Fairness of `ClaudeProbe`: the probe and its reader run, and the deadline passes.
The CLI may hang, print or end as it likes.

## 5. Proofs

Every theorem holds for all values of the constants under their named
assumptions, which say that constants have their kinds and model values differ
(`ConstantsOK`, `NamesDiffer`, `NotScannedOK`, `PhrasesAreReasons`,
`CaptureNotEmpty`, and in `Collections` `HereIsNoDirectory`, `NotNumbers`,
`NoNumbers`, `NoValues`) or that the inputs looked at are among those the code may
get (`CasesOK`).

`EngineMonitorProofs`, for all providers, jobs and bounds:

| theorem | states |
|---|---|
| `TypeCorrect` | `[]TypeOK` |
| `QuotaSafe` | `[]QuotasInOrder`: `NewestReadingShown`, `QuotaMatchesItsTime`, `CacheSurvivesTheStart`, `ImagesInOrder` |
| `FileSafe` | `FileNeverGoesBack` |
| `ImplementsLedger` | the monitor implements `QuotaLedger` |
| `JobsSafe`, `StopIsFinal` | `[]OneTaskPerJob`, `NoWorkAfterStop` |
| `ProgressSafe`, `ErrorsSafe`, `ExitSafe` | `[]ProgressIsReal`, `[]ErrorTellsLastFailure`, `[]OrderlyExitIsSaved` |
| `ShownSafe` | `ShownNeverGoesBack` |
| `RequestsSafe` | `RequestsCoalesce` |

The argument.  The four quota invariants are inductive only together
(`DataInv`): that the merge does not go back needs that the cache holds nothing
newer than the file did when the writer was still idle
(`CacheSurvivesTheStart`), that the file does not go back needs the chain
file <= saving <= pending <= screen (`ImagesInOrder`), and the chain needs that
a failure keeps the reading (`QuotaMatchesItsTime`, which is what tells a kept
reading from none).  `FileNeverGoesBack` is then one step of the chain.  The
refinement needs one fact more, `ReadInv`: what has been read from the file is
what `QuotaLedger` says may be recalled.  `ExitSafe` rests on
`LastImageUnderWay`: from `Leave` on, the newest image is pending, being saved,
or in the file unless its save failed.  `ShownSafe` needs that neither totals nor
health are shown before the engine is there (`NothingWithoutEngine`), since the
checkpoint's summaries would replace them; `RequestsSafe` that no collector runs
outside the loop (`NoneOutsideLoop`), so that a queued request cannot outlive its
job but by a stop or a kill.

`NodeMonitorProofs`, the same promises of the Node monitor:

| theorem | states |
|---|---|
| `TypeCorrect` | `[]TypeOK` |
| `QuotaSafe` | `[]QuotaMatchesItsTime` |
| `ImplementsLedger` | the Node monitor implements `QuotaLedger` |
| `PollingSafe`, `ProgressSafe` | `[]PollingGoesOn`, `[]ProgressIsReal` |
| `ExitSafe` | `[]OrderlyExitIsSaved` |
| `TotalsSafe` | `SummaryYieldsToScan` |

The argument.  `StepKinds` sorts the steps by what they do to quotas; most of
them change none and at most ask for a save.  `InOrder` then says what the
order of saves rests on: in the chain of saves every image is at most as new as
the next one, none is newer than the screen, and the file is not newer than the
first unless this run could not read it.  The refinement is one step of that
chain.  `PollInv` adds to the two properties on polling that nothing is polled
before the start and nothing runs before the core exists.  `ExitInv` says that
a stop leaves no timer and that, from the final save on, the last image of the
chain is what is shown, which needs that nothing but a late summary (no part of
an image) comes after `Quiet`; that in turn rests on `PollInv`, by which a
fetch that has no entry does not exist.  `TotalsSafe` needs that no totals are
shown before the store exists.

`LocalScanProofs`, for any finite set of logs, any number and length of lines:
`TypeCorrect`, `ExactSafe` (`[]IncrementalIsExact`), `NothingForgotten`
(`NothingIsForgotten`) and `CompleteScanSafe` (`CompleteScanMissesNothing`).  The
parser and the total are recursive functions; what they compute is proved by a
least counterexample (`Smallest`, from the well-foundedness of the naturals).
`ResumeIsExact` is the heart: reading on from what a scan from scratch has of
the first lines gives what it has of all lines.  The inductive invariant `IInv`
says of each checkpoint, in memory, in the file and of the scan under way, that
it is `Sound` (of no later epoch, its size at most a byte beyond its offset,
exact while the epoch is the log's), and of a scan under way what it has kept
of earlier scans (`KeptSound`) and done of what it saw when it began
(`SeenSound`).  That an unchanged size means that no line was missed needs the
size to be below the next line's end, which is what the first of these says.

`CodexClientProofs` proves, for every set of processes, `[]TypeOK` and
`ProcessesSafe` (`[]HoldsItsProcess`).  The argument: as
long as a request is awaited, the only process the client has not told to end
is the one the request was written to, and whoever takes that process out of
use also fails the request.

`InstanceProtocolProofs`: `[]TypeOK`, `OwnerSafe` (`[]OneOwner`) and `PromisesSafe`
(`[]PromiseIsQueued`, the safety behind `AcceptedShowIsServed`: what was promised waits where a loop will find it), for any number
of starts.  Whoever works on the files holds the port, and the port is given up
only by a step that ends that work; a promise and the request in the channel
are made in one step, and dropped in one.

`DesktopShellProofs`: `[]TypeOK`, `PopoverSafe`, `ClickSafe`, `MarkSafe` and
`ShimmerSafe`, for any windows and mixes of inputs.  `ClickSafe` needs that after
the button went down on an open popover either the handle still names it, or
the cooldown runs, or it has ended and `lapsed` says so; `MarkSafe` that the mark, the helper's order and its answer
agree at every stage of a change.

`CollectionsProofs`, for every input of the sets `Collections` describes, whatever
its length:

| theorem | states |
|---|---|
| `PopoverSafe` | `[]PopoverOnScreen`; `SizeFits`, `PlacedInside`, `ChosenPlaceKept` and `HangsOnNearestEdge` are its parts |
| `WorstSafe` | `[]WorstSignalShown` |
| `ProgramSafe` | `[]RightProgramIsStarted` |
| `AnswersSafe` | `[]AnswersAreSound` |

A case never changes (`CaseStays`), so each theorem is one about an algorithm.
Loops are recursive functions over the indices of a sequence.  Such a function
exists (`FoldExists`) and what holds at an index if it holds before holds at all
(`IndexInduction`, from the well-foundedness of the naturals); the library's
induction needs an operator as parameter and is not used.

- *Status.*  `First` is what finding an element gives; the loop over components
  keeps the worst signal seen so far.
- *Search.*  `IsFirst` orders places by directory, then extension; `SearchDecides`
  follows a name through both searches, and `PathOfCommand` what is appended to
  the PATH (`Continues`).  That an argument survives the Windows command line is an
  automaton's run: `Reading` is its state, `Flushed` what it has read of the
  argument, and each letter written takes it on by that letter, with the
  backslashes still open counted.  `InterpreterIsNamed` compares what Windows takes
  for the name of the command interpreter with that name.
- *Answers of Codex.*  `SessionInTurn` reduces the conversation to three answers in
  turn and no request that failed.  `Picks` says that `Sift` keeps exactly the elements
  at the places, in their order.  `Assembled` is the invariant of the loop over the
  limits: each slot seen so far that is there has one fresh window, and its kind is
  the one `KindAt` says, for which `AccountIs` shows that the code's search for a fresh
  weekly window finds the limit `AccountLimit` names.  Choosing the first two windows
  only moves windows (`IsSelection`), so each slot still has one (`SelectionIs`), and the
  first week of the account comes first.  `OnTheCard` and `RestShown` then compare what
  the card shows with `LeftOut`; this is where limits need ids of their own
  (`IdAtDiffers`).
- *Other cards.*  `CardIs` is common to the three providers: a card never shows an id
  twice, and if nothing is filtered it leaves none out (`OnCard`, `AllOnCard`).
- *Claude.*  `Kept` is what merging the blocks keeps of a scope: its last block with a
  reset, or its last.
- *Times.*  Subtracting either offset of the host's zone from what the clock shows
  gives the only two instants that may show it.  `WallsApart` and `TomorrowAhead` compare
  clocks a day or a year apart: the shift is less than a day and does not change twice
  within its own length (`Zone`), so a time read for the next day or year is ahead.
  `ResetLost` says when there is no single instant.

What these theorems assume of the inputs is in `Collections`: a work area is not
empty; a date is one of a year without a leap day; a zone shifts its clock by a day
at most and not again before as long; the command interpreter's name has no quote
and does not end like a directory's.  Nothing is assumed of limits, files, screens
and lines.

`ClaudeProbeProofs`: `CleanSafe` (a read that has returned leaves nothing behind,
the safety half of `ProbeEndsClean`), `FreshSafe` and `UsageSafe`, for any phrases
and bounds.  The invariants say which handles exist at each stage, and that every
chunk captured after the question has a higher number than those the code looked
at before it (`asked`): chunks are numbered as they are printed, the reader takes
them in that order, and the capture was cleared after the look.

Only model-checked: the liveness properties `StopEnds`, `JobsRunAgain`,
`FetchedAgain`, `ReadingReachesTheFile`, `CollectionEnds`, `AcceptedShowIsServed`,
`StartsAndExitsEnd` and `ProbeEndsClean`, as fairness and ENABLED are out of the
prover's reach.  The safety behind `AcceptedShowIsServed` and `ProbeEndsClean` is
proved (`PromisesSafe`, `CleanSafe`).  Every invariant and action property of the
passing runs has a theorem.

## 6. Not modelled

See "components" in `PROJECT.json`.  Left out are drawing, animation and
wording, platform calls of the shell (registry, launch agents, tray), the
demo mode, leap days and dates there are not, the lexing of lines and JSON, installers and build scripts: they are
sequential, and their tests reach them.  The lengths of delays between jobs are
abstracted away in both monitors.  Of the Node program, the providers of Claude
and Antigravity, the main process and the renderer are not modelled; their
races are listed as hazards without a property, and the plan names the modules
they would get.  Node's scanners and its health fetcher do what `LocalScan` and
`VendorHealth` model of the Rust program and are not modelled a second time.
The cadence of collection, a change of a root directory during a scan, the
merging of Claude's messages by id and sums beyond the width of an integer are
not modelled in `LocalScan`.
