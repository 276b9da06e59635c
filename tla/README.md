# Codex Web harness: specifications, checks and proofs

This directory holds TLA+ specifications of the Codex Web harness, the TLC configurations that
model-check them on small instances, and theorems that TLAPS checks for every instance. Paths
below are relative to the repository; `chatgpt-web/` stands for `src/adapters/chatgpt-web/` and
`electron/` for `launcher/electron/`.

Run them here:

    tlc -workers 2 -config MCTurnBroker_broker.cfg MCTurnBroker.tla     # any MC*_*.cfg
    tlapm TurnBrokerProofs.tla              # and the other *Proofs.tla

## 1. The system

Codex sends a model request to a **daemon** on the loopback interface (`src/server.ts`,
`src/bridge.ts`). The **adapter** (`chatgpt-web/index.ts`) answers it from a ChatGPT browser tab
instead of an API. The tab belongs to the Electron **launcher** (`launcher/electron`), and the
adapter's **browser worker** drives it in a helper process. When the web model wants a native
tool it calls a ChatGPT connector, which reaches an **MCP server** process through a tunnel. The
MCP server forwards each call over a Unix socket to the **turn broker** in the daemon, and the
adapter hands it to Codex as a tool call of the response it is streaming. Codex runs the tool and
sends the result in its next request, and the answer travels back the same way. In Zero Risk mode a
human pastes and sends the prompt in place of the worker. The launcher also supervises the daemon
and the tunnel, routes Codex to the daemon by editing Codex's files, and updates itself.

One browser response therefore spans several Codex requests (*rounds*), several MCP requests
(*activities*), four processes and two clocks. No component sees all of it. The questions
below are about that.

### Components

| Component | State | Operations | Hard part |
|---|---|---|---|
| Turn broker (`turn-broker.ts`) | channels by token: activities and tombstones, queued/delivered calls, waiting polls, batching timer, compaction flag, fence revision, Zero Risk control | register, claim, invoke, complete, poll, request compaction, fence, start/sent/answer, revoke, prune, close | messages of one request overtake each other; waits resumed after retirement; redelivery |
| MCP server (`mcp-server.ts`, `mcp-call-lifecycle.ts`) | one handler per MCP request | claim, act, invoke, settle twice, release | lost replies, late requests, failing cleanup |
| Completion fence (`browser-worker.ts`) | last revision, DOM read | read, begin fence, commit, capture text boundary | text is read before the fence is begun |
| Browser turns (`browser-worker.ts`) | the page, the composer, the binding of the answer, grace windows, rebinds | attach, choose the connector, send, bind, observe, complete, clean up | the page misbehaves between any two awaits; the turn is aborted at any of them |
| Rounds (`index.ts`, `turn-progress.ts`) | line of observers, journal, progress counters | arm poll, record batch, dispatch, deliver result, replay, disconnect, fail | a client drops between delivery and journal |
| Session registry (`turn-execution.ts`) | entries, conversation heads, pending retirements by key, owner and conversation | get or create after owner retirement, steer, retire, cancel, close conversation, prune | every operation may run while a request waits |
| Structured compaction (`compaction-handoff.ts`) | runs by key, gates by owner, failures, interruptions | run once, cancel, wait | deadline against physical settlement |
| Compaction transactions (`compaction-transaction.ts`) | one-shot tokens | begin, submit, wait, abort, expire | submission against deadline and waiter |
| Attempts (`retry-policy.ts`, `goal-stall.ts`, `adapter-error.ts`) | bounded tables by turn and thread | record, test, clear | what may have worked must not be sent again; expiry between attempts |
| Environments (`thread-environment.ts`, `codex-rollout-environment.ts`) | last authority of a thread, its file | resolve, set, inherit, persist, expire | the authority of a turn is not in every request |
| Daemon (`server.ts`, `bridge.ts`, `event-queue.ts`, `responses/state.ts`) | open requests, drain flag, event queues, remembered responses | serve, cancel, interrupt, drain, shut down | reconnects, a full queue, shutdown against open turns |
| Helper (`launcher-helper-client.ts`, `browser-helper-main.ts`) | helper child, pending turns, frames in the pipes | spawn, run, lease the prompt, activate Send, abort, close | crashes and retries share a trace id |
| Browser host (`electron/browser-host.cjs`) | tabs, leases, retained and suspended tabs, signals of turns by hand | begin, end, heartbeat, close, sweep, sleep | releasing against leasing; lost answers |
| Launcher runtime (`electron/runtime-supervisor.cjs`, `runtime.cjs`) | child, tunnel handle, ownership file, restart history | start, stop, force, drain, adopt, recover | two processes crash under several tasks |
| Codex integration (`codex-integration*.ts`) | journal, recovery copy, configuration, model cache | connect, disconnect, set up, uninstall, repair | a crash or failed write between two files |
| Updates (`electron/update.cjs`, `update-worker.cjs`) | the update's status, detached workers, the installed application | check, download, quit, replace, relaunch | the worker outlives its launcher |
| Setup, CLI, service | order of writes | set up, remove | rollback |
| Dev chat, login, rendering, user interface | none of interest | | presentation |

### What makes each of them correct

* **Broker.** A call is answered once and is at every moment in one place (queue, delivered,
  answered). A request that ended never counts as active again. A turn that was closed gets no
  more work. Retirement lets go of every wait. Compaction answers exactly the calls it interrupts.
* **MCP server and fence.** A handler acts only under a lease the broker counts; a failed call never
  surfaces later. The observer closes a turn only on a page it read after the last tool activity.
* **Browser turns.** The message is whole and sent once, with the connector it was checked with. The
  answer read is the turn's own and complete. Every way out gives back the tab, the prompt and the connection.
* **Rounds.** What Codex owes a result for is held by the broker and keeps the tab open; a round is
  executed once and replayed afterwards; no call is stranded by a dropped connection.
* **Attempts and environments.** Nothing that may have worked is sent again, and failures are
  answered with a bounded number of retries. A turn runs with the authority Codex has for it.
* **Registry.** One live surface per native thread, no cycle of waits, no answer from superseded
  work, tables that agree.
* **Compaction.** At most one browser handoff per owner, at most one retry, a shared result, no lost
  final answer; a checkpoint is accepted and read once.
* **Daemon.** A response ends with exactly one terminal event and is complete when it says so; a stop is heard
  however it crosses the request it stops; remembered responses survive a shutdown.
* **Helper.** One prompt is sent at most once; an abort before Send prevents it; prompts are released.
* **Browser host.** A tab belongs to one live turn; what nobody holds is taken back; a human's "Sent" that
  came in time is not answered with a timeout.
* **Supervisor.** A stop runs alone and keeps the drain it asked for; what runs is recorded for the next
  launcher; a degraded runtime is tried again.
* **Integration, setup and updates.** What the user had of the managed lines is never lost; the files
  agree at rest; a failed command leaves at most its first part, a failed setup of the launcher nothing. A whole application is there, and a launcher comes back.

`PROJECT.json` lists the hazards behind these sentences, each at its line.

## 2. Modules

| Module | Models | Composes |
|---|---|---|
| `TurnBroker` | the broker: everything a socket message, in-process call or timer does to a channel | |
| `TurnCompletion` | MCP handlers, lossy broker requests, observer and fence, owner | EXTENDS `TurnBroker` |
| `FencePromise` | the abstract promise of the fence | implemented by `TurnCompletion` |
| `TurnRound` | Codex requests, journal, progress, observer's text boundary | EXTENDS `TurnBroker` |
| `TurnAttempts` | failures of browser turns: retry budget, safe resend, goal stall | |
| `ThreadEnvironments` | the authority of threads, kept in memory and in a file | |
| `TurnSessions` | session registry, requests that wait, browsers that are released late | |
| `StructuredCompaction` | shared compaction runs, one run from gate to settlement, its source session | |
| `CompactionTransaction` | the store of one-shot checkpoint tokens | |
| `OneShot` | what that store promises | implemented by `CompactionTransaction` |
| `PromptComposer` | attaching a message to ChatGPT's composer, with its undoing | |
| `BrowserTurn` | one turn of the browser worker against a page | EXTENDS `PromptComposer` |
| `BrowserHelper` | daemon's helper client, pipes, helper processes, launcher's tab | |
| `BrowserTabs` | automatic tabs of the browser host and the turns that lease them | |
| `ManualTurns` | Zero Risk tabs of the host and `runManual` | |
| `ResponsesDaemon` | HTTP requests, event queue, bridge, journal, drain, remembered responses | |
| `RuntimeSupervisor` | the supervisor's tasks against daemon, tunnel and launcher crashes | |
| `CodexIntegration` | commands over Codex's files and the two journals | |
| `LauncherSetup` | the launcher's setup and removal with rollback | EXTENDS `CodexIntegration` |
| `Updater` | the update controller and its detached workers | |
| `TurnBrokerProofs` | theorems | EXTENDS `TurnBroker` |
| `BrowserProofs` | theorems | EXTENDS `BrowserHelper`, `BrowserTurn` |
| `DaemonProofs` | theorems | EXTENDS `TurnSessions`, `ResponsesDaemon` |
| `AdapterProofs` | theorems | EXTENDS `StructuredCompaction`, `CompactionTransaction`, `TurnAttempts`, `ThreadEnvironments` |
| `HostProofs` | theorems | EXTENDS `BrowserTabs`, `ManualTurns` |
| `LauncherProofs` | theorems | EXTENDS `RuntimeSupervisor`, `Updater` |
| `SetupProofs` | theorems | EXTENDS `LauncherSetup` |
| `TurnProofs` | theorems | EXTENDS `MCTurnCompletion`, `TurnRound`, `TurnBrokerProofs` |
| `MC...` | instances for TLC | |

`TurnCompletion` and `TurnRound` reuse the broker's actions as they are and put the clients around
them, so a defect of the broker shows in the composed runs too. An MC module that has
components which share no state (`MCTurnRound`: rounds, attempts, environments; `MCCompactions`:
runs, store; `MCLauncherHost`: automatic, by hand; `MCLauncherSetup`: setup, updates) chooses one of
them in its initial state and runs that one alone: their product would show nothing more.

**Mutants.** A definition under the comment `mutant` is a plausible defect of the one below it. It
is not used by any specification. `PROJECT.json` pairs it with the property that finds it: with the
defect in place TLC reports that property violated.

### `TurnBroker`

One action per `case` of `dispatch`, per method the adapter calls, and per timer callback. The
event loop makes everything between two awaits atomic, so each action is a whole handler. Where a
handler awaits (`waitForSafeSent`, `waitForSafeStart`, a poll's promise) the model has a state
("held", "resumed") and a second action that repeats the checks the code repeats.
`prune()` runs first in every message, hence the guard `Swept`: while a turn is overdue only
`Prune` may run. A deadline is "none", "ahead" or "passed". `activityRevision` is the code's counter;
it is bounded by the number of MCP requests, since each starts and ends once.

Abstractions: environments and tools are left out; an invoke's arguments are its identity; the
retired handles kept for error messages, connector binding, external owners and the bytes of the
socket are left out; the binding id is the turn. What is observed of a call's answer is its kind
(`outcome`): a result, the compaction result or an error.

### `TurnCompletion` and `FencePromise`

An MCP handler is "claiming", "acting", "awaiting" a tool, "settling", "done" or "stuck" (both
settle attempts failed). The network holds broker requests that were sent: the broker may take one
late, after its sender gave up, or never; requests of one handler travel on connections of their
own and overtake each other. The observer reads the page, begins the fence if the page looks
finished, reads again, and commits. `domFresh` is a history variable: no claim or settlement was
taken since the observer's last read.
`FencePromise` says what this machinery is for: a set of active requests, a page that is fresh or
not, and a turn that closes only when nothing is active and the page is fresh. `PromiseKept` is the
refinement, `activities`, `domFresh` and `completionCommitted` being its mapping.

### `TurnRound`

An observer is one HTTP request; `runExclusive` keeps them in `line`. The head of the line goes
through `stage`: "results" (deliver what the request brings), "polling" (poll and browser race),
"boundary" (a batch is recorded, its text not captured). `batch` is what the broker handed out and
the journal does not have yet, the window in which a disconnect matters. A disconnect aborts the
poll, an ended round is replayed from its journal. `CaptureBoundary` is the observer's side of the
progress.
Abstractions: text and trace deltas, and the mode that decides whether a request has tools; abort
and retire of a failing round happen in one step; in the model a retired session's failed round is
replayed, whereas the code starts a fresh session for such a reconnect.

### `TurnAttempts`

The request handling of `runTurn` and `startRuntime` around one thread whose native turns follow
each other. `execution` is the session of the turn with the phase of its send, `budget` the entry of
`retry-policy.ts`, `stall` that of `goal-stall.ts`. Errors are grouped as `adapter-error.ts` groups
them: retryable ones, the adapter's own that are not, and anything else. `told` is history: what
happened to the turn so far, which the properties need to say "may have worked".
Abstractions: the half hour after which entries expire is one event that ages everything; Zero Risk
turns are not sent again by anybody and are left out; an answer is "with tools" or "without".

### `ThreadEnvironments`

`codex` is the authority Codex has for the current turn of each thread; a request shows one of
`Contexts`, and a rollout file proves the authority, knows nothing or is refused. `Request` tries them
in the code's order. `kept` is the store in the order of writing, as a Map has it, `file` what it last wrote, an `age` is
"minute" (the refresh interval of an unchanged entry), "older" or "month" (the expiry). Parsing of
contexts and rollouts is left to its outcome. Both sequences have the oldest first and a thread once (`OldestFirst`),
so what a load drops, which the code filters and sorts, is a prefix (`NotExpired`).

### `TurnSessions`

A key is an execution key (one instruction of one native turn); its thread, turn, conversation and
the instructions it proves to be older are constants, since they are functions of the request.
A session's browser is released later than it is told to stop: `Release` is that release with the
continuations that run in the same microtask drain (a retirement's entry is forgotten, waiting
requests look again). A request loops in `Look`, as `getOrCreateAfterOwnerRetirement` does.
Abstractions: `Map` order is a choice; "older than the time to live" is the set `stale`, which a
request of the session's key clears; limits are constants.

### `StructuredCompaction`

A run's `stage` is the `await` at which `index.ts` stands: "gated" (predecessor), "sourcing" (the
conversation's retirement), "settling" (the active response), "handoff" and "accepted", "fallback",
"closing", "cleanup" (the catch block), then "ok" or "thrown", and "settled" when the owner's
gate opens. `Due` marks what runs in the same microtask drain as the abort or settlement before it;
every other action waits for `Drained`. A cancelled or expired run leaves by `Stop` wherever it
waits through `withAbort`; "cleanup" is not there since the catch block waits without a signal.
`lost` records a run that closed its conversation over an ordinary final response.
Abstractions: a thread has one retained conversation with one session, whose rounds are those of
`TurnRound`; the re-armed deadline may fire at any time; a request that shares a run changes nothing.
`Catch` tests `holding` since `source.conversationKey()` is undefined once the source was detached.

### `CompactionTransaction` and `OneShot`

One action per method and callback. A submission and a wait are single calls. The broker, its socket
and the web model decide nothing here, so their calls come in any order. `OneShot` sees a cell per
token ("new", "empty", "full", "taken", "gone"); a full cell can only be read, or disowned by `abort` or
`close`.

### `PromptComposer` and `BrowserTurn`

`PromptComposer` is a little machine over the composer, the personalization control and the connector
list: `step` is the await at which the attachment stands, `Catch` sends a throw to the handler the
nearest `try` has for it, and what was begun (a mention typed, a toggle flipped, a menu opened) is undone
by the actions the code's `finally` and `catch` blocks become. `BrowserTurn` puts it into
`runBrowserTurn`: `at` is where that function stands, and the page moves between any two of its steps.
`Looks`, `Reads` and `Judges` are the three awaits of one turn of the observation loop: what it saw
(`seen`) may be stale when it judges. `waits` are the grace windows, open or not; `Judges(TRUE)` is a
judgement after the open windows elapsed.
Abstractions: text is its length up to `MaxText`; a page's mishaps (the node is replaced, ids change, a
foreign message comes, the page hangs or closes) are limited by `config.mishaps`; pages that do not list the
connector or are not personalized come without further mishaps; effort is selected for every part; a
reused conversation has a trusted connector; heartbeats, diagnostics, Markdown buffering and the
text of Luna's checkpoints are left out.

### `BrowserHelper`

`input` and `output` are the pipes of each helper, `run`, `settlement` and `phase` the client's view, `worker`,
`stopped` and `verdict` the helper's. A run is one call of the client; a retry is another run with the
same trace id, and the two sides know a turn by its trace id only. A helper that dies leaves what it
wrote in its output. `early` is history: the abort came while the client still believed "prepared".
Left out: progress, trace and text frames, the transport of the fence (in `TurnCompletion`), stages of
a Bigger Context, maintenance and the limit of active runs, frames with invalid data.

### `BrowserTabs` and `ManualTurns`

`BrowserTabs` has the host's tab table, the descriptor it publishes and the power-save blocker, and
one worker per trace that starts, heartbeats and ends its lease over the control channel. A request is
handled when it is sent, unless it is lost or late: a start whose sender gave up stays `starting`, an end whose
sender gave up is `lateEnd`. `late` of a tab is the clock that decides over it, and `older` its place in the
host's Map: `beginTurn`, `heartbeatTurn` and `endTurn` take the first tab of a trace, whatever its state (`First`), and a start
continues in that one if it runs, otherwise in the one its conversation was retained in (`Candidates`). `erred` is history:
the traces of which a tab has failed since they last had none. `ManualTurns` is the
Zero Risk side: the human's Sent, the two kinds of long polls, the deadline, the signals the host keeps
for a trace whose tab is gone, and `runManual`, whose requests are repeated once when an answer is lost.
Left out: layout, zoom, navigation policy, authentication probes, login; signal tables are large enough.

### `ResponsesDaemon`

Each request is one post of the same round: `http` is its exchange, `adapter` the run
behind it, `pipe` the bounded event queue with the bridge that drains it into frames, and `sessions` the
browser sessions with the journal that replays to a reconnect. One step is one callback with the continuations it wakes
(`Feed` hands events to a waiting pull, `PipesBecome` remembers the responses that the step completes). `stored`,
`unsaved` and `snapshot` are `responses/state.ts`. A shutdown is acknowledged first and carried out by a timer, a resume may overtake it.
Left out: heartbeats, the tee of Windows, native passthrough, external owners, bounds by bytes and
age, detached compaction, automatic retries, admin authentication.

### `RuntimeSupervisor`

`pc` has the await at which each task stands: one start, one stop, one forced stop, and recoveries.
`DaemonWork`, `TunnelWork` and `StopWork` are the steps that tasks share because the code shares the
functions. `child` is what the supervisor holds, `daemon` what serves the port: they differ after an
adoption and before an exit event is handled. `file` is the ownership file; the launcher may crash between
any two steps and starts again from it.
Left out: the DEV profile, version mismatches and `needs-setup`, failing writes of the file, reused
process ids, the passing of the restart window, a child that does not stop when it is killed.

### `CodexIntegration` and `LauncherSetup`

A command of the CLI reads the files, plans its batches of writes, and makes them one by one; `job` is
that process: `before` are the files its compensation restores, `found` those its own writes began with. `WriteFails` starts
the compensation, `Dies` may come between any two writes. A batch is undone newest first. Only a change of protocol
(`Guarded`) has a second pass around both its batches, which restores the recovery copy, the primary copy, the cache, the
configuration and the saved configuration in that order; it is the only pass when the saved configuration
could not be written. A setup and an uninstallation have nothing around theirs, so their first batch stays (`FirstPartAtMost`). Of the
configuration, the model keeps the managed lines. `own` is history: what the user has of them, from
which `OwnIsKept` says what a restoration must produce. It makes one exception, which the bounds of the run
do not reach (five edits and a death do): a user whose own realtime line was the very one that is installed
(`ambiguous`) disconnects, edits it, replaces the route by a setup that dies between two writes, and edits
the configuration until the old inactive journal describes it again; the line is then the one the journal
took for his. Nothing in the files tells the two histories apart. And it claims nothing after an undo that failed or a death
that left a split (`Split`, `Unharmed`; section 5). `LauncherSetup` runs these commands as
transactions of the launcher: `tx` is the operation with the files it remembered and where it stands.
Left out: edits and typed commands in the middle of a launcher operation, Codex reading its models while
a checkpoint is restored, two commands at once, a child that survives its forced end, journals before
version 10, corrupt files, symbolic links, profiles, terminal-managed runtimes, tunnel files; the
feature lines are taken as one.

### `Updater`

An application is its version; `target` is what a start of the launcher would run. The launcher's
controller checks, downloads, spawns a worker and asks itself to quit in one turn of the event loop; a refused
quit kills the worker. Workers go through the steps of their platform, and each step may fail or be the
last. `torn` and `missed` are history: an application was lost by a mishap or by two workers at once, and
a worker died or gave up waiting since the last start.

## 3. Runs

| Run | Shows | States |
|---|---|---|
| `broker` | a native or Zero Risk turn: accounting, tombstones, closing, authorisation, nobody left waiting; calls are offered and held claims answered | 178,183 |
| `completion_fence` | two MCP requests, one with a tool call, against the observer: leases, and the refinement to `FencePromise` | 1,193,945 |
| `rounds` | two calls, three rounds, four HTTP requests: what Codex owes is held, nothing is dispatched twice, a call reaches Codex; the attempts at three native turns; the environments of a thread and its subagent | 860,200 |
| `sessions_registry` | two turns of one thread, a request for each, a replay of the first, three sessions: serialized surfaces, no deadlock, cancelled waits end | 241,765 |
| `compaction` | three compactions by hand, or two in the retained conversation: they exclude each other, retry once, keep a final response and settle; the store of tokens, with the refinement to `OneShot` | 661,684 |
| `worker` | six kinds of browser turns on a page that misbehaves: the exchange is whole, the answer the turn's own, every end is clean and comes | 1,147,336 |
| `host` | two turns of one conversation, two helpers, two tabs; one turn at a time with three tabs that may fail; two turns by hand with a human | 1,221,264 |
| `supervisor` | daemon, tunnel and launcher crash under start, stop, forced stop and recovery | 644,111 |
| `daemon` | a round and its reconnect, with interruption, drain, shutdown and restart | 874,854 |
| `helper` | two runs of one trace, in two helpers that crash, time out and are aborted | 586,619 |
| `setup` | setups, removals and typed commands with an edit and a failed write or death, or two of those; updates with two workers on three platforms | 2,415,204 |
| `setup_crash` | **violated**, see 5 | |

Where one name stands for several, its conjuncts are named parts with a comment each: `LeaseHolds`,
`OutstandingIsOwed`, `AttemptsHold`, `EnvironmentsHold`, `RegistryHolds`, `GatesHold`, `TabsHold`,
`ManualTabsHold`, `RuntimeHolds`, `TasksSettle`, `RequestsHold`, `HelperHolds`, `FilesHold`, `UpdateHolds`,
`FailureLeavesNoTrace`, `ExchangeIsWhole` and `EndIsClean`. Each has the type invariant of its module among
them where it is an invariant.

**Bounds.**
* *Broker and its clients.* `MaxTurns = 1`: one of two turns, the Zero Risk one or the other, is registered
  in a behaviour, so interference of turns is covered by the proofs alone (`Prune` and `Close` are the only operations on
  several turns). Two calls are the least that gives a batch, a partly delivered batch and a call that
  arrives after another was delivered; two polls are the least for the batch race. One MCP request
  per turn suffices for tombstones, two are needed for one request to start between another's end and the fence.
* *Rounds.* Four HTTP requests for three rounds leave one reconnect, in any of them.
* *Attempts.* Three native turns for a streak of `MaxStalls = 2` to be broken and taken up; one retry; one lapse of half an hour.
* *Environments.* A thread and its subagent, two sandboxes, one change, two mishaps. They share a root, so the comparison
  of roots at inheritance is exercised only as far as the sandbox is.
* *Registry.* "An instruction", "one of the next turn" and a replay of the first, in any order, so each of
  them may be the one that is steered, refused or answered; a third key is there for a conversation to be
  closed onto. `MaxTabs = MaxEntries = 2` with three sessions make both limits reachable. Three sessions
  are needed for liveness: with two a waiting request could be left without a session to start.
* *Compaction.* Three runs are the least for a gate behind a gate and for a third failure of a key; two keys
  share a thread but not a turn. Three waits compete for two transactions.
* *Worker.* The kinds cover each option of `runBrowserTurn` alone and in the combinations the adapter asks for. One
  rebind, one hang and one batch; text grows twice, since stability compares two looks. A reused
  conversation may have two mishaps, the others one.
* *Host.* Two turns of one conversation are what leases, retention and a late end compete for; two tabs of them, none of
  which fails (`pair`). Three tabs of one trace at a time, which may fail (`crowd`), are the least for a start that finds a failed tab
  first and a running one behind it, and opens a third; there the machine does not sleep, and the user starts no operation and closes
  no running tab. Helpers, tabs and traces are symmetric, which is used because the run has no liveness property.
* *Supervisor.* Two faults: a crash and one more during the recovery from it. `MaxRestarts = 1` reaches the limit. The
  liveness of `TasksSettle` keeps the run that small; its part `DrainIsReported` needs a third fault to be contested, and it and
  `RuntimeHolds` were also checked without liveness at `MaxFaults = 3` (2,190,490 states), and at `MaxFaults = 4` with
  `MaxRestarts = 2` (10,814,774 states). Both are proved for every bound.
* *Daemon.* A queue of one event makes every batch of two overflow; two lives give one restart.
* *Helper.* Two helpers: one crashes and one replaces it.
* *Setup.* One edit at any time and one fault at any write; or no edit and two faults, the second while the first is
  undone, the least for a death in the middle of a compensation. Three versions let a worker be overtaken by a newer one.

Sessions, observers, rounds and compaction runs are interchangeable objects; a new one is the `CHOOSE`
of those not used yet (`NewSession`, `NewObserver`, `NewRound`, `NewRun`), which saves the
permutations in every run and, unlike TLC's symmetry sets, is sound for liveness.

**Deadlock** is checked in `supervisor`, where a launcher can always start or quit. Elsewhere it is not: all
clients may stop, every turn may be over, and bounds are used up.

**Fairness.** Only what the JavaScript runtime, the operating system or a deadline gives: a due timer
fires, the continuation of a settled promise runs, a request with a deadline gives up, a handler's
action ends (every tool call has a timeout), the observer's loop goes round, a browser told to stop is
released in the end (the launcher kills it if it does not stop), a booting daemon boots or dies, an
exit is reported. No client is obliged to send anything, no network to deliver anything.
The worker needs more, and `TurnEnds` says so: ChatGPT's answer ends (strong fairness of `ReplyEnds`,
since a rebind may disable it for a while), an answer without text gets its completed-turn action, every tool call
returns, and an open window elapses at some look (strong fairness of `Judges(TRUE)`). Without the second the turn waits
for ever unless a turn timeout is configured, and without the third the veto below keeps it open: both are in section 5.

## 4. Proofs

`TurnBrokerProofs` proves, for any `Turns`, `SafeTurns`, `Activities`, `Calls` (finite), `Polls`,
`Answers` and `MaxTurns`, from the named assumptions of `TurnBroker` alone:

| Theorem | Property | Argument |
|---|---|---|
| `TypeCorrect` | `TypeOK` | inductive by itself; each action keeps each variable's type, `Prune` and `Close` through `RevokedType` |
| `CallsAreAccounted` | `CallsAccounted` | inductive together with `TypeOK`; `CallStepCases` classifies every step by what it does to the books of one turn (queue a call, hand out the queue, settle a call, empty the turn, nothing), and `CallsStep` treats the classes |
| `CallsSettleOnce` | `SettledOnce` | a call is given an outcome only while it is pending or unused, from the same cases |
| `TombstonesAreKept`, `ClosedStaysQuiet` | `TombstonesHold`, `ClosedIsQuiet` | parts of one joint invariant `ActivitiesSound`, see below |
| `EndsAreFinal` | `EndedIsFinal` | `EndsSound`, each step by `EndsStep` |
| `AccessIsAuthorised`, `NobodyIsLeftWaiting` | `SafeAuthorised`, `WaitersHaveAFuture` | one joint invariant `SafeSound`, each step by `SafeStep`: a wait is held only where its timer or its human is still to come, which is known only together with who has authorised what |

Tombstones and the quiet of closed turns are proved as one invariant because the step that admits a
request needs both: the tombstone decides whether a held claim is admitted, and the committed
or completed state refuses it.

`TurnProofs` has the fence and the rounds. It proves, for any turns, requests, calls, polls and assignment of them
(`turnOf`, `requestOf`), from the assumptions of `TurnBroker` and `TurnCompletion`:

| Theorem | Property | Argument |
|---|---|---|
| `LeasesHold` | `LeaseHolds` | a consequence of `TurnSound` (`SoundLeases`) |
| `FenceKeepsPromise` | `PromiseKept` | for any turn `t1`, each step maps to a step of `FencePromise` or leaves it alone (`PromiseStep`); `FenceSound` gives the commit its fresh page |

`BrokerSteps` shows that every step of `TurnCompletion` is a step of the broker or leaves it alone, so the
broker's invariants are used as they are (`BrokerSound`). `TurnSound` adds what relates the two ends: a
revision the observer holds is not ahead, and if it is the turn's own and nothing is active the page is
fresh (`FenceSound`); what is on the wire was sent by a handler that has moved on, and what a handler was
told holds (`HandlersSound`); a call whose request ended is answered, or its binding is gone
(`InvocationsSound`). `LeaseHolds` alone is not inductive: that an acting request is leased needs to
know that no settlement of it is on its way.

It also proves, for any observers, rounds and calls, from the assumptions of `TurnBroker` and `TurnRound`:

| Theorem | Property | Argument |
|---|---|---|
| `CallsAreOwed` | `OutstandingIsOwed` | a consequence of `RoundSound` |
| `BatchesAreInOrder` | `DispatchedInOrder` | each step, from `RoundSound` before it |

`RoundSound` is the broker's invariants (`ChannelSound`, kept because every step of a round is a step of the broker or leaves
it alone: `ChannelSteps`, `ChannelStays`), the types, and two relations. `StageSound`: only the first observer of the line
stands anywhere, and the broker knows its poll only while it waits for a batch. `OwedSound`: a batch that is recorded and not yet
dispatched is owed exactly as one that Codex works on, and a call that has a result is settled. `OutstandingIsOwed` speaks
of the calls Codex has, and dispatch makes the batch those, so it is not inductive without the second.

`DaemonProofs` has the registry of sessions and the HTTP side. It proves, for any keys, threads, conversations, sessions, requests and limits:

| Theorem | Property | Argument |
|---|---|---|
| `RegistryIsSound` | `RegistryHolds` | with `EntriesSound` (an entry's session belongs to the thread of its key) and `RetirementsSound` (what retires under a key is among what its owner waits for, and was told to stop) |

That a thread has one browser holds because a session is created only when the thread awaits nobody; that needs to
know that everything with a browser is either registered or awaited by its owner. The steps that only forget are treated at once (`ShrinksSound`), and
so is everything that starts a retirement (`AwaitReleaseSound`).

and for any finite set of `Posts`, any `MaxBuffered`, `MaxStored`, `MaxEvents` and `MaxLives` > 0:

| Theorem | Property | Argument |
|---|---|---|
| `RequestsAreServed` | `RequestsHold` | a consequence of `DaemonSound` |
| `SnapshotIsKept` | `SnapshotKeeps` | each step, from `StoreSound` before it |

That a completed answer is whole is a statement about three sequences: the journal of the session, the backlog of the queue and the frames that were
sent. `StreamSound` ties them event by event instead of comparing them at the end. An open stream has sent the first so many texts
(`IsText`), what stands at place i of its backlog is the text that comes i places later (`Follows`), and only a run that is live has relayed all of
its session's text. An end may follow only the whole text of a session that is over (`OverIn`), and one run at a time is live in a session (`OneRuns`,
`RunsSound`), so no other appends to a journal while a reconnect catches up. `ClosedSound` says how a stream has closed: with one terminal frame and the mark behind it,
or without because its client was gone. `HandleSound`, `FeedSound` and `PipeCloseSound` show this for the operations of the queue, `RunMovesSound`, `PipeMovesSound`,
`SessionsMoveSound` and `AbortsSound` for the four kinds of step that touch a stream or a session; each action is one of them. An end of the stall timer
and an end of the adapter cannot both be sent because a stream that is closed is fed and pulled no more.
`ExchangesSound` ties the HTTP exchange to the run of its adapter; `ShutdownSound` adds to `ShutdownFindsIdle` that the daemon drains, without which a request could still arrive.
`StoreSound` knows that a snapshot is read before anything is remembered: what is on disk is among what is stored, or the store is full. Every step of
the daemon is one of five moves of the store (`StoreMoves`). TLC checked `DaemonSound` on the run's instance and on one with a backlog of two before
(874,854 and 1,136,924 states).

`BrowserProofs` has the helper and the worker. It proves, for any runs, traces and helpers:

| Theorem | Property | Argument |
|---|---|---|
| `TasksReachChatGPTOnce` | `HelperHolds` | a consequence of `HelperSound` |

Client and helper know a turn by its trace only, so what a frame means depends on which runs of the trace the reader has seen.
`HelperSound` therefore speaks of every frame in the pipes (`InputSound`, `OutputSound`): a helper reads the frames of a trace in
the order of its runs, with the run frame first; the leave to press Send is written only after the adapter noted it, and a run
keeps it (`LeaveSound`), unless it was meant for a later run that the helper had refused. `RetriesSound` is what lets a retry be
sent: the runs before it can have sent nothing, or ChatGPT failed them. `AbortSound` says for an early abort what keeps the run from Send: its
abort is on its way ahead of any leave, or it was never handed over, or it has been stopped.

and for turns of any kind (`TurnAssumption`: any set of options with any number of stages and mishaps), any `MaxRebinds`, `MaxFaults`,
`MaxBatches`, any `MaxText` and `MaxTriggers` > 0:

| Theorem | Property | Argument |
|---|---|---|
| `ExchangesAreWhole` | `ExchangeIsWhole` | a consequence of `TurnSound` |
| `TurnsEndCleanly` | `EndIsClean` | a consequence of `TurnSound` |
| `AnswersAreOwn` | `OwnAnswerOnly` | each step, from `TurnSound` before it: only `Reconciles` moves to another answer, and a new one is on the page only behind a message the worker has not accepted (`Followed`) |

`TurnSound` has a part for the composer and one for each thing the turn has to keep in step with its page. `ComposerSound` says what is
written and what is still to be undone at each step of the attachment, also where an error is being handled, so that a failed attachment
leaves nothing; it is kept by the 31 steps of `PromptComposer` and by what the user does to the composer. `Counted`: Enter is pressed once
for each part. `Quieted`: before Enter nothing of the message is on the page, and what is new there afterwards is new because of it.
`Composed`: the attachment stands where the phase of the turn says. `Stopping`: what may run was noted before Enter, which is what the cleanup
decides by. `Followed`: what was seen of the answer is what the bound answer shows once its action was seen. `Fencing`: a revision that the
fence gave is current only while every batch of calls was observed and none is open. Neither property is inductive: that a completed answer
is whole needs `Fencing` and `Followed` at every phase of the loop, although it speaks of its end only. The types are proved record by record
(`OwnKind`, ..., `EndKind`). TLC checked `TurnSound` on the run's instance with two batches and with two mishaps before (2.7 and 7.1 million states).

`AdapterProofs` proves, the first for any `MaxRetries` and any `MaxNativeTurns` > 0 (`AttemptAssumption`), the second for any runs, keys,
owners and turns and any assignment of them, where `None` is no run (`CompactionAssumption`), the third for any threads, parents, authorities and
any `MaxKept` (`EnvironmentAssumption`), the rest for any `Tokens`, `Submissions`, `Waits` and `Traces`:

| Theorem | Property | Argument |
|---|---|---|
| `NoFailureRepeatsWork` | `AttemptsHold` | a consequence of `AttemptSound` |
| `OneCompactionActs` | `GatesHold` | a consequence of `GateSound` |
| `TurnsRunAsAttested` | `EnvironmentsHold` | a consequence of `EnvironmentSound` |
| `TransactionsAreTyped`, `WaitsAreHeard` | the store's types, `NoWaitIsStranded` | conjuncts of `StoreInv`: what is in the store (`StoreOK`: a summary is untimed and unawaited) and how waiters and pending waits correspond (`WaitsOK`); `FinishErrorKeeps` treats every way a transaction is ended at once |
| `StoreIsOneShot` | `OneShotKept` | under `StoreInv` each action maps to one abstract action (`StoreRefinesStep`), ends of transactions to `End(S, D)` through `FinishErrorRefines` |

`AttemptSound` says what ties the tables to what a turn has been through: a prompt that was sent is known to be and a second one is the
safe retry that was spent (`SendsSound`); the failures of a turn are in its budget unless it lapsed, was cleared by the round
that stands for the turn, or was forgotten (`BudgetSound`); the guard's count is that of the fruitless answers (`StallSound`).
None of the bounds is inductive without them, since a table is dropped by time while the turn goes on.

`GateSound` is about the line of a thread's runs that are not settled. One of them has nobody before it (`OneAhead`), no two wait for the same
run (`NoneShared`), the thread names the last (`LastNamed`), and in every set of them one waits for nobody of the set (`Rooted`), which keeps
the line from being a circle: `LastIsOnly` needs it to show that the named run, when it settles, was the only one left, so that
the thread may forget it. Only the first of the line acts or has a live browser (`BusyAhead`), also after those behind it were cancelled.
`AnswersKept` says which stage a run can have reached that dropped an ordinary response: one that fails.

`EnvironmentSound` adds to `EnvironmentsHold` what an entry means: in memory and in the file it says what the last resolved request
of its thread ran with, unless a write of that thread failed (`EntriesAgree`). `RunsAsAttested` is not inductive without it, since an answer
from the store says nothing about the turn. The operators of the store are treated by one relation: what is left when an entry is deleted,
expired or evicted is selected from what was there, in its order (`Selects`, `SelectsEnd`, `SelectsOthers`), and `WithIsStore` adds that the newest
comes last. TLC checked `EnvironmentSound` on the run's instance before (584,407 states).

`HostProofs` has both kinds of tabs. It proves, for any traces, helpers, tabs, `MaxTabs` > 0 and assignment of conversations, and for turns by
hand for any traces, daemons and tabs, where `None` and `Nothing` are none of the values they stand beside:

| Theorem | Property | Argument |
|---|---|---|
| `TabsAgree` | `TabsHold` | inductive by itself; a trace of which no tab has failed has one tab, so a start sees it (`OneTabPerTrace`); a step that gives a worker a tab publishes all of them (`AdvertisesAll`), every other gives no worker a tab it lacks (`GrantsNothing`) |
| `LeasesAreKept` | `LeasesHold` | each step leaves the tabs of every trace where they are (`KeepsTabs`) or gives one to a trace it may have (`TakesTab`) |
| `SignalsAgree` | `ManualTabsHold` | a consequence of `ManualInv` |

`ManualInv` relates three places that know of a turn by hand: the worker, its tab and the host's memory of how turns ended. One worker is under way
(`OneWorker`), a turn has one tab (`OneTabPerTurn`), and the tab of a begun worker is its own (`TabIsOwn`). What a tab shows is what is remembered: a tab whose
turn was cut short has its signal, one that is retained its completion, and a live one neither (`StatusFits`, `EndIsRemembered`, `ClosingIsOver`,
`NotCompleted`). That a worker which was told Sent is never told of a timeout needs all of it: the deadline is disarmed when Sent is confirmed
(`SentIsKnown`), and no deadline of an earlier tab of the turn can fire, since there is none. `NothingRetained` is what keeps a second tab
from being retained: no tab is, while a turn that may yet be has one. Each of the 27 actions is first shown to be one of twelve kinds of step
(`Quiet`, `Advances`, ..., `GivesTabUp`), which say field by field what a step leaves alone, and each kind keeps the invariant. TLC
checked `ManualInv` on the run's instance before (1,898,780 states without symmetry).

`LauncherProofs` has the supervisor and the updates. It proves, for any set of recoveries and any `MaxRestarts`, `MaxFaults` and `Threshold`:

| Theorem | Property | Argument |
|---|---|---|
| `StopsWorkAlone` | `RuntimeHolds` | a consequence of `SupervisorSound` |
| `DrainsAreReported` | `DrainIsReported`, a part of `TasksSettle` | each step from `SupervisorSound`; `EndsTell` treats every way a task can end |

`SupervisorSound` adds to `RuntimeHolds` where each task may stand (`TasksTyped`), `StopAlone` (a stop raises `stopping` and
disarms the timers before it waits for the recoveries, so that none can begin behind its back), `OneStop`, `StaleHoldsNone` (a stop that recovers stale
ownership holds no daemon), `FileSound` (the file is missing while a daemon is held only when a start or a forced stop
is about to write it) and `WatchSound` (the monitor runs only over a tunnel that is held or being connected).
`DrainIsReported` is an action property because its state form is false: see section 5.

and for any `Workers`, `MaxMishaps` and `MaxVersion` > 0:

| Theorem | Property | Argument |
|---|---|---|
| `UpdatesAreSafe` | `UpdateHolds` | inductive with `KilledWaits` (while the launcher quits for an update its worker only waits, so a refused quit can kill it), `HandsHoldReleases` (what a worker holds is a release) and `ImagesAreKept` (on Linux, what is about to be named is there and what is about to be removed is not named); `UpdaterTypeStep` and `KeptStep` treat each action |

`SetupProofs` has the integration and the launcher's setups. It proves, for any URLs, first texts, `MaxEdits` and `MaxFaults`, from `SetupAssumption`
(a first text is a user's, `Urls` has not the bridge's, and `None` is none of the values it stands beside):

| Theorem | Property | Argument |
|---|---|---|
| `FilesAlwaysHold` | `FilesHold` | a consequence of `SetupInv` (`RestingFiles`) |
| `FailuresLeaveNoTrace` | `FailureLeavesNoTrace` | each step, from `SetupInv` before it (`CommandsUndo`, `SetupsUndo`) |

`FilesHold` speaks of the files at rest, and every write between is a step after which a process may die. `SetupInv` therefore says of every disk, and not
of the last one only, that its two copies, the text and the user's lines fit together (`Fit`, `Safe`): each line of the text is the user's or the
integration's, and for one of the integration's a copy keeps what the user had, unless two copies stand beside it that no text tells apart
(`Twins`, which `readJournal` refuses). `FitTaken` and `FitRepaired` show that what an installation takes for the user's text, and what a repair makes of the copies, are right
wherever a command goes on. Every plan of writes is a path through such disks to one where the files agree (`Leads`, `Paths`; `DisconnectPaths`, `ConnectPaths`,
`UninstallPaths`, `RemovePaths`, `SubagentsPaths`, `SetupPaths`), and so is the way back when a write fails (`JobSafe`, `Returns`), whichever write
it is. The way back of a change of protocol may pass through splits (`SwitchSafe`, `Torn`), which is what the exception for `"split"` is needed for. An edit keeps the fit on every disk, so it does not matter what the user changes between two commands (`EditsNext`). A setup is harder: its rollback
restores files one by one over whatever its command left behind. `Remembers` keeps that the checkpoint fits, and `Bound` with `Since` that the copies are those of
the checkpoint or were written by this setup's command, which is why the files of the checkpoint fit beside those not yet restored (`RollbackReturns`). A death weakens what is known of the
user's realtime line, and an undo that fails, or a death that leaves a split, ends the claim: `SetupInv` holds its second part only while `Unharmed`. Its
third part, `Whither`, says of a command that has not ended what its batches will have done when the last of them begins (`Parts`), so that a failure
leaves the files it found or its first part.

**Only model-checked.**
* Every liveness property: TLAPS cannot prove them under fairness. These are `QueuedIsOffered`, `HeldClaimsEnd`,
  `CallsReachCodex`, `CancelledWaitsEnd`, `CompactionsEnd`, `TurnEnds`, `DrainSettles`, `TurnsSettle`, `LauncherReturns` and the
  other parts of `TasksSettle` (`DegradedIsRetried`, `StopsEnd`).

No module uses recursion.

## 5. What disagrees with the code's own words

**A crash that is not reconciled** (`setup_crash`, `CrashIsReconciled`). `src/codex-integration-shared.ts:366-367`
says of the recovery copy and the primary copy of the journal: "If the process stops between those
writes, the physical config unambiguously selects the completed state." A first installation that dies after
the recovery copy leaves one copy that does not match the configuration, and `readJournal` throws
(`codex-integration-journal.ts:172`). A change from compatibility-v1 to native that dies there leaves two
copies that both verify, since a native journal is verified without the feature lines, and `readJournal` throws at 182. Every
later command refuses, with no edit by anybody.

Observed while modelling. The models do what the code does; the properties exempt exactly these cases, by a
history variable or a condition, or do not reach them.

*Broker, rounds, registry, compaction*
* The broker hands the same unanswered batch to an exact reconnect (`turn-broker.ts:401-403`), and
  `index.ts:1357` records it again: two increments, one decrement. After a client drops between the broker's
  answer and the journal, the veto of `turn-progress.ts:286` ("Only unresolved native tool calls veto
  browser-turn completion") outlives the calls.
* `turn-execution.ts:247` says "One native Codex thread may own at most one live ChatGPT browser
  surface." `closeConversationAndWait` (639) drops a conversation's entries while its browsers are live and
  records their release under the conversation only, so the thread's next request neither finds nor awaits them.
* `compaction-handoff.ts:476-477`: a physical browser owner "still blocks retries and cancel-all completion".
  The handoff browser is awaited until the deadline of the run (357) and then forgotten, so the gate opens while it is live.
* An invoke whose release also failed leaves a call that may be accepted after the fence was
  committed; `NoCallAfterCommit` excludes exactly it. Both settle attempts failing leave an activity at the broker;
  the fence cannot begin before the turn is retired.
* `requestCompaction` leaves polls that already wait; they end with the turn.
* `closeConversationAndWait` returns zero and does nothing while an earlier retirement of the
  conversation is pending. A response that ran for longer than the registry's time to live may be pruned as
  soon as it settles, since the time is that of the last request. The tab limit counts sessions that
  are logically active, not live browsers.
* When a cancellation or the deadline interrupts "closing", the source is already detached, so the catch
  block rethrows without waiting for the retirement that `index.ts:1147` says cancel-all waits for. A run
  whose conversation was unavailable and that is cancelled during its catch block still starts a fallback, which is cancelled at once.

*Attempts and environments*
* Replayed and late answers (`index.ts:1257-1297`) are not observed by the goal-stall guard.
* The one safe retry is counted per request, so a lost connection allows more sends of answers that
  were empty upstream errors. Failures of no known kind before Send clear the budget and are not bounded. A session
  forgotten after half an hour may be sent again.
* A write of the environment file that failed is not repeated by an identical request within a minute, so
  a restart brings the older authority back, although `thread-environment.ts:245-246` says changes are persisted
  immediately. A file that cannot be read fails one request and is then overwritten by an empty store.
* A cached authority of the thread itself is not compared with the request's sandbox metadata; an inherited one is.

*Browser turns and the helper*
* An answer that stops with neither text nor the completed-turn action is waited for without end when no
  turn timeout is configured (`browser-worker.ts:1538-1561`; the comment at 1576-1583 reads otherwise).
* Unresolved calls veto completion however stale they are (`turn-progress.ts:287-292`,
  `browser-worker.ts:5123`), although 5107-5108 speaks of stale ones not holding the turn.
* The loop reads the broker's progress after the look at the page, contrary to 1441-1443. The evidence "generation
  running" counts a stop button that was visible at the baseline.
* A labelled personalization change is not rolled back after a timeout; a compaction prompt submitted by
  hand during the attachment is not stopped; after a send timeout the cleanup may report that nothing ran while the
  submission starts later; after a failed rebind the old page counts as closed and its answer goes on; a message
  the user sent before the binding may be bound; a detachment of more than half a second of an answer
  with known ids fails the turn at once; turns whose handoff was accepted skip the cleanup.
* The abort of a turn may cross `send_activated`: the client still acknowledges it (`launcher-helper-client.ts:481-490`),
  and the helper answers with an error frame (`browser-helper-main.ts:419-426`) that settles the turn while its worker unwinds.
* An exit notification that comes late settles a retry of the same trace and orphans its run. The client's `close`
  (305-317) drops `readyReject` unrejected, so a turn that waits for a ready helper never settles: `TurnsSettle` speaks of the others.

*Browser host*
* The path of `beginTurn` that reuses a tab never syncs the power-save blocker, so the machine may sleep while a turn
  runs, which `turn-suspension.cjs` rules out. `BlockerHasTurn` is the other direction.
* `closeTab` (`browser-host.cjs:1590-1623`) may remove a tab that another turn has reused while it awaited `cancelTurn`.
* Automatic tabs in "error" (831-839) are never reaped, and `beginTurn` looks at the first tab of a trace only, in the order in
  which the tabs were opened (2245). A trace whose first tab is in error is given a second tab, and a repeated start of the same turn does not see that
  one either: two running documents of one trace. `OneTabPerTrace` speaks of the traces of which no tab has failed. An end that comes late may leave two ready tabs of one conversation.
* A repeated `endManualTurn` answers differently although it is called idempotent (`launcher-browser-host.ts:478`); a repeated
  start answers that a tab was reused; an abandoned Zero Risk start leaves a running tab; `zeroRiskManualControl.cancel` has no caller in `runManual`.

*Supervisor and daemon*
* After a crash of the launcher a stop that finds the tunnel adopts it, skips the stale daemon and
  clears the file while that daemon lives, contrary to `launcher/tests/runtime-supervisor.test.cjs:1503`; `OwnedIsRecorded` speaks of a daemon the launcher owns itself.
* A daemon that refuses turns may stand behind a file that does not say so, in two ways, each of three faults. After a failed stop whose
  tunnel refused to stop, the monitor that was armed again overwrites "failed" with "degraded" (`runtime-supervisor.cjs:1064`). And a start
  that found stale ownership while a recovery's timer was armed drains the daemon that the recovery has spawned meanwhile
  (1225-1246, 1702-1789); if the resume is lost, `writeExternalState` (470-478) leaves the "ready" of the recovery. `DrainIsReported` counts "degraded" as told, since it is
  retried, and exempts the second.
* A refused stop leaves the tunnel held and its monitor stopped. A start at boot may run beside a forced quit.
  A tunnel recovery that was scheduled before the tunnel came back restarts it.
* A journal longer than the backlog of 10,000 events cannot be replayed (`event-queue.ts:16`); the error pushed at an overflow throws
  again, so the client sees an incomplete response. `bridge.ts:360` says it synthesizes `response.completed` and emits `response.incomplete`.
* A resume between the acknowledged shutdown and its timer can accept a turn that is then killed. `activity()` does not count
  compactions that have just begun. Responses remembered after the flush at shutdown are lost. A collected stream without a terminal event counts as completed.

*Integration and updates*
* When a setup fails after the runtime was ready, the rollback restores the files, but the daemon goes on with the
  configuration it was started with (`runtime-supervisor.cjs:1122-1134`), contrary to `launcher/tests/runtime-host.test.cjs:918`.
* `codex-integration.ts:137-139` says of a change of protocol: "If either write fails, restore every participant so the next
  launcher/Codex restart cannot load a split V1/V2 state." When the saved configuration cannot be written (149), the
  installation has returned and only the outer pass restores, the two journals first (153-155). From the native protocol to Compatibility V1, a death
  before the configuration is restored leaves native journals beside the feature lines that were installed. They verify, nothing refuses, and the
  user's own feature lines are lost. `"split"` in `broken` marks this death.
* A typed setup saves the configuration (`setup.ts:598`) and then installs (605), and an uninstallation removes the integration and
  then the private data (`cli.ts:534-535`); when the second fails, nothing undoes the first.
* Edits of `config.toml` during a setup that is rolled back are lost. The typed `setup --subagent-protocol` that fails after it
  saved the application's configuration leaves the protocols split.
* Two workers on Linux at once may leave the wrapper naming a removed image. A worker that waits 120 seconds in vain ends and
  starts nothing, and a slow quit then ends with neither update nor launcher. A worker that dies between its two renames
  leaves no application and nobody restores it. A second worker can downgrade. A check that failed is not repeated until the next start.

## 6. Left of the plan

Done: the broker with its proofs, its clients, the registry, compaction with its store, the attempts, environments,
worker, helper, host, daemon, supervisor, integration, setup and updates, with the proofs of every safety property that holds.

Left, in order of importance:

1. `BrowserHelper` with the worker's maintenance queue and the limit of active runs; composition of `BrowserTurn` with it.
2. The supervisor over `CodexIntegration`: restarts against a setup in progress.
3. An abstract atomic change of configuration that `CodexIntegration` implements but for `CrashIsReconciled`.

## 7. Not modelled

* Launcher user interface, dev chat, login, models and rendering: presentation, a developer's client, page
  automation, and functions from text to text. They have no state to interleave with.
* Rolling checkpoints of Luna and conversation keys: functions of a request.
* Service and tunnel installation, diagnostics, process helpers: one-shot operations on files and processes.
* Sockets, frames, parsing, schemas, authentication of the control channel and the admin endpoints: left to their outcome in
  the modules that use them.
* The broker's `waitForRetirement` and `waitForSafeCompletion`, which pass an outcome on; answers of the CLI that
  `parseBridgeRouteResult` cannot read; `uninstall --keep-data`.
* What a module leaves out of its component is named with the module in section 2.
