# A TLA+ model of acp-ws-bridge

The bridge lets a remote client talk to a Copilot CLI: WebSocket on one side,
newline-delimited JSON over a child's pipes or a TCP connection on the other.
This directory holds TLA+ specifications of its stateful parts, the TLC
configurations that check them on small instances, and TLAPS proofs, for every
instance, of the safety of each part and of the session tracker and the relay put
together.

Paths below are relative to the repository (`src/ws.rs` is the relay).

## 1. Inventory

| Part | State | Operations | Talks to |
|---|---|---|---|
| Session manager (`session.rs`) | a map of sessions behind one tokio `Mutex`, an atomic counter, a `watch` channel per session | `register`, `unregister`, `touch`, `update_status`, `increment_*`, `set_*`, `delete_session`, `disconnect_idle`, reads | everything below |
| Connection handler (`bridge.rs`) | its place in register, activate, relay, touch, unregister | `handle_ws_connection` | session manager, relay |
| Relay (`ws.rs`) | a `select!` of three branches, a bounded channel, a sink task, a reader task, the CLI's writer, `last_pong` | `relay_stdio`, `relay_lazy`, `stdio_reader_task`, `tcp_reader_task` | client, CLI, session manager, shutdown channel |
| ACP framing (`acp.rs`) | buffers of a TCP connection | `connect`, `read_line`, `write_line` | relay |
| Copilot process (`copilot.rs`) | a child process | `spawn_stdio`, `spawn_tcp`, `Drop`, command override checks, version probe | relay, startup |
| REST API (`api.rs`) | none of its own | list, get, commands, delete, stats, usage, history | session manager, stats cache, history |
| Stats cache (`stats_cache.rs`) | a SQLite file: counts, file offsets, copies of four aggregates | `refresh` (sync, then ingestion), `get_stats` | the CLI's `events.jsonl` files and `session-store.db` |
| History (`history.rs`) | none | read-only SQL | `session-store.db` |
| Startup, configuration, TLS, paths (`main.rs`, `config.rs`, `tls.rs`, `paths.rs`) | none after startup | parse, validate, spawn, bind | all |

What is hard in it:

* **Concurrency.** Per connection there are a handler with a `select!`, a sink
  task and a reader task; they share the session map with the REST handlers and
  the idle checker. `select!` drops two of its branches at whatever await they
  are at. Two tasks and a channel lie between a line of the CLI and the client.
* **Back-pressure.** The channel, both sockets and both pipes are bounded, and
  timeouts, pings and the answers to pings go through the same channel or the
  same read loop as the traffic.
* **Failure.** A spawn or connect that fails, a CLI or a client that goes away
  in the middle, invalid JSON on either side, a bridge that dies inside a refresh.
* **Data that others write.** The CLI appends to files and to a database while the
  bridge reads them; two bridges may share one data directory; statements fail
  while another process holds the database, and most of their errors are dropped.
* **Startup.** A child that must not outlive its bridge, ports that programs
  compete for, a mode that is text and decides in five places, and errors of which
  some are fatal and some are warnings.

`PROJECT.json` lists every hazard at its line, with the properties that cover it.

## 2. The modules

    SessionLifecycle <--implements-- SessionManager      Relay --implements (twice)--> OrderedPipe
                                    ^                      ^
                                     \ implements           | extends, implements
                                      ------------------ Bridge
    CopilotCommand <--extends-- Startup         EventIngest          StoreSync

    proofs:  SessionManagerProofs   SessionRefinementProofs
             BridgeProofs --extends--> RelayPipeProofs --extends--> RelayProofs
             EventIngestProofs   StartupProofs   StoreSyncProofs

The `MC*` modules extend a specification for TLC (they define symmetry sets and the
sets of configurations); the `.cfg` files give the constants their values. Definitions
whose comment begins with *Mutant:* are not part of the model: each is a plausible
mistake in the operation that follows it, and the run named for it in `PROJECT.json`
fails when the operation is replaced by it.

### SessionManager and SessionLifecycle

`SessionManager` is `session.rs` with everything that uses it: `conn[c]` is the
place of connection *c*'s handler in `handle_ws_connection`, `reader[c]` the
reader task its relay spawned, `sessions` the `HashMap`, `watch[c]` the shutdown
channel. Each method is one action, since it holds the lock throughout; what runs
before the lock is taken is a step of its own (`FetchSeq` for the `fetch_add` and
the `Instant` of `register`, `ScanTick` for the `Instant` of `disconnect_idle`).
Dropping an entry drops its `watch::Sender`, so `insert` and `remove` close the
channel. The relay is reduced to the calls it makes; that it may return for any
reason and at any time over-approximates `Relay`, and `Bridge` checks that it does.
`request` is one call of the commands endpoint between its two reads of the map; its
field `owner` is history.

`SessionLifecycle` is what the tracker promises about one session: it opens
once, may be told to shut down, is removed once, and nothing is taken back.
`SessionManager` implements it under `PhaseOf`.

### Relay and OrderedPipe

`Relay` is one call of `relay_stdio` (`mode = "stdio"`) or `relay_lazy`
(`mode = "tcp"`); a run names the modes it starts from in `Modes`. A step is what a
task does between two awaits that can block. The read branch is a small state machine
(`rd`: next frame, counted, opening the CLI, writing, sending an error or a pong), the
ping branch another (`ping`), and `EndSelect` is the completion of a branch: the other
two, and the frame the read branch holds, are dropped. `main` then runs through the
handler and the cleanup to `returned`. `chan`, `sink`, `sock` are the channel, the sink
task and the transport to the client; `stdin`, `stdout`, `reader` the CLI's side. Texts
and lines are reduced to kinds (a prompt, another request, not JSON, empty; an update, a
reply, not JSON, empty, one that `read_line` cannot read) and a sequence number. `Stops`
names the lines at which a reader task gives up for good: in stdio mode one that is not
UTF-8 (`src/ws.rs:495`), over TCP also one that is not JSON. Binary frames, which the code
ignores, and log truncation are left out, and a line is written whole or not at all: half
of one, if the `select!` drops `write_all`, is the last the CLI gets, since the relay ends
then. `age` is in whole intervals while the code compares `Instant`s, so with exactly
`PongTicks` of them passed `PingTick` may find the timeout over or not. `why`, `late`,
`asked`, `toCli`, `said`, `toClient` are history.

The client, the CLI and time are the environment: the client may leave, the CLI
may exit, either may stop reading. A WebSocket library answers a ping when its
owner reads it.

`OrderedPipe` is a first-in first-out pipe. `Relay` implements it in each
direction (`UpwardSpec`, `DownwardSpec`): nothing is repeated, reordered or
skipped, whatever is dropped at the end.

### Bridge

One connection from accept to close: `SessionManager` and `Relay` put together as
`handle_ws_connection` does. It extends `Relay`, whose variables and actions it uses as
they are, and has the tracker as its instance `T`. What ties them is `Told` (the relay's
`changed()` returns when `true` was sent or the sender was dropped), which the relay's
variable `told` follows at every step of the tracker (`Notices`), `ReaderTask` (what the tracker's model sees of the
reader task) and `calls`, the calls of the tracker that the read branch and the reader
task still have to make. Each call is a step of its own, under the lock, and other
tasks run between two of them; the `select!` drops the read branch together with the
calls it has not made. The composition implements both parts (`TrackerSpec`,
`RelaySpec`), by a run and by proof, so that neither part assumes of the other what it
does not do, and what is proved of each holds with the other beside it. There is one
connection: two on one tracker are the matter of `SessionManager`.

### EventIngest

`StatsCache::refresh` from the listing of the files on, of several bridges on one
database. A file is a sequence of events of two bytes each, so that a size or an
offset can fall inside a line, and for a `wide` event inside a character. `Stat`,
`LookUpOffset`, `ReadFile`, each `CountLine` and `Commit` are steps of their own,
because CLIs append and other bridges run in between. `tx[b]` is what a bridge has
executed and not committed: SQLite has one writer, so a statement of another bridge
waits for it and fails when the busy timeout is over (`Locked`), and its error is
dropped. A COMMIT that fails leaves its transaction open, into which the next file's
statements go. A `SELECT` of an offset that fails reads as 0 (`src/stats_cache.rs:255`),
and the INSERT of one may fail while its COMMIT keeps the counts (`LoseOffset`). `Crash`
ends a process anywhere. Ingesting half a line is passing over text that is not JSON.
`Deployments` says which bridges, files and kinds of events there are. The two INSERTs
of one line (lines 288 and 297) are one step, and an INSERT that fails leaves its
transaction open, which is what SQLite does but for a few errors (no memory, a disk
that is full or fails) on which it may roll all of it back.

Five ghosts name the causes of what can go wrong: `cut` (an offset was committed
inside the line), `lost` (its INSERT failed), `grew` (the line was completed between a
`stat` and its read), `raced` (two bridges had the file's offset in hand at once) and
`forgot` (a statement that reads or stores the file's offset failed).

### StoreSync

What the REST API reports of the CLI's `session-store.db`: through the cache, into
which each refresh copies four aggregates (`sync_session_store`), and which
`get_stats` reads (endpoint `"usage"`); and directly, by
`get_history_stats_from` (endpoint `"history"`). Outside a transaction SQLite commits
each statement, so each `DELETE`, `INSERT` and query is a step, of any bridge, and may
fail: a statement is then without effect, a query of the store yields some of its rows or
none, and a query behind an endpoint reads as 0 or as a shorter list (`failed`). A session
of the store is its age (today, 7 days, 30 days, before), which midnight (`DayPasses`)
moves, or has no date, and then no month (`WHERE created_at IS NOT NULL`); a table with a
key is the set of the sessions that have a row in it, the one without a key the sequence
of its totals. The ingestion is reduced to adding an execution to its two tables, either
of which may fail. Of the queries of `get_stats` the two on executions are steps; what
the others would return, sent at any moment, is `Reported`, of which the invariants speak
in every state. The store and the directory of session states are there from the start:
without them a refresh returns at once (`src/stats_cache.rs:111`, 213). `alone`, `fresh`, `lost` and the day of a request in `answer` are history.

### CopilotCommand and Startup

`CopilotCommand` is operators only: the command lines of `copilot.rs`, the checks of
a custom command, how Copilot CLI reads its arguments (external), and the two
functions of `api.rs` that judge a version. A command line is a sequence of words; a
word is the option it is and the port it spells.

`Startup` is `main` of several processes on one machine, step by step from the
arguments to serving or to an end: the certificate, the spawn of the shared CLI,
`wait_for_port`, the data directory, the version probe, TLS, the REST API's task and
the WebSocket's bind. `Ends` is a return: the tasks and listeners go and `Drop` kills
the child. `Killed` is a signal: nothing is dropped and the child stays on its port. A
second process is a restart or a second instance. The CLI may be missing, never listen,
fail to bind, exit, or block on the stdout nobody reads (`CliFillsPipe`).
`--copilot-host` names this machine or another one, of whose listeners nothing is known
(`Connects`); `--listen-addr` is an address of this machine or not (`CanBindWs`). Programs
that hold a port hold it on every interface, so that the REST API's 0.0.0.0 and the
WebSocket's address compete for the same ports.

## 3. Runs

| Run | Question | Result |
|---|---|---|
| `SessionManager` | Two connections, readers, REST calls, scans, all interleaved: owners, channels, statuses, answers, who is disconnected, life cycle | holds |
| `Bridge` | One connection from accept to close: do the parts meet each other's assumptions, does the list agree with the traffic, and does a session that is told, deleted or idle end altogether? | holds |
| `RelayPipes` | Both modes: transparency, counters, last words and the answers due before a return, with invalid input and failures | holds |
| `RelayKeepalive` | Pings, timeouts and a full channel: who is dropped, and is the Close delivered? | holds |
| `RelayEnding` | Both modes: do answers and prompts arrive when client and CLI cooperate, past lines that are no messages? | holds |
| `RelaySilentCli` | Does a session that is told end while the CLI is silent? | violated |
| `RelayStalledClient` | Is a client that stopped reading dropped? | violated |
| `Ingest` | Two bridges on one file or one on two, appends that end anywhere, crashes, failing statements and look-ups: what can lose an event, count it twice, make a refresh panic, and is all the rest counted some day? | holds |
| `IngestPartial` | Is a line counted that was half written at a refresh? | violated |
| `StoreSync` | With crashes and failing statements and queries: are answers consistent and never above the store, does an undisturbed sync repair everything, does the cache catch up? | holds |
| `Startup` | Every kind of option, command, CLI and port, a bridge and a second one: who is left behind, which transport, what is fatal, does it come to an end? | holds |
| `StartupSpawn` | Can `--spawn-copilot` be turned off? | violated |

Run one with `tlc -config RelayPipes.cfg MCRelay`. A `.cfg` is named for its run; a
run takes from seconds to three minutes.

### What the violated properties say

* `RelaySilentCli`: the cleanup of a relay awaits the sink task, the sink waits
  until every sender is gone, the reader task keeps one until the CLI speaks or
  ends, and the CLI is killed by the return. The clones dropped before the await
  are not the last references. An idle CLI, which is what an idle session has,
  keeps the session, the child and three tasks. `Bridge` shows the same end to be
  reached under one more assumption only, that the CLI ends by itself.
* `RelayStalledClient`: the keepalive sends through the full channel before it
  can notice the timeout, so a peer that stopped reading is not dropped while the
  CLI has filled the channel.
* `IngestPartial`: a half written line is passed over as invalid, and the offset
  moves behind it.
* `StartupSpawn`: the option is a flag to the argument parser, true when present and
  true when absent, and a value is refused; README and a log message name
  `--spawn-copilot false`.

### What the passing properties leave open

The models show some behaviour that no property forbids, because the repository
promises nothing about it; where a property excepts it, it says so:

* While the CLI does not read its stdin the read branch is in `write_all`
  (`src/ws.rs:355`), and the pongs of a live client stay in its socket until it is
  closed as dead. `ResponsiveNeverDropped` says that this takes something under
  way at the end of an interval (`late`).
* Over TCP a prompt written to a CLI that has left is lost in silence:
  `PromptsForwarded` excepts it. A line that is not JSON ends the tcp reader
  (`src/ws.rs:540`), one that cannot be read ends both (`src/ws.rs:495`), and what
  follows it is never delivered though the relay goes on: `AnswersDelivered` and
  `ReturnLosesNothing` ask for what precedes it (`AfterStop`).
* `GET /api/sessions/:id/commands` answers 200 with an empty list when the session
  ends between its two look-ups; `AnswersForVerified` says that it is never another
  session's list.
* An event is counted twice when it is completed between the `stat` and the read of
  its file, when two bridges have looked up one offset (a COMMIT that fails widens
  this, since its transaction stays open), and, the whole file with it, when its
  offset cannot be read or stored. `RepeatedOnlyIfExplained` says that nothing else
  repeats an event. Likewise an INSERT that fails loses its event
  (`MissedOnlyIfCutOrLost`).
* A character that is completed between a `stat` and its read puts the offset inside
  it, and every later refresh panics there (`src/stats_cache.rs:271`) before it comes
  to the files behind; `EventuallyCounted` excepts those files.
* A usage request sees a table between its `DELETE` and its `INSERT`s, so it may
  report no sessions at all; the end of the next undisturbed sync repairs it
  (`SyncReplacesAll`). A query that fails reads as 0 next to others that did not:
  no executions beside a list of models that have some. `ExecutionsCoverModelUsage` and
  `HistoryWindowsNested` except the larger side when its own query failed. Two bridges that sync at the same time for ever may keep an
  older total for ever.
* `is_copilot_ga` is documented as "GA (>= 0.0.418 or >= 1.0.0)" (`src/api.rs:193`) and is
  false for 0.1.0, for which `detect_features` reports `ga`. Both are pure functions, so
  this is a theorem, `GaDisagreement`, and not a run: they disagree on exactly the
  versions from 0.1.0 to below 1.0.0.
* A mode that is neither `stdio` nor `tcp` is treated as `tcp`, and a custom command
  is then not checked; the last words of `TransportMatches` except it, and several
  `--port`s.
* `wait_for_port` takes any listener for its child (`src/copilot.rs:316`), and the bridge
  serves whether or not its own CLI ever listens. `TransportMatches` speaks of a CLI that
  does.
* With `--copilot-host` naming another machine a CLI is spawned here all the same, for
  nobody: nothing compares the two options. `TransportMatches` excepts it.

### Bounds

* `SessionManager`: two connections are what a collision of ids, a scan that
  tells several, and an operation on somebody else's entry need; a clock of 0..2
  with a timeout of 1 has idle and busy sessions and a scan older than the last
  activity. Counters do not interact with the rest and stay at 0 there; they count
  in `Bridge`.
* `Bridge`: one prompt, one line, a clock of 0..1 with a timeout of 0, so that a
  session is idle after a tick and active in the same one; buffers of 1. Of the pings it
  has the first one, which tokio sends at once, with a pong timeout of 0, so that it may
  find the timeout over and the drop for a missing pong meets the tracker; an interval
  more makes ten times the states, and the proofs have any number. It has stdio mode,
  where there is a child to end.
* `Relay`: channels of 1 or 2, pipes of 1 and sockets of 1 fill within two
  messages each way, so every send meets a full buffer; two messages are what an
  order, a repetition or a gap needs. A pong timeout of 2 intervals is the least
  that leaves a ping one to be answered in, and `MaxTicks` lets it pass. Kinds of texts that do not matter to a run's question are left out of it.
* `EventIngest`: two events are what a half line behind a whole one, a repetition and
  an order of files need; one fault is a crash, a failing SELECT, INSERT or COMMIT at
  any place; two bridges share one file, and one goes from a file to another. The file
  that two share has lines of one kind; of mixed ones the proofs speak.
* `StoreSync`: two sessions (one before and one during a sync), one execution, with a
  model or without, one fault. Two midnights, so that one
  falls before a request and one during it. `HistoryWindowsNested` is about requests that
  meet one at most, being shorter than a day: a midnight may move a session by a whole
  window, which makes the model harsher than 7 and 30 days, and two would break the nesting. Syncs of two bridges, a sync and a usage request, and a history
  request do not share state beyond these pairs and are three deployments.
* `Startup`: four ports are the CLI's, the two servers' and a spare one that is also
  the last; a configuration differs from a default in one group of options at a time,
  since the steps that read them are apart. Two failed connects and one are told
  apart from the end of the waiting by `WaitPolls = 1`.

Deadlock is not checked where the system comes to rest: connections closed, a relay
returned, a process ended, files, faults and the store at their bound.

### Fairness

* `Bridge`: the runtime polls the handler's task, the sink, the reader task and the
  idle checker, whose interval keeps ticking (`ConnRuns`). `PeersCooperate` says that the
  client reads and that the CLI reads and ends some day, which is not the code's to
  promise; `RelaySilentCli` shows what becomes of it without the latter.
* `Relay`: the runtime polls every spawned task and every branch of the `select!`
  (`BridgeRuns`). That the client reads, that the CLI reads, and that the CLI ends
  are named apart (`ClientKeepsReading`, `CliKeepsReading`, `CliComesToAnEnd`), since
  the code guarantees none of them: the runs differ in which they assume.
* `EventIngest`, `StoreSync`: the refresh tasks loop for ever; faults are bounded. The
  CLI need not write and clients need not ask.
* `Startup`: the runtime runs `main` and the REST API's task. That `--version` ends
  (`ProbeAnswers`) is an assumption about the CLI: `detect_version` has no timeout.
  Nothing else of the CLI is assumed.

## 4. Proofs

`SessionManagerProofs` proves for all constants, from `IdleTimeout \in Nat` and the
bounds being numbers only:

* `TypeCorrect`, `OwnersCorrect`, `WatchCorrect`, `StatusCorrect`, `AnswersCorrect`:
  the five invariants of the run `SessionManager`;
* `DisconnectCorrect`: the action property `DisconnectOnlyIdle`.

None of the invariants is inductive alone. The inductive `IInv` adds that an id
handed out lies in `1..counter` and belongs to one connection (`IdsDrawn`,
`IdsDistinct`: without them an insertion could replace an entry), that a channel
is untouched before its entry exists (`Untouched`), that a session is still
Connecting until its handler makes it Active (`NotYetActive`: otherwise the
Active of a new connection could overwrite a Disconnected), that a scan's clock
is in the past (`ScanInPast`), that readers come after registration
(`ReaderAfterId`: late calls go to an id of their own), and that a verified
request names the id of the connection that owned it (`RequestOwned`: ids are not
given out again, so what is found under it later is the same session). `OwnEntry` is
the key lemma: an entry found under a connection's id is its own. There is one lemma
per action, and `GetMutPreserves` covers the five updates in place at once.

`SessionRefinementProofs` proves `ImplementsLifecycle`: under `IInv` the phase of a
session can be read off its channel, `Register` opens, `remove` removes the owner's
session or nothing, a scan tells a set of live sessions, every other step stutters.

`RelayProofs` proves four of the five invariants of the relay's runs, in both modes, for any
buffers, traffic and keepalive. `IInv` has six parts:

* `Typing`: the types, what a task can hold at each of its awaits (`FramesMatch`) and
  that the first text opens the CLI and only it (`CliState`);
* `Phases`: past the `select!` there is a reason, and the return is last;
* `ChannelInOrder`: the sink ends only behind the last sender and fails only with the
  client, and only a timeout puts a Close into the channel;
* `Farewell`: the last word is in the channel, with the sink or with the client
  (`LastWordBeforeReturn`);
* `Keepalive`: after an interval without a pong, a ping or its answer is somewhere, so
  that an overdue one is held up by something (`OnlySilentClientsDropped`). This needs
  `PongTicks >= 2`, since a timeout that may seem over after one interval leaves a ping
  no time to be answered in; the code's is 15 (`src/ws.rs:16`);
* `CountsAhead`: the counters are ahead of every line the relay and its tasks still hold
  (`CountersNeverBehind`).

`RelayPipeProofs` proves that the relay implements `OrderedPipe` each way. `UpFlow` and
`DownFlow` say that what was delivered, what the tasks hold and what the buffers hold, in
this order, make up what was accepted as long as it can still be delivered. With the channel
closed and the reader task over, `DownFlow` has nothing left to hold but what the client has:
`AnswersBeforeReturn`, the fifth invariant (`ReturnLosesNothing`). The lemmas
about `Kinds` (what it returns of an append, a concatenation, a head and a tail) hold for
every sequence. They are by induction, which is a least counterexample here
(`LeastNatural`), since the library's induction theorems cannot be instantiated.

`BridgeProofs` puts the two together, from the assumptions that there is one connection,
that the tracker's bound is not below the relay's, and that an id or a list of commands
is not `None`:

1. `Base` (types, which calls may be left to make, and that `told` follows the channel)
   is enough for `RelayMeetsTracker`: every step is a step of the relay or a stutter. So
   the relay's invariants and refinements hold in the composition (`RelayPromisesKept`).
2. On top of them, `ConnInv`: the calls still to be made fit what the read branch and the
   reader task hold (`Fits`), the counters of the entry differ from what went by by these
   calls (`PromptCounts`, `MessageCounts`), and an id or list that went by is in the entry
   or about to be (`Listed`). This gives `CountsHold` and `SeenHolds`.
3. The counts bound what a call adds, so every call of the relay is one that the tracker's
   model allows: `TrackerMeetsRelay`. The tracker's theorems are proved of every behaviour
   of `TrackerSpec`, of which the composition's are some.

`Bridge` extends `Relay` for the sake of step 1: the prover takes no theorem of an
instance as a fact.

`EventIngestProofs` proves the four invariants of the run `Ingest`, for any bridges,
finite set of files, events, crashes and failing statements. Each action is first shown to
be one of a few abstract steps, and the invariant is three layers, each kept by these
steps given the ones before it:

* `Outgrown`: one writer; no size in hand and no offset is past its file's end, and one
  that falls inside a character is that of a line noted in `grew` (`IngestPanicsExplained`);
* `AllPassed`: every line before an offset is counted, cut or lost, or is committed along
  with the offset (`IngestMissesExplained`);
* `Once`: what is counted lies before the offset, and what is about to be counted does
  not, as long as no two bridges raced and no statement about the offset failed
  (`IngestRepeatsExplained`).

`StartupProofs` proves all four invariants of the run `Startup`, for any processes,
options and ports. What makes `NothingLeftBehind` (`CliDiesWithBridge`) inductive is that a
process that ended cannot act any more: its REST task and its CLI are gone
(`EndedIsQuiet`), so nothing of it binds a port later (`EndedHoldsNoPort`). The lemmas on
`Released` say that an end takes every port from its process and gives none to another.
`FailureExplained` and `TransportsAgree` rest on a second layer, `Reasons`: a process that
was not started has started nothing (`OffIsQuiet`), a place behind the checks has passed
them (`Vetted`), a port is held by a program of the machine or by somebody who binds it
(`PortsHeld`), and a CLI that listens holds a port its arguments name (`CliOnPort`).
`GaDisagreement` is a fact about the two functions, for every version there can be.

`StoreSyncProofs` proves all five invariants of the run `StoreSync`, for any finite set of
bridges, any store and number of midnights, events and faults:

* `NeverMoreThanStoreCorrect`, from `OfTheStore`: rows in the cache and rows in hand
  are sessions of the store, which never shrinks, and no total in the table without a key
  exceeds it;
* `SyncReplacesAllCorrect`, from `Progress`: while nothing disturbs a sync, the tables
  behind it are complete up to what the store had when it began, and of the table at
  hand what is not in it is in hand (`InHand`); every step of another bridge, failing
  statement and crash takes the claim back, and when the last table is done all four
  are complete (`FreshComplete`);
* `ExecutionsCoverModelUsageCorrect`, from `SoFarOrdered`: the executions by model are no
  more than all executions and those whose INSERT failed, and what has been read of the
  former, by a query that may have failed, is no more than it is by now;
* `HistoryWindowsNestedCorrect`, from `WindowsSoFar`: what was counted in a window is
  still in it, or, after a midnight, in the next one (`WindowsAge`), and a new session is
  in all of them or, without a date, in none (`WindowsGrow`), so a window read later is no
  smaller; the months hold whatever has a date, however old;
* `TypeCorrect`: beside the types, the bounds. That the table with no key never has more
  rows than bridges and faults together needs `TotalsBounded`, which counts along the
  bridges that have cleared the table and not inserted yet (`Filling`); that no number in an
  answer exceeds the bounds needs the theorems above (`ReadsBounded`).

Only model-checked is liveness under fairness (`SessionEnds`, `AnswersDelivered`,
`PromptsForwarded`, `EventuallyCounted`, `CatchesUp`, `StartsOrEnds`), which is out of the
prover's reach.

What the proofs changed in the models: `BadOptions` of `Startup` took the CLI's port
from `--copilot-port`, where a `--port` of its command decides; no listed configuration
told the two apart, and the proof of `FailsWithReason` failed on it; `late` keeps the value it had at the end of
the `select!`; `Kinds` is a recursive function, since no prover expands `SelectSeq`;
`StoreSync` notes the day of a request, since the nesting of the windows depends on the
midnights a request meets, not on how many there ever were.

## 5. Plan

Done: the session tracker, the relay in both modes, their composition, the ingestion
with its faults, the copies of the store and both ways to report it, the command lines
and the startup; proofs of every safety invariant the passing runs check, of the action
properties, and of all refinements. What is left:

1. The tracker's theorems restated for the composition with `T!` names, by `TrackerMeetsRelay`.
2. `AnswersDelivered` and `PromptsForwarded`: the safety half of each, that nothing but a
   timeout or an end drops what is under way, in terms of `UpFlow` and `DownFlow`.

## 6. Not modelled

* `history.rs` but for its statistics: the two listings are one `SELECT` each over a
  database of the CLI. Of the statistics the model keeps the counts in all, by window and
  by month; the other aggregates are the SQL's.
* `list_sessions`, `get_session`, `get_stats` of the REST API: one read under the lock;
  the routers and hyper adapters of `bridge.rs` and `api.rs`: library calls without state
  of their own. The PEM and TLS work of `tls.rs` and the path joins of `paths.rs`: `Startup`
  has only whether they succeed.
* `model_changes` (`src/stats_cache.rs:275`: the model in use is recorded as a change
  again by every refresh that sees an execution, since `last_model` starts as `None`) and
  the time of the last refresh: `get_stats` lists them and no refresh reads them back;
  no document says what a change is across refreshes.
* What a CLI makes of a text that has line breaks inside (`src/acp.rs:76`): a text is one
  line here. JSON-RPC payloads beyond their kind, which the bridge does not change.
* A `created_at` that is neither `NULL` nor a date SQLite can read.
* Log lines and their truncation; wall-clock timestamps kept for display.
