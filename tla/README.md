# Kovert: a TLA+ development

Kovert is a host-security daemon: sensors report what happens on a Linux host,
a policy engine decides which typed actions to run, an executor runs them, and a
SQLite store keeps a hash-chained audit log, an action ledger and a little
durable state. Clients talk to it over a Unix socket.

## 1. The system and its hard parts

| part | source (`src/crates/`) | modules | what is hard |
|---|---|---|---|
| policy engine | `kovert-core/src/engine.rs`, `event.rs`, `config.rs` | `Snapshot`, `Engine`, `Matching`, `PolicyEngine`, `PolicyEngineProofs` | timestamps out of order, sequences and sustained rules across reloads and sensor failures, conflicts between rules |
| audit store | `kovert-daemon/src/audit.rs` | `AuditLog`, `AuditStore`, `AuditStoreProofs` | retention must not break the chain; failures and restarts |
| runtime | `kovert-daemon/src/runtime.rs`, `main.rs`, `config_loader.rs` | `Daemon`, `DaemonProofs` | a crash or a store error between any two durable steps; memory and store disagreeing |
| executor | `kovert-actions/src/*` | `ActionExecutor`, `ActionExecutorProofs` | timeouts, pipes, output limits, children and descendants, processes that come and go |
| control server, client's call | `kovert-daemon/src/server.rs`, `main.rs`, `kovert-cli/src/main.rs` | `ControlService`, `ControlServer`, `ControlServerProofs` | client limit, two timeouts, requests that outlive their client, shutdown |
| polling sensors | `kovert-sensors/src/polling.rs` | `PollingSensor`, `PollingSensorProofs` | differences only, failures on transition, lost cycles, replacement |
| filesystem sensor, hub | `kovert-sensors/src/filesystem.rs`, `lib.rs`, `requirements.rs` | `Requirements`, `SensorHub`, `SensorHubProofs` | coverage of the rules, everyone waiting on everyone during a reload |
| hotkey sensor | `kovert-sensors/src/hotkey.rs` | `HotkeySensor`, `HotkeySensorProofs` | windows and overlaps, a full channel, a device that goes away |
| validation | `kovert-core/src/validation.rs` | `ActionValidation`, `Validation` | what engine, hub and executor rely on |

Events flow sensors -> channel -> runtime (audit record first) -> engine -> plan
-> per action: ledger, audit, executor, ledger, audit, effect. Requests take the
second branch of the same loop. Each `MC...` module instantiates one
specification for TLC; `Daemon` composes engine, ledger and durable state, and
`MCSensorHub` composes hub, validation, requirements and matchers,
`MCActionExecutor` executor and validation.

## 2. Modules

### Policy engine

`Snapshot` has events and `SystemSnapshot::apply`. Fields that one kind of event
overwrites together are one group; `sensor_health` and `services`, which are only
read with a default of false, are the sets of keys mapped to true.

`Engine` has the evaluator as operators on an engine value `[rules, runtime,
snapshot, recovery_mode]`. `Verdict` is the chain of early exits of `handle` for
one rule, `NextRuntime` its writes to the rule's runtime, `Offers` the candidates
it pushes, `resolve_conflicts` the plan. A plan is a set; its order is `Before`
(descending priority, ascending rule identifier, place in the rule's list), which
is the order the two stable sorts of the source produce. `Panics` says when
`steps[sequence_index]` is out of range. The matchers are constant operators, so
that nothing proved depends on them; `Matching` has the ones of the source.

`PolicyEngine` makes a state machine of the calls: `Handle`, `SetRecoveryMode`,
`SetMode`, `ReplaceRules`, in any order and with any timestamps. History
variables record when rules fired and since when their conditions held.

### Audit store

`AuditStore` has the table as a function from identifiers to rows, `append` with
`prune` in one transaction, failed appends, reopening with another limit,
`verify` and `recent`. A hash is a constant operator; the instance makes it
injective. `AuditLog` is what callers rely on: a sequence that grows at one end
and forgets at the other, whose verification succeeds and counts what is kept.

### Daemon

`Daemon` uses the engine's operators. The loop is one actor whose `task` says
where in `process_event`, `execute_plan` or a request it is; every call on the
store is a step of its own, so that a stop or an error can come between any two.
`Stop` takes everything but the store and the file away; `Start` is `main::run`
and `Runtime::new`. `StoreFails` is the `?` of all store calls of a plan.
Sensors, clients and the configuration file are the environment (`Sense`, `Ask`,
`EditFile`). `runs` records executions, `acked` that a client was told that
recovery mode is on. Audit records that no property reads are not kept, nor is
the state key `network_isolated`, which the code writes and never reads. What an
execution does inside is `ActionExecutor`; here it succeeds, fails or, in a dry
run, is rehearsed.

### Executor

`ActionExecutor` is one `ActionExecutor` of `kovert-actions` with the processes
around it. `execute(j)` begins an action; `stage` is the await at which its task
stands. `Program` gives the commands of an action (three for an unlock: search
the keyring, read the key, mount with the key on standard input), `Refused` the
checks before them. `Spawn`, `WriteKey`, `Waited`, `TimesOut`, `Joined` and their
failures are `run_raw_command`; `Read`, `ReadEnds` and `ReadFails` are
`read_limited`, one task per stream, behind pipes of bounded capacity. The child writes and exits
when it likes, or never, and may leave a descendant that holds its output
(`lingering`). `Visit`, `Signal`, `SignalFails`, `ScanFails` and `ScanEnds` are
the walk of `terminate_named_processes`, while processes start, end and change
under it. Lengths stand for output while it is read. When an outcome is made
(`CommandOutcome`), what was captured becomes a sequence of bytes of which only
their kind counts (text, white space, the start or the rest of a sequence that is
not UTF-8), and `from_utf8_lossy` and `trim` make the
reported text of it. A key is shorter than a pipe (the kernel
limits keys to less than that), so writing it does not block.

### Control server

`ControlServer` has clients (`Connect`, `Write`, `Receive`, `GiveUp` of the
command line's `send`), the accepting loop with its permits, one task per
connection (`conn`: the await of `handle_connection` at which it stands), the
control channel, the runtime's control branch (`Take`, `Answer`), and the process
with `prepare_socket`, shutdown and exit. A connection that ends drops its
permit; one that times out drops its oneshot, while its request stays where it
is. Messages are told apart only as the server does: well-formed, malformed or
of another version, too long. What `handle_control` does with a request is
`Daemon`; here it answers `ok` or `error`, when it likes or never.

`ControlService` is what the socket promises: a request is applied at most once,
an answer is the outcome of that very request, a rejected request is never
applied, and silence says nothing.

### Sensors

`PollingSensor` has the host, the poller's `PollState`, the channel and the
engine's snapshot. `Cycle` is `poll_cycle` with any set of inputs unreadable; one
`Report...` operator per shape of input gives the events of a successful probe:
whole values (Wi-Fi, network, power), sets (devices, mounts), names (processes,
services), ports, sessions, files. Where the code walks a B-tree, `ForEach` sends
one event per element in a fixed order. Events are sent one at a time and wait for
room. `CycleLost` is the abnormal end of the blocking task, `Reload` the
replacement of the poller; the aborted one may still send the rest of its batch
(`RetiredSend`), since a running task is only cancelled when it next waits. A
source of a mount is not kept, because the snapshot holds paths only.
`ReceiveFails` is an event that the store cannot record: the runtime drops it
before the engine has seen it. `gaps` remembers whether something was dropped
(`"lost"`) or sent late by an aborted poller (`"late"`).

Three limits of the code appear in its properties. After a reload mounts that went
away are not removed, so `SnapshotMirrors` and `Converges` speak of mounts only
until the poller is replaced. Once an aborted poller has sent something late or an
event was dropped they claim nothing, because a difference is reported once;
`TamperNoticed` excuses a dropped event only. A probe that works again with the value it had sends no
event, so the snapshot goes on showing the sensor as failed: there is no converse
of `FailuresShow`.

`Requirements` has `SensorRequirements::from_config` and, as the reference it is
compared with, `Wants`: the events at which some trigger of a rule matches or
some condition changes, according to `Matching`. `Misses` says which of them are
known not to be asked for (section 3).

`SensorHub` numbers the starts of the hub. Of each it has the watches added so
far, the backlog of the library's event loop, the event its callback is sending
and the probes of its polling task. `load` is `config_loader::load`: a file is
accepted or not. `Begin` to `StartSucceeds` is
`SensorHub::start`, called by `main` or, in a reload, by the runtime, which
receives no events meanwhile. The event loop of `notify` both serves `watch` and
runs the callback, one at a time; that is how the inotify backend works, and the
one fact about the library the model rests on.

`HotkeySensor` is one hotkey task: the queue of the device, the trimmed buffer,
the blocking send, the failure of the device, and `Abort`, by which a reload ends
the task wherever it waits. `KeyTable` is `key_code` in
runs of consecutive codes, and `KeyNamesAgree` compares it with the names that
validation accepts. Presses are dated when the task reads them, as in the code.

### Validation

`Validation` is `validate_config` as a predicate; the part about actions and
vaults, which needs no recursion, is `ActionValidation`, so that proofs can use
it. Names, keys, units, digests are members of given sets (`Text`) in place of
their character patterns. `Validation` decides
which configurations the instances of hub and executor run with, so that what
those modules rely on is what validation gives.

## 3. Runs

| run | instance | shows |
|---|---|---|
| `policy_engine` | three configurations: a sequence with cooldown and a sustained fail-closed rule that compete for a vault; the latter with a once-per-boot rule; that rule changed. Four timestamps in any order, two sensors and a failure | `RecoverySuspends`, `NoPanic`, `PlanConflictFree`, `FailureRestricted`, `SustainHonoured`, `FiresOnce`, `HighestPriorityWins`, `CooldownSpacing` |
| `audit_store` | two contents, limits 0 to 3, five appends | `ChainVerifies`, `DamageDetected`, refinement of `AuditLog`, which includes that no more than the limit is kept |
| `daemon` | a live configuration and a dry run with a shorter sequence, two sensor events, two requests of any kind, one store failure or one stop | `AuditFirst`, `NeverRepeated`, `LedgerHonest`, `StateSurvives`, `RecoveryHolds`, `DryRunInert`, `Drains` |
| `control_server` | two clients, one permit, a channel of one, two stops | `PermitsConserved`; refinement of `ControlService`; `PermitsReturn`, `ShutdownEnds` |
| `executor` | the actions of configurations that validate, out of a list that also has ones that do not; two processes, output limit 2, pipe 2, output up to 4 | `SuccessHonest`, `NoChildLeft`, `OutputHonest`, `RefusedOnlyForKey`, `TerminateComplete`, `Returns` |
| `polling` | mounts, ports, sessions and the two watched files; three disturbances (changes, failed reads, lost cycles, dropped events, reloads), a channel of one | `TypeOK`, `SnapshotMirrors`, `FailuresShow`, `ProbeFailureOnce`, `Converges`, `TamperNoticed` |
| `sensor_hub` | configurations with one watched tree; with a hotkey and two watched paths, on one of which two rules differ about `recursive`; with no watch and a condition on the health of a sensor it does not otherwise use; and two that do not validate; two starts, two file events, a channel of one | `TypeOK`, `NeverBlind`, `Delivered`, `OnePathStarts` |
| `hotkey` | two keys of which one comes twice in the sequence, window 1, six presses, a channel of one | `FiresExactly`, `EventsArrive` |

`TypeOK` of the other modules, `RetentionHonoured` of the audit store and
`EventsKept` of the hub are proved (section 4) and not repeated in the runs.

Four runs refute what the repository says of itself:

- `sequence_reload`: a reload that shortens a sequence keeps the rule's
  progress; the next event indexes past the steps and `handle` panics.
- `mode_revival`: a stored mode that the configuration at start does not know
  stays stored; once a reload knows it again, a restart enters it.
- `stale_mount`: a poller started by a reload reports no removals in its first
  cycle, so a mount that went away just before stays in the snapshot.
- `reload_blocks`: while the runtime waits for the new file watcher, the callback
  for a path that is already watched waits for room in the full event channel,
  and the event loop that runs it cannot add the next path. The reload never
  returns. `OnePathStarts` shows that one path alone is safe.

Behaviours met while modelling that no run is about, because the code is clear and
the models simply have them:

- an armed rule skips its condition at the event that reports the failure of its
  sensor (`engine.rs:132`), so a condition need not have "remained true";
- the audit record of a reload is appended last (`runtime.rs:350`), and its failure
  is answered as a failed reload while the new configuration is active;
- an unreadable watched file is reported in every cycle (`polling.rs:698`), not only
  on the transition;
- when two rules watch one path the flag `recursive` of the later one counts
  (`requirements.rs:40`), and files deep below the path go unreported if that is
  the one without;
- `sensor_healthy` is accepted for every sensor (`validation.rs:312`), but for
  `filesystem`, `processes`, `services` and `ports` nothing is collected
  (`requirements.rs:116`), because there is no path, name or port to look at. If no
  other rule uses the sensor, the condition stays at its default for ever;
- the instance of `sensor_hub` has configurations with both, and `NeverBlind`
  excepts the events that only they miss (`Misses` in `Requirements`, the constant
  `Missed`) and no others: without the exception TLC refutes it;
- of a command's output at most the limit is captured, but the text that is reported
  has three bytes for each that is not UTF-8 (`command.rs:53`), so it can be three
  times as long; and white space at its ends is dropped without a mark;
- an action that was `started` when the process stopped stays so: nothing looks at
  such ledger entries after a restart (`runtime.rs:160`);
- a device that cannot be opened at start is reported with `try_send`
  (`lib.rs:46`), so with a full channel nobody hears of it; `EventsArrive` is about
  devices that fail later;
- a command's output is read to its end without a time limit (`command.rs:140`), so
  a descendant that keeps it open keeps the daemon waiting. Without its premise
  that descendants end, `Returns` is refuted by that behaviour.

Bounds. The engine run is complete for its timestamps and kinds: three values
above the first exceed every window, cooldown and sustain time used, and the
state space is finite without a bound on the number of calls. Five appends exceed
the largest limit by two. In the daemon, one stop or failure lands between every
two steps of a plan of two actions; more of them repeat the same state, since a
stop leaves only the store and a failure only ends the task. For the poller,
three disturbances allow a failure, a change while or after it and a second
failure of one input, or a change around a reload with one failed read; a channel
of one makes every batch of two events wait. Wi-Fi, network, power, devices,
processes and services are in the model but not in that run: they are reported by
the simpler or the same operators. Two clients and one permit give a refused
client, a full channel and a client that leaves while the other is served; the
proofs cover any number. `executor` has output below, at and beyond its limit,
a pipe that fills, and captured output of two bytes of any kinds, so that
replacing and trimming can meet; two processes are one that stays and one that comes or
goes under the walk. Two starts of the hub are boot and one reload, in either
order of configurations; two file events fill the channel and block the callback.
Six presses hold two sequences that share a key.

`control_server` does not check for deadlock: after its last stop, with all
clients gone, nothing is left to do. All other passing runs do.

Fairness. What the code's own tasks can do, they eventually do: the daemon's loop
(`run`), the polling task, the receiving loop, the tasks of connections, the
executor's task with its readers, the hub's threads; timers go off. In `daemon`
the loop's progress rests on actions that return (`Returns`) and reloads that do
(see `reload_blocks`). Senders on a full channel are strongly fair, because
tokio's channel serves waiting senders in turn. Nothing is assumed of the host,
clients, children, descendants, read errors, store failures, stops, reload
requests or other senders. `ShutdownEnds` has as premise that no request is handled for ever,
`Returns` that descendants end, `Delivered` that the runtime comes back to its
loop.

## 4. Proofs

Every theorem holds for all values of the constants that satisfy the named
assumptions (`TimeAssumption`, `ConfigAssumption`, `FiniteAssumption`,
`KindAssumption`, `LimitAssumption`, `DaemonAssumption`, `ServerAssumption`,
`ExecutorAssumption`, `HotkeyAssumption`, `HubAssumption`, `InputAssumption`,
`ValueAssumption`, `BoundAssumption`), which are what validation and types give;
TLC evaluates them on the runs. Six theorems need more and say so in their
statement; those hypotheses are explained below.

`PolicyEngineProofs`
- `TypeCorrect`: one lemma per operation of the engine, then one step per action.
- `ConflictFree`, `FailureContained`, `RecoverySafe`: from the definition of the
  plan and the type invariant.
- `PriorityDecides`: a rule's offers are finite in number (`FiniteAssumption`), and
  of a finite set of candidates with one key the first by `Before` is planned. It
  has at least the priority of the others.
- `SustainSafe`: not inductive alone. `ArmedHeld` adds that an armed rule's
  condition has been seen to hold since no later than `armed_at`.
- `OnceSafe`: `FiredKnown` adds that a rule that has fired has `fired_once`.
- `CooldownSafe`, for configurations that agree on cooldowns: `LatestFiring` adds
  that with a cooldown `last_fired` is the latest firing, although timestamps may
  run backwards, because an earlier timestamp counts as no elapsed time.
- `SequenceSafe`, for configurations that agree on the steps of sequences:
  `SequenceInRange` keeps the progress below the number of steps. The assumption
  is needed: `sequence_reload` is what happens without it.

`AuditStoreProofs`
- `ChainSafe`, `RetentionSafe`: `TypeOK` says that identifiers form an interval,
  so the row deleted last is the one before the first row kept, and its hash is
  the anchor.
- `StoreIsLog`: every step of the store is one of `AuditLog` under the mapping
  `Log`, for any hash function. The lemmas say what appending and pruning do to the
  records in order (`Window`, `Slides`).
- `DamageNoticed` and `UniqueNeverRejects`, for a hash function without collisions
  on the digests it produces (`CollisionFree`; that of the instance is one, that
  blake3 is one is the usual assumption). `History`: the table is a window on one
  chain of digests from the genesis hash. The digests of a chain are all different,
  so a row that was altered or moved does not fit its neighbours. Without the
  hypothesis a changed row could have the digest of the old one.

`DaemonProofs`, for any configurations, matchers and number of failures and stops
- `Invariance` is the inductive invariant. `QueueFits`: an event that waits has a
  timestamp of its own and was never recorded. `PlanFits`: how far the first
  action of the plan is, and what ledger, trail and executions hold at that
  point. `Settled`: an execution that did not fail is in the ledger, is about to
  be, or belongs to an event that is over, which is what a crash or a store error
  leaves behind. `RecoveryFits`: a confirmed recovery mode is in the store and in
  the engine, and no plan is under way.
- `RecordedBeforeRun`, `ExactlyOnce`, `LedgerIsHonest` are conjuncts of it.
- `RestartResumes`, for configurations that know the same modes (`SameModes`): the
  store holds what the engine was last told or started with (`Stored`), until a
  store call fails. Without the hypothesis a reload leaves a stored mode that the
  running configuration does not know, which is where `mode_revival` starts.
- `RecoveryIsKept`: with recovery mode on the engine plans nothing, so no step
  reaches ledger or executions. `DryRunIsInert`: the executor's copy of `dry_run`
  is the configuration's (part of `TypeOK`).

`ControlServerProofs`, for any finite set of clients
- `Fits` says for one client what its connection, its place in the channel, the
  response and what it was told have to do with each other; `Orderly` that a
  request is in the channel once and that the one handled has left it.
- `PermitsSafe`: every step moves a permit and a connection together.
- `ServerRefinesService`: initial states map to initial states; every step is one
  of the service or leaves its variables alone, by the invariant. `Called` and
  `Told` are the refinement mapping.

`ActionExecutorProofs`, for any jobs, limits and number of processes
- `StreamFits`: what was written was read or is in the pipe, and a reader is done
  at its limit or at the end of the output. `ChildFits`: a child runs only while
  it is attended, and the commands before it succeeded. `WalkFits`: the processes
  up to the cursor that kept the name are signalled, or are just being.
- `SuccessIsHonest`, `OutputIsHonest`, `TerminateIsComplete`, `ChildrenEnd` follow.
  `OutputIsHonest` also needs what the conversion of any captured bytes gives
  (`ConversionHonest`).
- `AcceptedIsExecutable`: if every job has an action that `validate_action` accepts
  for a configuration with valid vaults, in the context that `executor_for` makes
  of it (`Accepted`), and both modules use the same texts (`Matches = Text`, as the
  two crates use the same patterns) and the same value for a missing option
  (`Nothing = None`), then each check of `Refused` follows from one of validation,
  and the allowlist from the command found in it. The instance takes its jobs from
  such configurations.

`HotkeySensorProofs`, for any sequence, window and number of presses
- `BufferFits` is what `FiresExactly` needs: the buffer is the end of what was read,
  without keys of a match, and it cannot be longer, because the press before it
  belongs to a match, is too old or is one too many. `TrimFacts` says what trimming
  keeps, `EntriesFacts` that the trimmed buffer is the sequence exactly when the
  last keys complete it. One direction uses that keys are dated in order: a key
  dropped for its age takes with it only keys that are older.

`SensorHubProofs`, for any configurations, capacity and number of starts
- `HubInv`: starts follow one another; each has of the watches and probes it was
  asked for what it has come to; the one that the runtime holds is complete and
  belongs to the configuration in force. A start that failed or is under way
  changes nothing of that one.
- `RuntimeIsServed`: so the configuration in force has every watch and probe that
  was derived from its rules. Whether these cover what the rules react to is a
  question about `from_config` and the matchers, which are recursive, hence
  compared by TLC on the instance: `NeverBlind` combines both.
- `EventsNeverLost`: each event of a file that the current providers watch is in
  the backlog, in the callback, in the channel or received. `FlowInv` follows it
  along; that it gets to the end is liveness (`Delivered`).

`PollingSensorProofs`, for any required inputs, any states of them, any capacity
and any number of disturbances
- The snapshot is a collection of cells: four values, and whether a path is
  mounted, a name runs, a port is open, a sensor is healthy. `Gives` says to which
  value a sequence of events takes a cell: its last write, or what the snapshot
  has. `Claimed` says which values the poller's state stands for.
- `PollInv`: for every cell that the poller claims, the events in the channel
  followed by those still to be sent give the claimed value, until an aborted
  poller has sent something late or an event was dropped. It is inductive: sending and receiving move an
  event without changing the sequence applied to the snapshot, a new `PollState`
  claims next to nothing, and a cycle takes what the old state claims to what the
  new one claims (`CycleDoes`).
- `CycleDoes` is put together from one lemma per shape of report, which says that
  the events of an input write its cells as needed and no others; an unchanged
  cell needs no event because it was claimed before.
- `DifferencesSuffice` and `FailureStaysVisible` are `PollInv` with nothing on its
  way. `FailureReportedOnce` uses that a sensor that was down is in `failed`.

Only model-checked:
- liveness (`Drains`, `PermitsReturn`, `ShutdownEnds`, `Returns`, `Delivered`,
  `OnePathStarts`, `EventsArrive`, `Converges`, `TamperNoticed`), which this prover
  does not do;
- what the recursive operators compute: nested triggers and conditions in
  `Validation`, `Requirements` and `Matching`, and with them `NeverBlind`.

## 5. Not modelled

- How probes obtain a value: the parsing of `/proc`, `/sys` and the output of
  tools in `polling.rs`. A probe yields the host's value or fails.
- What commands do on the host, and what `capture_metadata` writes: it succeeds
  or fails.
- The patterns of names in validation, and all error messages.
- The mapping of file operations from `notify`'s kinds, and the library itself
  apart from its event loop. The kernel's queue of inotify events is taken to be
  unbounded: when it overflows the library reports an event without paths, for
  which the callback sends nothing, so `Delivered` says nothing of that case.
- The end of the tokio runtime, which waits for a `poll_cycle` that is still running
  in its blocking task (`polling.rs:90`): `ShutdownEnds` takes for granted that a
  cycle ends.
- Permissions and ownership of files and sockets; `prepare_socket` is modelled by
  what happens to the socket file. Two daemons on one socket path.
- Arguments, prompts, output and offline commands of the command-line client.
- Parsing and formatting of configuration, requests and records; log output. The
  blake3 digest is taken to be injective.
