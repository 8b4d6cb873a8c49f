-------------------------------- MODULE Daemon --------------------------------
(* The daemon around the policy engine (kovert-daemon/src/runtime.rs with the  *)
(* ledger and the key-value state of audit.rs, the executor of kovert-actions, *)
(* the loader and main.rs): one loop that takes events from the sensors' queue *)
(* and requests from the control channel, with a store that may refuse a call  *)
(* and a process that may stop between any two of its durable steps.           *)
(*                                                                             *)
(* The audit records kept are those of events and action starts; of the others *)
(* only that appending them may fail matters here (AuditStore has the table).  *)
(* The hash of an action is the action.  An event's id is its timestamp.       *)
EXTENDS Engine

CONSTANTS File,         \* what the configuration file may hold: configurations
          Invalid,      \* or something load refuses
          SensedKind,   \* what sensors report: <<source, kind>>
          Request,      \* control requests
          EventBuffer,  \* capacity of the event channel
          MaxSensed,    \* bounds: how often sensors report, clients ask, and
          MaxRequests,  \* the store fails or the process stops
          MaxDisturbances

ASSUME DaemonAssumption ==
  /\ EventBuffer \in Nat
  /\ \A kind \in SensedKind : kind[2].type \in EventTypes
  /\ \A r \in Request : r.type = "recovery" => r.enabled \in BOOLEAN

VARIABLES up,        \* the process runs
          config, engine, executor,     \* fields of Runtime, None when down
          queue,     \* the event channel
          control,   \* the control channel
          task,      \* what the loop is in the middle of, None in select!
          file,      \* the configuration file
          state,     \* the durable key-value state
          ledger,    \* the durable action ledger: keys to statuses
          audit,     \* durable audit records
          runs,      \* history: executions, oldest first
          acked,     \* history: recovery mode was confirmed to a client and no
                     \* client has asked to leave it
          answer,    \* the last response
          clock, sensed, asked, faults, stops    \* time and the bounds' counters

volatile == <<up, config, engine, executor, queue, control, task>>
durable == <<state, ledger, audit>>
history == <<runs, acked, answer>>
counters == <<clock, sensed, asked, faults, stops>>
vars == <<volatile, file, durable, history, counters>>

-------------------------------------------------------------------------------
(* Runtime::new and the configuration.  modes is a sequence of records.        *)
ModeNames(c) == {c.modes[i].name : i \in DOMAIN c.modes}

configured_mode(c) ==
  LET marked == {i \in DOMAIN c.modes : c.modes[i].initial}
  IN IF c.modes = <<>> THEN "normal"
     ELSE IF marked = {} THEN c.modes[1].name
     ELSE c.modes[CHOOSE i \in marked : \A j \in marked : i <= j].name

initial_mode(c, stored) ==
  IF stored # None /\ (c.modes = <<>> \/ stored \in ModeNames(c))
  THEN stored ELSE configured_mode(c)

executor_for(c) == [dry_run |-> c.dry_run]

Booted(c) ==
  set_recovery_mode(NewEngine(c.rules, clock, initial_mode(c, state.mode)),
                    state.recovery_mode)

Event(kind, t) == [timestamp |-> t, source |-> kind[1], kind |-> kind[2]]

-------------------------------------------------------------------------------
(* The process.                                                                *)
Down ==
  /\ up' = FALSE
  /\ config' = None /\ engine' = None /\ executor' = None /\ task' = None
  /\ queue' = <<>> /\ control' = <<>>

Init ==
  /\ file \in File
  /\ up = FALSE /\ config = None /\ engine = None /\ executor = None /\ task = None
  /\ queue = <<>> /\ control = <<>>
  /\ state = [mode |-> None, recovery_mode |-> FALSE]
  /\ ledger = <<>> /\ audit = {}
  /\ runs = <<>> /\ acked = FALSE /\ answer = None
  /\ clock = 0 /\ sensed = 0 /\ asked = 0 /\ faults = 0 /\ stops = 0

(* main loads the file, opens the store, and run records the start.            *)
Start ==
  /\ ~up /\ file # Invalid
  /\ up' = TRUE /\ config' = file /\ engine' = Booted(file)
  /\ executor' = executor_for(file)
  /\ UNCHANGED <<queue, control, task, file, durable, history, counters>>

(* A crash, a kill, the server's end (main aborts the runtime) or, in select!, *)
(* a shutdown.  The channels go with the process.                              *)
Stop ==
  /\ up /\ faults + stops < MaxDisturbances /\ stops' = stops + 1
  /\ Down
  /\ UNCHANGED <<file, durable, history, clock, sensed, asked, faults>>

EditFile ==
  /\ file' \in File \cup {Invalid}
  /\ UNCHANGED <<volatile, durable, history, counters>>

(* A sensor reports; a full channel makes it wait.                             *)
Sense(kind) ==
  /\ up /\ Len(queue) < EventBuffer /\ sensed < MaxSensed
  /\ sensed' = sensed + 1 /\ clock' = clock + 1
  /\ queue' = Append(queue, Event(kind, clock'))
  /\ UNCHANGED <<up, config, engine, executor, control, task, file, durable, history,
                 asked, faults, stops>>

Ask(r) ==
  /\ up /\ asked < MaxRequests
  /\ asked' = asked + 1
  /\ control' = Append(control, r)
  /\ UNCHANGED <<up, config, engine, executor, queue, task, file, durable, history,
                 clock, sensed, faults, stops>>

-------------------------------------------------------------------------------
(* The work of the loop.  A task is the rest of process_event, with the plan's *)
(* actions still to do, or the rest of a request; request is None for an event *)
(* that came through the queue.  The phases name what comes next:              *)
(*   check -> record_action "started" -> audit action_started -> execute       *)
(*   -> record_action outcome -> audit outcome -> apply_effect -> next action. *)
Idle == up /\ task = None

Reply(r, ok) == answer' = IF r = None THEN answer ELSE [request |-> r, ok |-> ok]

First(todo) == CHOOSE c \in todo : \A d \in todo \ {c} : Before(c, d)
Current == First(task.todo)
Key == <<task.event.timestamp, Current.rule_id, Current.action>>

Phase(p) == up /\ task # None /\ task.phase = p

Goto(p) == task' = [task EXCEPT !.phase = p]

(* On to the next action of the plan, or out of process_event.                 *)
Proceed(t) ==
  IF t.todo = {} THEN task' = None /\ Reply(t.request, TRUE)
  ELSE task' = t /\ UNCHANGED answer

NextAction == Proceed([task EXCEPT !.todo = @ \ {Current}, !.phase = "check"])

(* The event is recorded before the engine sees it; if that fails the engine   *)
(* never does.  A panic of handle ends the runtime task and so the daemon.     *)
process_event(e, r) ==
  /\ ~Panics(engine, e)
  /\ audit' = audit \cup {<<"event", e.timestamp>>}
  /\ engine' = handle(engine, e)
  /\ Proceed([event |-> e, todo |-> Plan(engine, e), phase |-> "check",
              outcome |-> None, request |-> r])
  /\ UNCHANGED <<up, config, executor, file, state, ledger, runs, acked,
                 sensed, asked, faults, stops>>

process_event_fails(r) ==
  /\ faults + stops < MaxDisturbances /\ faults' = faults + 1
  /\ Reply(r, FALSE)
  /\ UNCHANGED <<up, config, engine, executor, task, file, durable, runs, acked,
                 sensed, asked, stops>>

process_event_panics(e) ==
  /\ Panics(engine, e)
  /\ audit' = audit \cup {<<"event", e.timestamp>>}
  /\ Down
  /\ UNCHANGED <<file, state, ledger, history, sensed, asked, faults, stops>>

ReceiveEvent ==
  /\ Idle /\ queue # <<>>
  /\ \/ process_event(Head(queue), None) /\ queue' = Tail(queue) /\ UNCHANGED control
     \/ process_event_fails(None) /\ queue' = Tail(queue) /\ UNCHANGED control
     \/ process_event_panics(Head(queue))
  /\ UNCHANGED clock

-------------------------------------------------------------------------------
(* execute_plan                                                                *)
(* The ledger is not consulted.                                                *)
action_completedMutant(key) == FALSE

action_completed(key) == key \in DOMAIN ledger /\ ledger[key] = "succeeded"

record_action(status) ==
  ledger' = [k \in DOMAIN ledger \cup {Key} |-> IF k = Key THEN status ELSE ledger[k]]

(* What one more step of the loop leaves alone besides the store.              *)
Elsewhere == <<up, config, executor, queue, control, file, acked, counters>>

(* The completed action stays first in the plan.                               *)
SkipCompletedMutant ==
  /\ Phase("check") /\ action_completed(Key)
  /\ UNCHANGED vars

SkipCompleted ==
  /\ Phase("check") /\ action_completed(Key)
  /\ NextAction
  /\ UNCHANGED <<Elsewhere, engine, durable, runs>>

(* The action runs before its start is recorded in the audit table.            *)
RecordStartedMutant ==
  /\ Phase("check") /\ ~action_completed(Key)
  /\ record_action("started")
  /\ Goto("execute")
  /\ UNCHANGED <<Elsewhere, engine, state, audit, runs, answer>>

RecordStarted ==
  /\ Phase("check") /\ ~action_completed(Key)
  /\ record_action("started")
  /\ Goto("started")
  /\ UNCHANGED <<Elsewhere, engine, state, audit, runs, answer>>

AuditStarted ==
  /\ Phase("started")
  /\ audit' = audit \cup {<<"action_started", Key>>}
  /\ Goto("execute")
  /\ UNCHANGED <<Elsewhere, engine, state, ledger, runs, answer>>

(* Actions without a command run also in a dry run.                            *)
OutcomesMutant(action, context) ==
  IF action.type = "set_mode" THEN {"succeeded"}
  ELSE IF context.dry_run THEN {"rehearsed"}
  ELSE {"succeeded", "failed"}

(* Actions that only produce an effect cannot fail; an error is an outcome     *)
(* like a failure.                                                             *)
Outcomes(action, context) ==
  IF context.dry_run THEN {"rehearsed"}
  ELSE IF action.type = "set_mode" THEN {"succeeded"}
  ELSE {"succeeded", "failed"}

execute ==
  /\ Phase("execute")
  /\ \E outcome \in Outcomes(Current.action, executor) :
       /\ runs' = Append(runs, [key |-> Key, outcome |-> outcome])
       /\ task' = [task EXCEPT !.phase = "executed", !.outcome = outcome]
  /\ UNCHANGED <<Elsewhere, engine, durable, answer>>

(* Whatever the outcome, the ledger says that the action succeeded.            *)
RecordOutcomeMutant ==
  /\ Phase("executed")
  /\ record_action("succeeded")
  /\ Goto("recorded")
  /\ UNCHANGED <<Elsewhere, engine, state, audit, runs, answer>>

RecordOutcome ==
  /\ Phase("executed")
  /\ record_action(IF task.outcome = "failed" THEN "failed" ELSE "succeeded")
  /\ Goto("recorded")
  /\ UNCHANGED <<Elsewhere, engine, state, audit, runs, answer>>

HasEffect(action) == action.type \in {"set_mode", "network_isolation"}

AuditOutcome ==
  /\ Phase("recorded")
  /\ IF task.outcome = "succeeded" /\ HasEffect(Current.action)
     THEN Goto("effect") /\ UNCHANGED answer
     ELSE NextAction
  /\ UNCHANGED <<Elsewhere, engine, durable, runs>>

(* The new mode is not written to the store.                                   *)
apply_effectMutant ==
  /\ Phase("effect")
  /\ IF Current.action.type = "set_mode"
     THEN engine' = set_mode(engine, Current.action.target)
     ELSE UNCHANGED engine
  /\ NextAction
  /\ UNCHANGED <<Elsewhere, state, ledger, audit, runs>>

(* The state key network_isolated is written and never read: it is left out.   *)
apply_effect ==
  /\ Phase("effect")
  /\ IF Current.action.type = "set_mode"
     THEN /\ engine' = set_mode(engine, Current.action.target)
          /\ state' = [state EXCEPT !.mode = Current.action.target]
     ELSE UNCHANGED <<engine, state>>
  /\ NextAction
  /\ UNCHANGED <<Elsewhere, ledger, audit, runs>>

(* A call on the store returns an error: the rest of the plan is given up.  In *)
(* apply_effect the engine has changed by then.                                *)
StoreFails ==
  /\ up /\ task # None /\ task.phase # "execute"
  /\ faults + stops < MaxDisturbances /\ faults' = faults + 1
  /\ engine' = IF task.phase = "effect" /\ Current.action.type = "set_mode"
               THEN set_mode(engine, Current.action.target) ELSE engine
  /\ task' = None
  /\ Reply(task.request, FALSE)
  /\ UNCHANGED <<up, config, executor, queue, control, file, durable, runs, acked,
                 clock, sensed, asked, stops>>

-------------------------------------------------------------------------------
(* Requests (handle_control_result).  SetMode and Recovery change the engine,  *)
(* then the state, then append a record: phase "append".                       *)
Handles(type) == Idle /\ control # <<>> /\ Head(control).type = type

AppendRecord(r) ==
  [event |-> None, todo |-> {}, phase |-> "append", outcome |-> None, request |-> r]

(* What a request other than a trigger leaves alone.                           *)
Rest == <<up, queue, file, ledger, audit, runs, clock, sensed, asked, stops>>

Trigger ==
  LET r == Head(control)
      e == Event(<<"manual", [type |-> "manual", name |-> r.name]>>, clock')
  IN /\ Handles("trigger")
     /\ clock' = clock + 1
     /\ \/ process_event(e, r) /\ control' = Tail(control) /\ UNCHANGED queue
        \/ process_event_fails(r) /\ control' = Tail(control) /\ UNCHANGED queue
        \/ process_event_panics(e)

SetMode ==
  LET r == Head(control)
      known == r.mode \in ModeNames(config)
  IN /\ Handles("set_mode")
     /\ control' = Tail(control)
     /\ engine' = IF known THEN set_mode(engine, r.mode) ELSE engine
     /\ \/ /\ ~known
           /\ Reply(r, FALSE) /\ UNCHANGED <<state, task, faults>>
        \/ /\ known
           /\ state' = [state EXCEPT !.mode = r.mode]
           /\ task' = AppendRecord(r) /\ UNCHANGED <<answer, faults>>
        \/ /\ known /\ faults + stops < MaxDisturbances /\ faults' = faults + 1
           /\ Reply(r, FALSE) /\ UNCHANGED <<state, task>>
     /\ UNCHANGED <<Rest, config, executor, acked>>

(* The flag is not written to the store.                                       *)
RecoveryMutant ==
  LET r == Head(control)
  IN /\ Handles("recovery")
     /\ control' = Tail(control)
     /\ engine' = set_recovery_mode(engine, r.enabled)
     /\ acked' = (acked /\ r.enabled)
     /\ task' = AppendRecord(r)
     /\ UNCHANGED <<Rest, config, executor, state, answer, faults>>

Recovery ==
  LET r == Head(control)
  IN /\ Handles("recovery")
     /\ control' = Tail(control)
     /\ engine' = set_recovery_mode(engine, r.enabled)
     /\ acked' = (acked /\ r.enabled)
     /\ \/ /\ state' = [state EXCEPT !.recovery_mode = r.enabled]
           /\ task' = AppendRecord(r) /\ UNCHANGED <<answer, faults>>
        \/ /\ faults + stops < MaxDisturbances /\ faults' = faults + 1
           /\ Reply(r, FALSE) /\ UNCHANGED <<state, task>>
     /\ UNCHANGED <<Rest, config, executor>>

Confirm ==
  /\ Phase("append")
  /\ Reply(task.request, TRUE)
  /\ acked' = (acked \/ (task.request.type = "recovery" /\ task.request.enabled))
  /\ task' = None
  /\ UNCHANGED <<Rest, control, config, engine, executor, state, faults>>

(* A file that does not load, or sensors that do not start, change nothing; a  *)
(* record that cannot be appended is an error after everything was replaced.   *)
Reload ==
  LET r == Head(control)
  IN /\ Handles("reload")
     /\ control' = Tail(control)
     /\ \/ /\ Reply(r, FALSE)
           /\ UNCHANGED <<config, engine, executor, faults>>
        \/ /\ file # Invalid
           /\ engine' = replace_rules(engine, file.rules)
           /\ executor' = executor_for(file)
           /\ config' = file
           /\ \/ Reply(r, TRUE) /\ UNCHANGED faults
              \/ faults + stops < MaxDisturbances /\ faults' = faults + 1 /\ Reply(r, FALSE)
     /\ UNCHANGED <<Rest, task, state, acked>>

(* Simulate runs handle on a copy of the engine.  Status, Rules, Audit and     *)
(* VerifyAudit only read.                                                      *)
Simulate ==
  /\ Handles("simulate")
  /\ IF Panics(engine, Event(Head(control).kind, clock))
     THEN Down /\ UNCHANGED answer
     ELSE /\ control' = Tail(control) /\ Reply(Head(control), TRUE)
          /\ UNCHANGED <<up, config, engine, executor, queue, task>>
  /\ UNCHANGED <<file, durable, runs, acked, counters>>

Read ==
  /\ Handles("read")
  /\ control' = Tail(control)
  /\ \E ok \in BOOLEAN : Reply(Head(control), ok)
  /\ UNCHANGED <<Rest, config, engine, executor, task, state, acked, faults>>

-------------------------------------------------------------------------------
execute_plan ==
  \/ SkipCompleted \/ RecordStarted \/ AuditStarted \/ execute
  \/ RecordOutcome \/ AuditOutcome \/ apply_effect

handle_control == Trigger \/ SetMode \/ Recovery \/ Confirm \/ Reload \/ Simulate \/ Read

run == ReceiveEvent \/ execute_plan \/ StoreFails \/ handle_control

Next ==
  \/ Start \/ Stop \/ EditFile \/ run
  \/ \E kind \in SensedKind : Sense(kind)
  \/ \E r \in Request : Ask(r)

(* The loop goes on as long as it has something to do: actions come back       *)
(* (Returns of ActionExecutor), reloads do (SensorHub says when), and select!  *)
(* serves every branch that is ready.  Nothing is assumed of clients, sensors, *)
(* the store or the process's end.                                             *)
Spec == Init /\ [][Next]_vars /\ WF_vars(run)
-------------------------------------------------------------------------------
Phases == {"check", "started", "execute", "executed", "recorded", "effect", "append"}

(* The engine and the executor are those of the configuration that runs, so a  *)
(* reload replaces all of it or nothing; a stopped process holds nothing; a    *)
(* task in a plan has an action to do; the channel keeps to its capacity.      *)
TypeOK ==
  /\ up => config \in File /\ engine.rules = config.rules /\ executor = executor_for(config)
  /\ ~up => /\ config = None /\ engine = None /\ executor = None /\ task = None
            /\ queue = <<>> /\ control = <<>>
  /\ Len(queue) <= EventBuffer
  /\ file \in File \cup {Invalid}
  /\ task # None => /\ task.phase \in Phases
                    /\ task.phase # "append" <=> task.todo # {}
  /\ \A k \in DOMAIN ledger : ledger[k] \in {"started", "succeeded", "failed"}
  /\ state.recovery_mode \in BOOLEAN

(* execute_plan: whatever fails and wherever the process stops, an action runs *)
(* only once its event, its ledger entry and its start are in the store.       *)
AuditFirst ==
  \A i \in DOMAIN runs :
    LET key == runs[i].key
    IN /\ <<"event", key[1]>> \in audit
       /\ key \in DOMAIN ledger
       /\ <<"action_started", key>> \in audit

(* action_completed: an action of a rule for an event that has succeeded, or   *)
(* has been rehearsed, does not run again for that event.                      *)
NeverRepeated ==
  \A i, j \in DOMAIN runs :
    i < j /\ runs[i].key = runs[j].key => runs[i].outcome = "failed"

(* record_action: the ledger claims success only of an action whose last run   *)
(* succeeded or was a rehearsal, and failure only of one whose last run failed. *)
LedgerHonest ==
  \A k \in DOMAIN ledger : ledger[k] # "started" =>
    \E i \in DOMAIN runs :
      /\ runs[i].key = k /\ \A j \in DOMAIN runs : runs[j].key = k => j <= i
      /\ (ledger[k] = "failed") = (runs[i].outcome = "failed")

(* Recovery: from the moment a client was told that recovery mode is enabled   *)
(* until a client asks to leave it, no action is started, across crashes,      *)
(* restarts, reloads and store failures.                                       *)
RecoveryHolds == [][acked => ledger' = ledger /\ runs' = runs]_vars

(* dry_run: while the running configuration is a dry run, actions are only     *)
(* rehearsed and do not change the mode, also right after a reload.            *)
DryRunInert ==
  [][up /\ up' /\ config.dry_run =>
       /\ runs' # runs => runs'[Len(runs')].outcome = "rehearsed"
       /\ task # None => engine'.snapshot.mode = engine.snapshot.mode]_vars

(* Runtime::new: as long as the store has not failed, a restart of an idle     *)
(* daemon with its running configuration would resume its mode and its         *)
(* recovery state.                                                             *)
StateSurvives ==
  Idle /\ faults = 0 /\ engine.snapshot.mode \in ModeNames(config) =>
    /\ initial_mode(config, state.mode) = engine.snapshot.mode
    /\ state.recovery_mode = engine.recovery_mode

(* run: every event and every request is disposed of, or the process stops.    *)
Drains == []<>(queue = <<>> /\ control = <<>> /\ task = None)
===============================================================================
