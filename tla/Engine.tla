-------------------------------- MODULE Engine --------------------------------
(* The rule evaluator of kovert-core/src/engine.rs as operators on an engine   *)
(* value: rules, their runtimes, the snapshot and the recovery flag.           *)
(*                                                                             *)
(* Rule identifiers are integers, ordered like the identifier strings of the   *)
(* source.  Durations and timestamps are natural numbers.  The matchers of     *)
(* triggers and conditions are parameters: module Matching defines the ones of *)
(* the source, and nothing proved here depends on what they compute.           *)
EXTENDS Integers, Sequences, Snapshot

CONSTANTS trigger_matches(_, _),      \* of a trigger and an event
          trigger_uses_sensor(_, _),  \* of a trigger and a sensor name
          condition_matches(_, _)     \* of a condition and a snapshot

-------------------------------------------------------------------------------
(* Conflict keys (config.rs).  An action is a record with a type and, for the  *)
(* types that have a key, the target the key is made of.                       *)
NoKey == <<>>

conflict_key(action) ==
  CASE action.type \in {"lock_vault", "unlock_vault"} -> <<"vault", action.target>>
    [] action.type = "network_isolation" -> <<"network", "isolation">>
    [] action.type = "interface_state"   -> <<"interface", action.target>>
    [] action.type = "service"           -> <<"service", action.target>>
    [] action.type = "set_mode"          -> <<"mode">>
    [] action.type = "unmount"           -> <<"mount", action.target>>
    [] action.type = "terminate_process" -> <<"process", action.target>>
    [] action.type \in {"notify", "capture_evidence", "exec"} -> NoKey

-------------------------------------------------------------------------------
DefaultRuntime ==
  [last_fired |-> None, armed_at |-> None, fired_once |-> FALSE,
   sequence_index |-> 0, sequence_started |-> None]

NewEngine(rules, now, mode) ==
  [rules |-> rules, runtime |-> [id \in DOMAIN rules |-> DefaultRuntime],
   snapshot |-> DefaultSnapshot(now, mode), recovery_mode |-> FALSE]

(* A later timestamp that is earlier counts as no time at all.                 *)
elapsed(later, earlier) == IF later < earlier THEN 0 ELSE later - earlier

set_mode(engine, mode) == [engine EXCEPT !.snapshot.mode = mode]

Disarmed(rt) ==
  [rt EXCEPT !.armed_at = None, !.sequence_index = 0, !.sequence_started = None]

(* Variants named ...Mutant are broken forms of the definition after them, used *)
(* to show that the properties notice.  Armed rules and open sequences survive *)
(* into recovery mode:                                                         *)
set_recovery_modeMutant(engine, enabled) == [engine EXCEPT !.recovery_mode = enabled]

set_recovery_mode(engine, enabled) ==
  [engine EXCEPT
     !.recovery_mode = enabled,
     !.runtime = IF enabled
                 THEN [id \in DOMAIN engine.runtime |-> Disarmed(engine.runtime[id])]
                 ELSE engine.runtime]

(* Every rule starts afresh.                                                   *)
replace_rulesMutantFresh(engine, rules) ==
  [engine EXCEPT !.rules = rules, !.runtime = [id \in DOMAIN rules |-> DefaultRuntime]]

(* A rule that keeps its identifier keeps its runtime, whatever else changed.  *)
replace_rules(engine, rules) ==
  [engine EXCEPT
     !.rules = rules,
     !.runtime = [id \in DOMAIN rules |->
                    IF id \in DOMAIN engine.runtime
                    THEN engine.runtime[id] ELSE DefaultRuntime]]

-------------------------------------------------------------------------------
(* Ordered sequences.  steps is indexed from 1 here and from 0 in the source.  *)
IsSequence(trigger) == trigger.type = "sequence"

WindowExpired(rt, trigger, event) ==
  /\ rt.sequence_started # None
  /\ elapsed(event.timestamp, rt.sequence_started) > trigger.within

(* How many steps have matched when the event is looked at.                    *)
Progress(rt, trigger, event) ==
  IF WindowExpired(rt, trigger, event) THEN 0 ELSE rt.sequence_index

NoProgress(rt) == [rt EXCEPT !.sequence_index = 0, !.sequence_started = None]

sequence_matches(rt, trigger, event) ==
  /\ trigger.steps # <<>>
  /\ Progress(rt, trigger, event) + 1 = Len(trigger.steps)
  /\ trigger_matches(trigger.steps[Len(trigger.steps)], event)

(* A completed sequence is not reset.                                          *)
SequenceRuntimeMutant(rt, trigger, event) ==
  LET base == IF WindowExpired(rt, trigger, event) THEN NoProgress(rt) ELSE rt
      n == base.sequence_index
  IN IF trigger_matches(trigger.steps[n + 1], event)
     THEN [base EXCEPT !.sequence_index = n + 1,
                       !.sequence_started = IF n = 0 THEN event.timestamp ELSE @]
     ELSE base

(* The runtime after the event: one step further, restarted at the first step, *)
(* or as it was with an expired window dropped.                                *)
SequenceRuntime(rt, trigger, event) ==
  LET base == IF WindowExpired(rt, trigger, event) THEN NoProgress(rt) ELSE rt
      n == base.sequence_index
  IN IF trigger.steps = <<>> THEN rt
     ELSE IF trigger_matches(trigger.steps[n + 1], event)
     THEN IF n + 1 = Len(trigger.steps) THEN NoProgress(base)
          ELSE [base EXCEPT !.sequence_index = n + 1,
                            !.sequence_started = IF n = 0 THEN event.timestamp ELSE @]
     ELSE IF trigger_matches(trigger.steps[1], event)
     THEN [base EXCEPT !.sequence_index = 1, !.sequence_started = event.timestamp]
     ELSE base

-------------------------------------------------------------------------------
(* One rule and one event.  The runtime of a rule depends on no other rule.    *)

(* The cooldown is not looked at.                                              *)
SuspendedMutant(rule, rt, event) ==
  \/ ~rule.enabled
  \/ rule.once_per_boot /\ rt.fired_once

Suspended(rule, rt, event) ==
  \/ ~rule.enabled
  \/ rule.once_per_boot /\ rt.fired_once
  \/ /\ rt.last_fired # None
     /\ elapsed(event.timestamp, rt.last_fired) < rule.cooldown

SensorLost(rule, event) ==
  /\ event.kind.type = "sensor_failure"
  /\ trigger_uses_sensor(rule.trigger, event.kind.sensor)

ConditionsMatch(rule, snapshot) ==
  rule.when = None \/ condition_matches(rule.when, snapshot)

Triggered(rule, rt, event) ==
  IF IsSequence(rule.trigger) THEN sequence_matches(rt, rule.trigger, event)
  ELSE trigger_matches(rule.trigger, event)

(* The rule looks at its trigger: it is neither skipped nor armed.             *)
Watches(rule, rt, event) ==
  ~Suspended(rule, rt, event) /\ ~SensorLost(rule, event) /\ rt.armed_at = None

(* An armed rule does not look at its condition again.                         *)
VerdictMutant(rule, rt, event, snapshot) ==
  IF Suspended(rule, rt, event) THEN "skip"
  ELSE IF SensorLost(rule, event) THEN rule.on_sensor_failure
  ELSE IF rt.armed_at # None
       THEN IF elapsed(event.timestamp, rt.armed_at) < rule.sustain_for THEN "wait" ELSE "fire"
  ELSE IF ~Triggered(rule, rt, event) \/ ~ConditionsMatch(rule, snapshot) THEN "idle"
  ELSE IF rule.sustain_for = 0 THEN "fire" ELSE "arm"

(* What handle does with the rule, in the order of its early exits.  A lost    *)
(* sensor yields the rule's policy: "ignore", "alert" or "fail_closed".        *)
Verdict(rule, rt, event, snapshot) ==
  IF Suspended(rule, rt, event) THEN "skip"
  ELSE IF SensorLost(rule, event) THEN rule.on_sensor_failure
  ELSE IF rt.armed_at # None
       THEN IF ~ConditionsMatch(rule, snapshot) THEN "disarm"
            ELSE IF elapsed(event.timestamp, rt.armed_at) < rule.sustain_for THEN "wait"
            ELSE "fire"
  ELSE IF ~Triggered(rule, rt, event) \/ ~ConditionsMatch(rule, snapshot) THEN "idle"
  ELSE IF rule.sustain_for = 0 THEN "fire" ELSE "arm"

(* The runtime once the trigger has been looked at.                            *)
Observed(rule, rt, event) ==
  IF Watches(rule, rt, event) /\ IsSequence(rule.trigger)
  THEN SequenceRuntime(rt, rule.trigger, event) ELSE rt

NextRuntime(rule, rt, event, snapshot) ==
  LET verdict == Verdict(rule, rt, event, snapshot)
      seen == Observed(rule, rt, event)
  IN CASE verdict = "fire" -> [seen EXCEPT !.armed_at = None, !.fired_once = TRUE,
                                           !.last_fired = event.timestamp]
       [] verdict = "arm"    -> [seen EXCEPT !.armed_at = event.timestamp]
       [] verdict = "disarm" -> [seen EXCEPT !.armed_at = None]
       [] verdict \notin {"fire", "arm", "disarm"} -> seen

-------------------------------------------------------------------------------
(* The plan.  A candidate is an action of a rule, with its place in the rule's *)
(* list; a plan is the set of the candidates that survive, executed in the     *)
(* order Before.                                                               *)
SensorAlert == [type |-> "notify", target |-> "sensor failure"]

FailClosedAction(action) ==
  \/ action.type \in {"lock_vault", "set_mode"}
  \/ action.type = "network_isolation" /\ action.enabled

Candidate(id, rule, i, action) ==
  [rule_id |-> id, priority |-> rule.priority, place |-> i, action |-> action]

(* A failed sensor runs all the actions of a fail-closed rule.                 *)
OffersMutant(id, rule, verdict) ==
  IF verdict \in {"fire", "fail_closed"}
  THEN {Candidate(id, rule, i, rule.actions[i]) : i \in DOMAIN rule.actions}
  ELSE {}

Offers(id, rule, verdict) ==
  CASE verdict = "fire" ->
         {Candidate(id, rule, i, rule.actions[i]) : i \in DOMAIN rule.actions}
    [] verdict = "fail_closed" ->
         {Candidate(id, rule, i, rule.actions[i]) :
            i \in {j \in DOMAIN rule.actions : FailClosedAction(rule.actions[j])}}
    [] verdict = "alert" -> {Candidate(id, rule, 1, SensorAlert)}
    [] verdict \notin {"fire", "fail_closed", "alert"} -> {}

(* Ascending priority.                                                         *)
BeforeMutant(c, d) ==
  \/ c.priority < d.priority
  \/ c.priority = d.priority /\ c.rule_id < d.rule_id
  \/ c.priority = d.priority /\ c.rule_id = d.rule_id /\ c.place < d.place

(* Descending priority, then ascending identifier, then the order of the list. *)
Before(c, d) ==
  \/ c.priority > d.priority
  \/ c.priority = d.priority /\ c.rule_id < d.rule_id
  \/ c.priority = d.priority /\ c.rule_id = d.rule_id /\ c.place < d.place

SameKey(c, d) ==
  /\ conflict_key(c.action) # NoKey
  /\ conflict_key(c.action) = conflict_key(d.action)

(* Conflicts are resolved within a rule only.                                  *)
resolve_conflictsMutant(candidates) ==
  {c \in candidates : \A d \in candidates :
     SameKey(d, c) /\ d.rule_id = c.rule_id => ~Before(d, c)}

resolve_conflicts(candidates) ==
  {c \in candidates : \A d \in candidates : SameKey(d, c) => ~Before(d, c)}

-------------------------------------------------------------------------------
(* One event and the whole engine.                                             *)
RuleVerdict(engine, id, event) ==
  IF engine.recovery_mode THEN "skip"
  ELSE Verdict(engine.rules[id], engine.runtime[id], event, apply(engine.snapshot, event))

Candidates(engine, event) ==
  UNION {Offers(id, engine.rules[id], RuleVerdict(engine, id, event)) :
           id \in DOMAIN engine.rules}

(* steps[sequence_index] is out of range: handle panics.                       *)
Panics(engine, event) ==
  /\ ~engine.recovery_mode
  /\ \E id \in DOMAIN engine.rules :
       LET rule == engine.rules[id]
           rt == engine.runtime[id]
       IN /\ Watches(rule, rt, event)
          /\ IsSequence(rule.trigger)
          /\ rule.trigger.steps # <<>>
          /\ Progress(rt, rule.trigger, event) >= Len(rule.trigger.steps)

handle(engine, event) ==
  LET now == apply(engine.snapshot, event)
  IN [engine EXCEPT
        !.snapshot = now,
        !.runtime = IF engine.recovery_mode THEN engine.runtime
                    ELSE [id \in DOMAIN engine.rules |->
                            NextRuntime(engine.rules[id], engine.runtime[id], event, now)]]

Plan(engine, event) == resolve_conflicts(Candidates(engine, event))
===============================================================================
