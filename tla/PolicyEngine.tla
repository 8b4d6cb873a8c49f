----------------------------- MODULE PolicyEngine -----------------------------
(* The policy engine as a state machine: the calls the daemon makes on it, in  *)
(* any order, with events whose timestamps need not be in order.  Timestamps   *)
(* are taken where a sensor observes the host and events reach the engine      *)
(* through a queue shared by several sensors, or from a control request that   *)
(* overtakes the queue, so a later call may carry an earlier timestamp.        *)
EXTENDS Engine, FiniteSets

CONSTANTS Time,     \* timestamps, a set of natural numbers
          Kind,     \* kinds of event, each with its source: <<source, kind>>
          Config,   \* validated rule sets: functions from identifiers to rules
          Mode      \* security modes

KindsOf(type) == {k[2] : k \in {k \in Kind : k[2].type = type}}

ASSUME TimeAssumption == Time \subseteq Nat /\ None \notin Time

(* What validation and the typed configuration guarantee of a rule.            *)
ASSUME ConfigAssumption ==
  \A rules \in Config : \A id \in DOMAIN rules :
    LET rule == rules[id]
    IN /\ id \in Int /\ rule.priority \in Int
       /\ rule.cooldown \in Nat /\ rule.sustain_for \in Nat
       /\ rule.on_sensor_failure \in {"ignore", "alert", "fail_closed"}
       /\ IsSequence(rule.trigger) => /\ rule.trigger.within \in Nat \ {0}
                                      /\ Len(rule.trigger.steps) \in Nat \ {0, 1}
                                      /\ rule.trigger.steps # <<>>
       /\ DOMAIN rule.actions \subseteq Nat

ASSUME FiniteAssumption == \A rules \in Config : IsFiniteSet(DOMAIN rules)

ASSUME KindAssumption == \A k \in Kind : k[2].type \in EventTypes

VARIABLES engine,    \* the PolicyEngine value
          event,     \* the event of the call just made, None for other calls
          plan,      \* the plan that call returned
          panicked,  \* handle indexed a sequence out of range; the engine is gone
          fired,     \* history: the rules that fired in the call just made
          firedAt,   \* history: timestamps at which each rule has fired
          held       \* history: earliest timestamp of the unbroken run of events,
                     \* up to now, at which the rule saw its condition hold

history == <<fired, firedAt, held>>
vars == <<engine, event, plan, panicked, history>>

RuleIds == DOMAIN engine.rules

Event == {[timestamp |-> t, source |-> k[1], kind |-> k[2]] : t \in Time, k \in Kind}

Init ==
  /\ \E rules \in Config, now \in Time, mode \in Mode :
       /\ engine = NewEngine(rules, now, mode)
       /\ firedAt = [id \in DOMAIN rules |-> {}]
       /\ held = [id \in DOMAIN rules |-> None]
  /\ event = None
  /\ plan = {}
  /\ panicked = FALSE
  /\ fired = {}

-------------------------------------------------------------------------------
(* The rule is not skipped by the event, so that it looks at its condition; in *)
(* recovery mode the engine looks at no rule, but no rule stays armed either.  *)
Looks(id, e) ==
  \/ engine.recovery_mode
  \/ /\ ~Suspended(engine.rules[id], engine.runtime[id], e)
     /\ ~SensorLost(engine.rules[id], e)

(* The run of events at which a condition held, after one more event.          *)
Extend(since, holds, t) ==
  IF ~holds THEN None ELSE IF since = None \/ t < since THEN t ELSE since

Handle(e) ==
  /\ ~panicked
  /\ event' = e
  /\ IF Panics(engine, e)
     THEN panicked' = TRUE /\ plan' = {} /\ fired' = {} /\ UNCHANGED <<engine, firedAt, held>>
     ELSE LET Holds(id) == ConditionsMatch(engine.rules[id], apply(engine.snapshot, e))
              fires == {id \in RuleIds : RuleVerdict(engine, id, e) = "fire"}
          IN /\ engine' = handle(engine, e)
             /\ plan' = Plan(engine, e)
             /\ fired' = fires
             /\ firedAt' = [id \in RuleIds |-> IF id \in fires
                              THEN firedAt[id] \cup {e.timestamp} ELSE firedAt[id]]
             /\ held' = [id \in RuleIds |->
                           IF Looks(id, e) THEN Extend(held[id], Holds(id), e.timestamp)
                           ELSE held[id]]
             /\ UNCHANGED panicked

NoEvent == event' = None /\ plan' = {} /\ fired' = {} /\ UNCHANGED panicked

SetRecoveryMode(enabled) ==
  /\ ~panicked
  /\ engine' = set_recovery_mode(engine, enabled)
  /\ NoEvent /\ UNCHANGED <<firedAt, held>>

SetMode(mode) ==
  /\ ~panicked
  /\ engine' = set_mode(engine, mode)
  /\ NoEvent /\ UNCHANGED <<firedAt, held>>

ReplaceRules(rules) ==
  /\ ~panicked
  /\ engine' = replace_rules(engine, rules)
  /\ firedAt' = [id \in DOMAIN rules |-> IF id \in RuleIds THEN firedAt[id] ELSE {}]
  /\ held' = [id \in DOMAIN rules |-> IF id \in RuleIds THEN held[id] ELSE None]
  /\ NoEvent

Next ==
  \/ \E e \in Event : Handle(e)
  \/ \E enabled \in BOOLEAN : SetRecoveryMode(enabled)
  \/ \E mode \in Mode : SetMode(mode)
  \/ \E rules \in Config : ReplaceRules(rules)

Spec == Init /\ [][Next]_vars

-------------------------------------------------------------------------------
Instant == Time \cup {None}

Runtime ==
  [last_fired : Instant, armed_at : Instant, fired_once : BOOLEAN,
   sequence_index : Nat, sequence_started : Instant]

SnapshotType ==
  [now : Time, mode : Mode,
   wifi : KindsOf("wifi") \cup {NoWifi}, network : KindsOf("network") \cup {NoNetwork},
   session : KindsOf("session") \cup {NoSession}, power : KindsOf("power") \cup {NoPower},
   mounts : SUBSET {k.path : k \in KindsOf("mount")},
   processes : SUBSET {k.name : k \in KindsOf("process")},
   services : SUBSET {k.name : k \in KindsOf("service")},
   ports : SUBSET {<<k.protocol, k.port>> : k \in KindsOf("port")},
   sensor_health : SUBSET ({k[1] : k \in Kind} \cup {k.component : k \in KindsOf("integrity")})]

EngineType(runtimes) ==
  [rules : Config, runtime : runtimes, snapshot : SnapshotType, recovery_mode : BOOLEAN]

(* Every runtime and every history entry belongs to a rule of the running      *)
(* configuration, and every instant the engine keeps is one an event carried.  *)
TypeOK ==
  /\ engine \in EngineType({engine.runtime})
  /\ engine.runtime \in [RuleIds -> Runtime]
  /\ event \in Event \cup {None}
  /\ panicked \in BOOLEAN
  /\ fired \subseteq RuleIds
  /\ firedAt \in [RuleIds -> SUBSET Time]
  /\ held \in [RuleIds -> Instant]

(* handle returns a plan for every event: it never indexes past the steps of a *)
(* sequence.                                                                   *)
NoPanic == ~panicked

(* set_recovery_mode and handle: in recovery mode no action is planned, and no *)
(* rule is armed or inside a sequence that leaving recovery mode would resume. *)
RecoverySuspends ==
  engine.recovery_mode =>
    /\ plan = {}
    /\ \A id \in RuleIds : /\ engine.runtime[id].armed_at = None
                            /\ engine.runtime[id].sequence_index = 0

(* resolve_conflicts: no two actions of a plan compete for the same target.    *)
PlanConflictFree == \A c, d \in plan : SameKey(c, d) => c = d

(* resolve_conflicts: an action that a rule offered is dropped only in favour  *)
(* of a planned one on the same target with at least its priority.             *)
HighestPriorityWins ==
  [][event' # None /\ ~panicked' =>
       \A c \in Candidates(engine, event') :
         \/ c \in plan'
         \/ \E d \in plan' : SameKey(c, d) /\ d.priority >= c.priority]_vars

(* handle: a rule that did not fire contributes to a plan only when a sensor   *)
(* it uses has failed, and then only a notification, or the fail-closed subset *)
(* of its actions when that is its policy.                                     *)
FailureRestricted ==
  \A c \in plan : c.rule_id \notin fired =>
    /\ SensorLost(engine.rules[c.rule_id], event)
    /\ \/ c.action = SensorAlert
       \/ /\ engine.rules[c.rule_id].on_sensor_failure = "fail_closed"
          /\ FailClosedAction(c.action)

(* handle, sustain_for: a sustained rule fires only when its condition was     *)
(* seen to hold at every event the rule looked at over at least that time.     *)
SustainHonoured ==
  \A id \in fired :
    engine.rules[id].sustain_for > 0 =>
      /\ held[id] # None
      /\ elapsed(engine.snapshot.now, held[id]) >= engine.rules[id].sustain_for

(* handle, cooldown: a firing is at least the cooldown later than every        *)
(* earlier firing of the rule, however the timestamps of events are ordered    *)
(* (configurations that keep the cooldown of a rule).                          *)
CooldownSpacing ==
  [][\A id \in fired' : engine.rules[id].cooldown > 0 =>
       \A t \in firedAt[id] : event'.timestamp - t >= engine.rules[id].cooldown]_vars

(* handle, once_per_boot: such a rule fires at most once while the engine      *)
(* lives and the rule stays configured, whatever reloads happen in between.    *)
FiresOnce ==
  [][\A id \in fired' : engine.rules[id].once_per_boot => firedAt[id] = {}]_vars
===============================================================================
