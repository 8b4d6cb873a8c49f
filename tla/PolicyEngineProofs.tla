-------------------------- MODULE PolicyEngineProofs --------------------------
EXTENDS PolicyEngine, FiniteSetTheorems, WellFoundedInduction, TLAPS

(* Engine values, with runtimes for the rules of some configuration.           *)
Engines ==
  [rules : Config, runtime : UNION {[DOMAIN rules -> Runtime] : rules \in Config},
   snapshot : SnapshotType, recovery_mode : BOOLEAN]

LEMMA TypedEngine ==
  ASSUME TypeOK
  PROVE  engine \in Engines /\ engine.runtime \in [DOMAIN engine.rules -> Runtime]
<1>1. engine.rules \in Config /\ engine.runtime \in [DOMAIN engine.rules -> Runtime]
  BY DEF TypeOK, EngineType, RuleIds
<1>2. engine.runtime \in UNION {[DOMAIN rules -> Runtime] : rules \in Config}
  BY <1>1
<1>3. QED
  BY <1>1, <1>2 DEF TypeOK, EngineType, Engines

LEMMA EngineOfType ==
  ASSUME NEW g \in Engines PROVE g \in EngineType({g.runtime})
  BY DEF Engines, EngineType

LEMMA ApplyType ==
  ASSUME NEW s \in SnapshotType, NEW e \in Event
  PROVE  /\ apply(s, e) \in SnapshotType
         /\ apply(s, e).now = e.timestamp
<1>1. PICK t \in Time, k \in Kind : e = [timestamp |-> t, source |-> k[1], kind |-> k[2]]
  BY DEF Event
<1>2. k[2].type \in
    {"tick", "file", "wifi", "network", "usb", "mount", "process", "service", "port",
     "session", "power", "hotkey", "integrity", "manual", "sensor_failure"}
  BY KindAssumption DEF EventTypes
<1>3. k[2] \in KindsOf(k[2].type)
  BY DEF KindsOf
<1> DEFINE s1 == [s EXCEPT !.now = e.timestamp, !.sensor_health = @ \cup {e.source}]
<1>4. s1 \in SnapshotType /\ s1.now = e.timestamp
  BY <1>1 DEF SnapshotType
<1> HIDE DEF s1
<1> DEFINE k2 == k[2]
<1>5. e.kind = k2 /\ k2 \in KindsOf(k2.type)
  BY <1>1, <1>3
<1>6. CASE k2.type = "wifi"
  BY <1>6, <1>4, <1>5 DEF apply, s1, SnapshotType, Toggle
<1>7. CASE k2.type = "network"
  BY <1>7, <1>4, <1>5 DEF apply, s1, SnapshotType, Toggle
<1>8. CASE k2.type = "session"
  BY <1>8, <1>4, <1>5 DEF apply, s1, SnapshotType, Toggle
<1>9. CASE k2.type = "power"
  BY <1>9, <1>4, <1>5 DEF apply, s1, SnapshotType, Toggle
<1>10. CASE k2.type = "mount"
  BY <1>10, <1>4, <1>5 DEF apply, s1, SnapshotType, Toggle
<1>11. CASE k2.type = "process"
  <2>1. apply(s, e) = [s1 EXCEPT !.processes = Toggle(@, k2.name, k2.running)]
    BY <1>11, <1>5 DEF apply, s1
  <2>2. k2.name \in {x.name : x \in KindsOf("process")}
    BY <1>11, <1>5
  <2>3. QED
    BY <2>1, <2>2, <1>4 DEF SnapshotType, Toggle
<1>12. CASE k2.type = "service"
  <2>1. apply(s, e) = [s1 EXCEPT !.services = Toggle(@, k2.name, k2.active)]
    BY <1>12, <1>5 DEF apply, s1
  <2>2. k2.name \in {x.name : x \in KindsOf("service")}
    BY <1>12, <1>5
  <2>3. QED
    BY <2>1, <2>2, <1>4 DEF SnapshotType, Toggle
<1>13. CASE k2.type = "port"
  BY <1>13, <1>4, <1>5 DEF apply, s1, SnapshotType, Toggle
<1>14. CASE k2.type = "integrity"
  BY <1>14, <1>4, <1>5 DEF apply, s1, SnapshotType, Toggle
<1>15. CASE k2.type = "sensor_failure"
  BY <1>15, <1>4, <1>5 DEF apply, s1, SnapshotType, Toggle
<1>16. CASE k2.type \in {"tick", "file", "usb", "hotkey", "manual"}
  BY <1>16, <1>4, <1>5 DEF apply, s1
<1>17. QED
  BY <1>2, <1>6, <1>7, <1>8, <1>9, <1>10, <1>11, <1>12, <1>13, <1>14, <1>15, <1>16

LEMMA HandleFields ==
  ASSUME NEW g \in Engines, NEW e
  PROVE  /\ handle(g, e).rules = g.rules
         /\ handle(g, e).recovery_mode = g.recovery_mode
         /\ handle(g, e).snapshot = apply(g.snapshot, e)
         /\ handle(g, e).runtime =
              IF g.recovery_mode THEN g.runtime
              ELSE [id \in DOMAIN g.rules |->
                      NextRuntime(g.rules[id], g.runtime[id], e, apply(g.snapshot, e))]
<1> DEFINE rt == IF g.recovery_mode THEN g.runtime
                 ELSE [id \in DOMAIN g.rules |->
                         NextRuntime(g.rules[id], g.runtime[id], e, apply(g.snapshot, e))]
           sn == apply(g.snapshot, e)
           h == [g EXCEPT !.snapshot = sn, !.runtime = rt]
<1>1. handle(g, e) = h
  BY DEF handle
<1> HIDE DEF rt, sn
<1>2. h.rules = g.rules
  BY DEF Engines
<1>3. h.recovery_mode = g.recovery_mode
  BY DEF Engines
<1>4. h.snapshot = sn
  BY DEF Engines
<1>5. h.runtime = rt
  BY DEF Engines
<1>6. QED
  BY <1>1, <1>2, <1>3, <1>4, <1>5 DEF rt, sn

LEMMA EventTime == ASSUME NEW e \in Event PROVE e.timestamp \in Time
  BY DEF Event

(* What looking at a sequence does to the runtime.                             *)
LEMMA SequenceRuntimeFields ==
  ASSUME NEW rt \in Runtime, NEW e \in Event, NEW trigger
  PROVE  /\ SequenceRuntime(rt, trigger, e) \in Runtime
         /\ SequenceRuntime(rt, trigger, e).last_fired = rt.last_fired
         /\ SequenceRuntime(rt, trigger, e).armed_at = rt.armed_at
         /\ SequenceRuntime(rt, trigger, e).fired_once = rt.fired_once
<1> DEFINE base == IF WindowExpired(rt, trigger, e) THEN NoProgress(rt) ELSE rt
<1> USE EventTime
<1>1. /\ base \in Runtime
      /\ base.last_fired = rt.last_fired
      /\ base.armed_at = rt.armed_at
      /\ base.fired_once = rt.fired_once
  BY DEF Runtime, NoProgress, Instant
<1>2. /\ e.timestamp \in Instant /\ None \in Instant
      /\ base.sequence_index \in Nat /\ base.sequence_started \in Instant
  BY <1>1 DEF Runtime, Instant
<1>3. PICK n \in Nat, t \in Instant :
        \/ SequenceRuntime(rt, trigger, e) = rt
        \/ SequenceRuntime(rt, trigger, e) =
             [base EXCEPT !.sequence_index = n, !.sequence_started = t]
  <2> DEFINE seen == SequenceRuntime(rt, trigger, e)
             k == base.sequence_index
  <2>1. CASE trigger.steps = <<>>
    BY <2>1, <1>2 DEF SequenceRuntime
  <2>2. CASE /\ trigger.steps # <<>>
             /\ trigger_matches(trigger.steps[k + 1], e)
             /\ k + 1 = Len(trigger.steps)
    <3>1. seen = [base EXCEPT !.sequence_index = 0, !.sequence_started = None]
      BY <2>2 DEF SequenceRuntime, NoProgress
    <3>2. QED  BY <3>1, <1>2
  <2>3. CASE /\ trigger.steps # <<>>
             /\ trigger_matches(trigger.steps[k + 1], e)
             /\ k + 1 # Len(trigger.steps)
    <3>1. seen = [base EXCEPT !.sequence_index = k + 1,
                    !.sequence_started = IF k = 0 THEN e.timestamp ELSE base.sequence_started]
      BY <2>3, <1>1 DEF SequenceRuntime, Runtime
    <3>2. /\ k + 1 \in Nat
          /\ (IF k = 0 THEN e.timestamp ELSE base.sequence_started) \in Instant
      BY <1>2
    <3>3. QED
      <4> HIDE DEF base, k, seen
      <4> QED  BY <3>1, <3>2 DEF seen
  <2>4. CASE /\ trigger.steps # <<>>
             /\ ~trigger_matches(trigger.steps[k + 1], e)
             /\ trigger_matches(trigger.steps[1], e)
    <3>1. seen = [base EXCEPT !.sequence_index = 1, !.sequence_started = e.timestamp]
      BY <2>4 DEF SequenceRuntime
    <3>2. QED  BY <3>1, <1>2
  <2>5. CASE /\ trigger.steps # <<>>
             /\ ~trigger_matches(trigger.steps[k + 1], e)
             /\ ~trigger_matches(trigger.steps[1], e)
    <3>1. seen = base
      BY <2>5 DEF SequenceRuntime
    <3>2. base = [base EXCEPT !.sequence_index = base.sequence_index,
                              !.sequence_started = base.sequence_started]
      <4> HIDE DEF base
      <4> QED  BY <1>1 DEF Runtime
    <3>3. QED  BY <3>1, <3>2, <1>2
  <2>6. QED  BY <2>1, <2>2, <2>3, <2>4, <2>5
<1> HIDE DEF base
<1>4. CASE SequenceRuntime(rt, trigger, e) = rt
  BY <1>4
<1>5. CASE SequenceRuntime(rt, trigger, e) =
             [base EXCEPT !.sequence_index = n, !.sequence_started = t]
  BY <1>1, <1>5 DEF Runtime
<1>6. QED
  BY <1>3, <1>4, <1>5

LEMMA ObservedFields ==
  ASSUME NEW rt \in Runtime, NEW e \in Event, NEW rule
  PROVE  /\ Observed(rule, rt, e) \in Runtime
         /\ Observed(rule, rt, e).last_fired = rt.last_fired
         /\ Observed(rule, rt, e).armed_at = rt.armed_at
         /\ Observed(rule, rt, e).fired_once = rt.fired_once
  BY SequenceRuntimeFields DEF Observed

(* What one event does to the runtime of a rule, by verdict.                   *)
LEMMA NextRuntimeFields ==
  ASSUME NEW rt \in Runtime, NEW e \in Event, NEW rule, NEW s
  PROVE  /\ NextRuntime(rule, rt, e, s) \in Runtime
         /\ NextRuntime(rule, rt, e, s).sequence_index = Observed(rule, rt, e).sequence_index
         /\ NextRuntime(rule, rt, e, s).sequence_started = Observed(rule, rt, e).sequence_started
<1> DEFINE v == Verdict(rule, rt, e, s)
           seen == Observed(rule, rt, e)
<1>1. /\ seen \in Runtime
      /\ seen.last_fired = rt.last_fired
      /\ seen.armed_at = rt.armed_at
      /\ seen.fired_once = rt.fired_once
  BY ObservedFields
<1>2. e.timestamp \in Instant /\ None \in Instant
  BY EventTime DEF Instant
<1> HIDE DEF v, seen
<1>3. CASE v = "fire"
  <2>1. NextRuntime(rule, rt, e, s) =
          [seen EXCEPT !.armed_at = None, !.fired_once = TRUE, !.last_fired = e.timestamp]
    BY <1>3 DEF NextRuntime, v, seen
  <2>2. QED
    BY <1>1, <1>2, <1>3, <2>1 DEF v, seen, Runtime
<1>4. CASE v = "arm"
  <2>1. NextRuntime(rule, rt, e, s) = [seen EXCEPT !.armed_at = e.timestamp]
    BY <1>4 DEF NextRuntime, v, seen
  <2>2. QED
    BY <1>1, <1>2, <1>4, <2>1 DEF v, seen, Runtime
<1>5. CASE v = "disarm"
  <2>1. NextRuntime(rule, rt, e, s) = [seen EXCEPT !.armed_at = None]
    BY <1>5 DEF NextRuntime, v, seen
  <2>2. QED
    BY <1>1, <1>2, <1>5, <2>1 DEF v, seen, Runtime
<1>6. CASE v \notin {"fire", "arm", "disarm"}
  <2>1. NextRuntime(rule, rt, e, s) = seen
    BY <1>6 DEF NextRuntime, v, seen
  <2>2. QED
    BY <1>1, <1>2, <1>6, <2>1 DEF v, seen
<1>7. QED
  BY <1>3, <1>4, <1>5, <1>6

LEMMA NextRuntimeFired ==
  ASSUME NEW rt \in Runtime, NEW e \in Event, NEW rule, NEW s
  PROVE  /\ Verdict(rule, rt, e, s) = "fire" =>
              /\ NextRuntime(rule, rt, e, s).last_fired = e.timestamp
              /\ NextRuntime(rule, rt, e, s).fired_once
         /\ Verdict(rule, rt, e, s) # "fire" =>
              /\ NextRuntime(rule, rt, e, s).last_fired = rt.last_fired
              /\ NextRuntime(rule, rt, e, s).fired_once = rt.fired_once
<1> DEFINE v == Verdict(rule, rt, e, s)
           seen == Observed(rule, rt, e)
<1>1. /\ seen \in Runtime
      /\ seen.last_fired = rt.last_fired
      /\ seen.armed_at = rt.armed_at
      /\ seen.fired_once = rt.fired_once
  BY ObservedFields
<1>2. e.timestamp \in Instant /\ None \in Instant
  BY EventTime DEF Instant
<1> HIDE DEF v, seen
<1>3. CASE v = "fire"
  <2>1. NextRuntime(rule, rt, e, s) =
          [seen EXCEPT !.armed_at = None, !.fired_once = TRUE, !.last_fired = e.timestamp]
    BY <1>3 DEF NextRuntime, v, seen
  <2>2. QED
    BY <1>1, <1>2, <1>3, <2>1 DEF v, seen, Runtime
<1>4. CASE v = "arm"
  <2>1. NextRuntime(rule, rt, e, s) = [seen EXCEPT !.armed_at = e.timestamp]
    BY <1>4 DEF NextRuntime, v, seen
  <2>2. QED
    BY <1>1, <1>2, <1>4, <2>1 DEF v, seen, Runtime
<1>5. CASE v = "disarm"
  <2>1. NextRuntime(rule, rt, e, s) = [seen EXCEPT !.armed_at = None]
    BY <1>5 DEF NextRuntime, v, seen
  <2>2. QED
    BY <1>1, <1>2, <1>5, <2>1 DEF v, seen, Runtime
<1>6. CASE v \notin {"fire", "arm", "disarm"}
  <2>1. NextRuntime(rule, rt, e, s) = seen
    BY <1>6 DEF NextRuntime, v, seen
  <2>2. QED
    BY <1>1, <1>2, <1>6, <2>1 DEF v, seen
<1>7. QED
  BY <1>3, <1>4, <1>5, <1>6

LEMMA NextRuntimeArmed ==
  ASSUME NEW rt \in Runtime, NEW e \in Event, NEW rule, NEW s
  PROVE  /\ Verdict(rule, rt, e, s) = "arm" =>
              NextRuntime(rule, rt, e, s).armed_at = e.timestamp
         /\ Verdict(rule, rt, e, s) \in {"fire", "disarm"} =>
              NextRuntime(rule, rt, e, s).armed_at = None
         /\ Verdict(rule, rt, e, s) \notin {"arm", "fire", "disarm"} =>
              NextRuntime(rule, rt, e, s).armed_at = rt.armed_at
<1> DEFINE v == Verdict(rule, rt, e, s)
           seen == Observed(rule, rt, e)
<1>1. /\ seen \in Runtime
      /\ seen.last_fired = rt.last_fired
      /\ seen.armed_at = rt.armed_at
      /\ seen.fired_once = rt.fired_once
  BY ObservedFields
<1>2. e.timestamp \in Instant /\ None \in Instant
  BY EventTime DEF Instant
<1> HIDE DEF v, seen
<1>3. CASE v = "fire"
  <2>1. NextRuntime(rule, rt, e, s) =
          [seen EXCEPT !.armed_at = None, !.fired_once = TRUE, !.last_fired = e.timestamp]
    BY <1>3 DEF NextRuntime, v, seen
  <2>2. QED
    BY <1>1, <1>2, <1>3, <2>1 DEF v, seen, Runtime
<1>4. CASE v = "arm"
  <2>1. NextRuntime(rule, rt, e, s) = [seen EXCEPT !.armed_at = e.timestamp]
    BY <1>4 DEF NextRuntime, v, seen
  <2>2. QED
    BY <1>1, <1>2, <1>4, <2>1 DEF v, seen, Runtime
<1>5. CASE v = "disarm"
  <2>1. NextRuntime(rule, rt, e, s) = [seen EXCEPT !.armed_at = None]
    BY <1>5 DEF NextRuntime, v, seen
  <2>2. QED
    BY <1>1, <1>2, <1>5, <2>1 DEF v, seen, Runtime
<1>6. CASE v \notin {"fire", "arm", "disarm"}
  <2>1. NextRuntime(rule, rt, e, s) = seen
    BY <1>6 DEF NextRuntime, v, seen
  <2>2. QED
    BY <1>1, <1>2, <1>6, <2>1 DEF v, seen
<1>7. QED
  BY <1>3, <1>4, <1>5, <1>6

-------------------------------------------------------------------------------
(* The fields of the engine after each of the other calls.                     *)
LEMMA NewEngineFields ==
  ASSUME NEW rules \in Config, NEW now \in Time, NEW mode \in Mode
  PROVE  /\ NewEngine(rules, now, mode) \in Engines
         /\ NewEngine(rules, now, mode).rules = rules
         /\ NewEngine(rules, now, mode).runtime = [id \in DOMAIN rules |-> DefaultRuntime]
         /\ NewEngine(rules, now, mode).runtime \in [DOMAIN rules -> Runtime]
         /\ ~NewEngine(rules, now, mode).recovery_mode
         /\ DefaultRuntime \in Runtime
<1>1. DefaultRuntime \in Runtime
  BY DEF DefaultRuntime, Runtime, Instant
<1>2. DefaultSnapshot(now, mode) \in SnapshotType
  BY DEF DefaultSnapshot, SnapshotType
<1>3. [id \in DOMAIN rules |-> DefaultRuntime] \in [DOMAIN rules -> Runtime]
  BY <1>1
<1>4. QED
  BY <1>1, <1>2, <1>3 DEF NewEngine, Engines

LEMMA DisarmedFields ==
  ASSUME NEW rt \in Runtime
  PROVE  /\ Disarmed(rt) \in Runtime
         /\ Disarmed(rt).last_fired = rt.last_fired
         /\ Disarmed(rt).fired_once = rt.fired_once
         /\ Disarmed(rt).armed_at = None
         /\ Disarmed(rt).sequence_index = 0
         /\ Disarmed(rt).sequence_started = None
  BY DEF Disarmed, Runtime, Instant

LEMMA SetRecoveryModeFields ==
  ASSUME NEW g \in Engines, NEW enabled \in BOOLEAN,
         g.runtime \in [DOMAIN g.rules -> Runtime]
  PROVE  LET h == set_recovery_mode(g, enabled)
         IN /\ h \in Engines
            /\ h.rules = g.rules
            /\ h.snapshot = g.snapshot
            /\ h.recovery_mode = enabled
            /\ h.runtime \in [DOMAIN g.rules -> Runtime]
            /\ \A id \in DOMAIN g.rules :
                 h.runtime[id] = IF enabled THEN Disarmed(g.runtime[id]) ELSE g.runtime[id]
<1> DEFINE rt == IF enabled
                 THEN [id \in DOMAIN g.runtime |-> Disarmed(g.runtime[id])] ELSE g.runtime
           h == [g EXCEPT !.recovery_mode = enabled, !.runtime = rt]
<1>1. set_recovery_mode(g, enabled) = h
  BY DEF set_recovery_mode
<1>2. /\ rt \in [DOMAIN g.rules -> Runtime]
      /\ \A id \in DOMAIN g.rules :
           rt[id] = IF enabled THEN Disarmed(g.runtime[id]) ELSE g.runtime[id]
  BY DisarmedFields
<1>3. g.rules \in Config
  BY DEF Engines
<1> HIDE DEF rt
<1>4. h.rules = g.rules /\ h.snapshot = g.snapshot /\ h.recovery_mode = enabled
  BY DEF Engines
<1>5. h.runtime = rt
  BY DEF Engines
<1>6. h \in Engines
  BY <1>2, <1>3 DEF Engines
<1>7. QED
  BY <1>1, <1>2, <1>4, <1>5, <1>6

LEMMA SetModeFields ==
  ASSUME NEW g \in Engines, NEW mode \in Mode
  PROVE  LET h == set_mode(g, mode)
         IN /\ h \in Engines
            /\ h.rules = g.rules
            /\ h.runtime = g.runtime
            /\ h.recovery_mode = g.recovery_mode
            /\ h.snapshot.now = g.snapshot.now
<1> DEFINE sn == [g.snapshot EXCEPT !.mode = mode]
           h == [g EXCEPT !.snapshot = sn]
<1>1. set_mode(g, mode) = h
  BY DEF set_mode, Engines
<1>2. sn \in SnapshotType /\ sn.now = g.snapshot.now
  BY DEF Engines, SnapshotType
<1> HIDE DEF sn
<1>3. h.rules = g.rules /\ h.runtime = g.runtime /\ h.recovery_mode = g.recovery_mode
  BY DEF Engines
<1>4. h.snapshot = sn
  BY DEF Engines
<1>5. h \in Engines
  BY <1>2 DEF Engines
<1>6. QED
  BY <1>1, <1>2, <1>3, <1>4, <1>5

LEMMA ReplaceRulesFields ==
  ASSUME NEW g \in Engines, NEW rules \in Config,
         g.runtime \in [DOMAIN g.rules -> Runtime]
  PROVE  LET h == replace_rules(g, rules)
         IN /\ h \in Engines
            /\ h.rules = rules
            /\ h.snapshot = g.snapshot
            /\ h.recovery_mode = g.recovery_mode
            /\ h.runtime \in [DOMAIN rules -> Runtime]
            /\ \A id \in DOMAIN rules :
                 h.runtime[id] = IF id \in DOMAIN g.rules THEN g.runtime[id] ELSE DefaultRuntime
<1> DEFINE rt == [id \in DOMAIN rules |->
                    IF id \in DOMAIN g.runtime THEN g.runtime[id] ELSE DefaultRuntime]
           h == [g EXCEPT !.rules = rules, !.runtime = rt]
<1>1. replace_rules(g, rules) = h
  BY DEF replace_rules
<1>2. DefaultRuntime \in Runtime
  BY DEF DefaultRuntime, Runtime, Instant
<1>3. /\ rt \in [DOMAIN rules -> Runtime]
      /\ \A id \in DOMAIN rules :
           rt[id] = IF id \in DOMAIN g.rules THEN g.runtime[id] ELSE DefaultRuntime
  BY <1>2
<1> HIDE DEF rt
<1>4. h.rules = rules /\ h.snapshot = g.snapshot /\ h.recovery_mode = g.recovery_mode
  BY DEF Engines
<1>5. h.runtime = rt
  BY DEF Engines
<1>6. h \in Engines
  BY <1>3 DEF Engines
<1>7. QED
  BY <1>1, <1>3, <1>4, <1>5, <1>6

LEMMA HandleType ==
  ASSUME NEW g \in Engines, NEW e \in Event,
         g.runtime \in [DOMAIN g.rules -> Runtime]
  PROVE  LET h == handle(g, e)
         IN /\ h \in Engines
            /\ h.snapshot.now = e.timestamp
            /\ h.runtime \in [DOMAIN g.rules -> Runtime]
<1> DEFINE h == handle(g, e)
           sn == apply(g.snapshot, e)
           rt == IF g.recovery_mode THEN g.runtime
                 ELSE [id \in DOMAIN g.rules |->
                         NextRuntime(g.rules[id], g.runtime[id], e, sn)]
<1>1. sn \in SnapshotType /\ sn.now = e.timestamp
  BY ApplyType DEF Engines
<1>2. rt \in [DOMAIN g.rules -> Runtime]
  BY NextRuntimeFields
<1>3. h.snapshot = sn /\ h.runtime = rt
  BY HandleFields
<1>4. h = [g EXCEPT !.snapshot = sn, !.runtime = rt]
  BY DEF handle
<1> HIDE DEF rt, sn
<1>5. h \in Engines
  <2>1. g.rules \in Config
    BY DEF Engines
  <2>2. QED
    BY <1>1, <1>2, <1>4, <2>1 DEF Engines
<1>6. QED
  BY <1>1, <1>2, <1>3, <1>5

-------------------------------------------------------------------------------
(* Every call leaves each runtime, each history entry and the snapshot within  *)
(* its type: TypeOK is an invariant of the engine under any order of calls.    *)
THEOREM TypeCorrect == Spec => []TypeOK
<1>1. Init => TypeOK
  <2> SUFFICES ASSUME Init PROVE TypeOK
    OBVIOUS
  <2>1. PICK rules \in Config, now \in Time, mode \in Mode :
          /\ engine = NewEngine(rules, now, mode)
          /\ firedAt = [id \in DOMAIN rules |-> {}]
          /\ held = [id \in DOMAIN rules |-> None]
    BY DEF Init
  <2>2. /\ engine \in Engines
        /\ engine.rules = rules
        /\ engine.runtime \in [DOMAIN rules -> Runtime]
    BY <2>1, NewEngineFields
  <2>3. QED
    BY <2>1, <2>2, EngineOfType DEF Init, TypeOK, RuleIds, Instant
<1>2. TypeOK /\ [Next]_vars => TypeOK'
  <2> SUFFICES ASSUME TypeOK, [Next]_vars PROVE TypeOK'
    OBVIOUS
  <2> USE DEF RuleIds
  <2>1. ASSUME NEW e \in Event, Handle(e) PROVE TypeOK'
    <3>1. CASE Panics(engine, e)
      BY <2>1, <3>1 DEF Handle, TypeOK
    <3>2. CASE ~Panics(engine, e)
      <4>1. /\ engine' = handle(engine, e)
            /\ event' = e
            /\ fired' \subseteq RuleIds
            /\ UNCHANGED panicked
        BY <2>1, <3>2 DEF Handle
      <4>2. /\ engine' \in Engines
            /\ engine'.rules = engine.rules
            /\ engine'.runtime \in [RuleIds -> Runtime]
        BY <4>1, TypedEngine, HandleFields, HandleType
      <4>3. firedAt' \in [RuleIds -> SUBSET Time]
        <5>1. \A id \in RuleIds : firedAt[id] \in SUBSET Time /\ e.timestamp \in Time
          BY EventTime DEF TypeOK
        <5>2. QED
          BY <2>1, <3>2, <5>1 DEF Handle
      <4>4. held' \in [RuleIds -> Instant]
        <5>1. \A id \in RuleIds : \A holds :
                /\ Extend(held[id], holds, e.timestamp) \in Instant
                /\ held[id] \in Instant
          BY EventTime DEF TypeOK, Extend, Instant
        <5>2. QED
          BY <2>1, <3>2, <5>1 DEF Handle
      <4>5. QED
        BY <4>1, <4>2, <4>3, <4>4, EngineOfType DEF TypeOK
    <3>3. QED
      BY <3>1, <3>2
  <2>2. ASSUME NEW enabled \in BOOLEAN, SetRecoveryMode(enabled) PROVE TypeOK'
    <3>1. /\ engine' \in Engines
          /\ engine'.rules = engine.rules
          /\ engine'.runtime \in [RuleIds -> Runtime]
      BY <2>2, TypedEngine, SetRecoveryModeFields DEF SetRecoveryMode
    <3>2. QED
      BY <2>2, <3>1, EngineOfType DEF SetRecoveryMode, NoEvent, TypeOK
  <2>3. ASSUME NEW mode \in Mode, SetMode(mode) PROVE TypeOK'
    <3>1. /\ engine' \in Engines
          /\ engine'.rules = engine.rules
          /\ engine'.runtime \in [RuleIds -> Runtime]
      BY <2>3, TypedEngine, SetModeFields DEF SetMode
    <3>2. QED
      BY <2>3, <3>1, EngineOfType DEF SetMode, NoEvent, TypeOK
  <2>4. ASSUME NEW rules \in Config, ReplaceRules(rules) PROVE TypeOK'
    <3>1. /\ engine' \in Engines
          /\ engine'.rules = rules
          /\ engine'.runtime \in [DOMAIN rules -> Runtime]
      BY <2>4, TypedEngine, ReplaceRulesFields DEF ReplaceRules
    <3>2. /\ firedAt' \in [DOMAIN rules -> SUBSET Time]
          /\ held' \in [DOMAIN rules -> Instant]
      BY <2>4 DEF ReplaceRules, TypeOK, Instant
    <3>3. QED
      BY <2>4, <3>1, <3>2, EngineOfType DEF ReplaceRules, NoEvent, TypeOK
  <2>5. CASE UNCHANGED vars
    BY <2>5 DEF vars, history, TypeOK
  <2>6. QED
    BY <2>1, <2>2, <2>3, <2>4, <2>5 DEF Next
<1>3. QED
  BY <1>1, <1>2, PTL DEF Spec

-------------------------------------------------------------------------------
(* What a candidate is.                                                        *)
LEMMA OffersFacts ==
  ASSUME NEW id, NEW rule, NEW v, NEW c \in Offers(id, rule, v),
         DOMAIN rule.actions \subseteq Nat
  PROVE  /\ v \in {"fire", "fail_closed", "alert"}
         /\ c.rule_id = id
         /\ c.priority = rule.priority
         /\ c.place \in Nat
         /\ c.action = IF v = "alert" THEN SensorAlert ELSE rule.actions[c.place]
         /\ v = "fail_closed" => FailClosedAction(c.action)
         /\ c = [rule_id |-> id, priority |-> rule.priority, place |-> c.place,
                 action |-> c.action]
<1>1. CASE v = "fire"
  BY <1>1 DEF Offers, Candidate
<1>2. CASE v = "fail_closed"
  BY <1>2 DEF Offers, Candidate
<1>3. CASE v = "alert"
  BY <1>3 DEF Offers, Candidate
<1>4. CASE v \notin {"fire", "fail_closed", "alert"}
  BY <1>4 DEF Offers
<1>5. QED
  BY <1>1, <1>2, <1>3, <1>4

LEMMA CandidateFacts ==
  ASSUME NEW g \in Engines, NEW e, NEW c \in Candidates(g, e)
  PROVE  /\ c.rule_id \in DOMAIN g.rules
         /\ c \in Offers(c.rule_id, g.rules[c.rule_id], RuleVerdict(g, c.rule_id, e))
         /\ c.rule_id \in Int /\ c.priority \in Int /\ c.place \in Nat
         /\ c.priority = g.rules[c.rule_id].priority
<1>1. PICK id \in DOMAIN g.rules : c \in Offers(id, g.rules[id], RuleVerdict(g, id, e))
  BY DEF Candidates
<1>2. g.rules \in Config
  BY DEF Engines
<1>3. /\ id \in Int /\ g.rules[id].priority \in Int
      /\ DOMAIN g.rules[id].actions \subseteq Nat
  BY <1>2, ConfigAssumption
<1>4. c.rule_id = id /\ c.priority = g.rules[id].priority /\ c.place \in Nat
  BY <1>1, <1>3, OffersFacts
<1>5. QED
  BY <1>1, <1>3, <1>4

(* Candidates are told apart by their place in the order Before, which is      *)
(* total on them.                                                              *)
LEMMA CandidateOrder ==
  ASSUME NEW g \in Engines, NEW e,
         NEW c \in Candidates(g, e), NEW d \in Candidates(g, e),
         ~Before(c, d), ~Before(d, c)
  PROVE  c = d
<1>1. c.rule_id = d.rule_id /\ c.place = d.place
  BY CandidateFacts DEF Before
<1> DEFINE id == c.rule_id
           rule == g.rules[id]
           v == RuleVerdict(g, id, e)
<1>2. c \in Offers(id, rule, v) /\ d \in Offers(id, rule, v)
  BY <1>1, CandidateFacts
<1>3. DOMAIN rule.actions \subseteq Nat
  BY CandidateFacts, ConfigAssumption DEF Engines
<1> HIDE DEF id, rule, v
<1>4. c.action = d.action /\ c.priority = d.priority
  BY <1>1, <1>2, <1>3, OffersFacts
<1>5. QED
  BY <1>1, <1>2, <1>3, <1>4, OffersFacts

LEMMA PlanFacts ==
  ASSUME NEW g \in Engines, NEW e
  PROVE  /\ \A c, d \in Plan(g, e) : SameKey(c, d) => c = d
         /\ g.recovery_mode => Plan(g, e) = {}
<1>1. \A c, d \in Plan(g, e) : SameKey(c, d) => c = d
  BY CandidateOrder DEF Plan, resolve_conflicts, SameKey
<1>2. ASSUME g.recovery_mode PROVE Plan(g, e) = {}
  BY <1>2 DEF Plan, resolve_conflicts, Candidates, RuleVerdict, Offers
<1>3. QED
  BY <1>1, <1>2

(* The plan of an event never holds two actions on the same target.            *)
THEOREM ConflictFree == Spec => []PlanConflictFree
<1>1. Init => PlanConflictFree
  BY DEF Init, PlanConflictFree
<1>2. TypeOK /\ PlanConflictFree /\ [Next]_vars => PlanConflictFree'
  <2> SUFFICES ASSUME TypeOK, PlanConflictFree, [Next]_vars PROVE PlanConflictFree'
    OBVIOUS
  <2>1. ASSUME NEW e \in Event, Handle(e) PROVE PlanConflictFree'
    <3>1. plan' = {} \/ plan' = Plan(engine, e)
      BY <2>1 DEF Handle
    <3>2. engine \in Engines
      BY TypedEngine
    <3>3. QED
      BY <3>1, <3>2, PlanFacts DEF PlanConflictFree
  <2>2. ASSUME NEW enabled \in BOOLEAN, SetRecoveryMode(enabled) PROVE PlanConflictFree'
    BY <2>2 DEF SetRecoveryMode, NoEvent, PlanConflictFree
  <2>3. ASSUME NEW mode \in Mode, SetMode(mode) PROVE PlanConflictFree'
    BY <2>3 DEF SetMode, NoEvent, PlanConflictFree
  <2>4. ASSUME NEW rules \in Config, ReplaceRules(rules) PROVE PlanConflictFree'
    BY <2>4 DEF ReplaceRules, NoEvent, PlanConflictFree
  <2>5. CASE UNCHANGED vars
    BY <2>5 DEF vars, PlanConflictFree
  <2>6. QED
    BY <2>1, <2>2, <2>3, <2>4, <2>5 DEF Next
<1>3. QED
  BY <1>1, <1>2, TypeCorrect, PTL DEF Spec

(* The first of finitely many rules in the order of the plan.                  *)
LEMMA LeastOf ==
  ASSUME NEW S \in SUBSET Nat, S # {}
  PROVE  \E x \in S : \A y \in S : x <= y
<1> DEFINE R == {ss \in Nat \X Nat : ss[1] < ss[2]}
<1>1. IsWellFoundedOn(R, Nat)
  BY NatLessThanWellFounded DEF OpToRel
<1> HIDE DEF R
<1>2. PICK x \in S : \A y \in S : ~(<<y, x>> \in R)
  BY <1>1, WFMin
<1>3. ASSUME NEW y \in S PROVE x <= y
  <2>1. x \in Nat /\ y \in Nat
    OBVIOUS
  <2>2. y < x => <<y, x>> \in R
    BY <2>1 DEF R
  <2>3. QED
    BY <1>2, <2>1, <2>2
<1>4. QED
  BY <1>3

RuleBefore(priority, i, j) ==
  priority[i] > priority[j] \/ (priority[i] = priority[j] /\ i < j)

LEMMA FirstRule ==
  ASSUME NEW I \in SUBSET Int, IsFiniteSet(I), I # {}, NEW priority,
         \A i \in I : priority[i] \in Int
  PROVE  \E i \in I : \A j \in I : ~RuleBefore(priority, j, i)
<1> DEFINE B(i) == {j \in I : RuleBefore(priority, j, i)}
           Ranks == {Cardinality(B(i)) : i \in I}
<1>1. ASSUME NEW i \in I PROVE IsFiniteSet(B(i)) /\ Cardinality(B(i)) \in Nat
  <2>1. B(i) \in SUBSET I
    OBVIOUS
  <2> HIDE DEF B
  <2>2. IsFiniteSet(B(i))
    BY <2>1, FS_Subset
  <2>3. QED
    BY <2>2, FS_CardinalityType
<1>2. PICK r \in Ranks : \A y \in Ranks : r <= y
  <2>1. Ranks \in SUBSET Nat /\ Ranks # {}
    BY <1>1
  <2> HIDE DEF Ranks
  <2>2. QED
    BY <2>1, LeastOf
<1>3. PICK i \in I : r = Cardinality(B(i))
  BY <1>2
<1>4. ASSUME NEW j \in I, RuleBefore(priority, j, i) PROVE FALSE
  <2>1. j \in B(i) /\ j \notin B(j)
    BY <1>4 DEF RuleBefore
  <2>2. B(j) \in SUBSET B(i)
    <3> SUFFICES ASSUME NEW k \in I, RuleBefore(priority, k, j) PROVE RuleBefore(priority, k, i)
      OBVIOUS
    <3>1. priority[i] \in Int /\ priority[j] \in Int /\ priority[k] \in Int
          /\ i \in Int /\ j \in Int /\ k \in Int
      OBVIOUS
    <3>2. QED
      BY <1>4, <3>1 DEF RuleBefore
  <2>3. Cardinality(B(j)) \in Ranks
    OBVIOUS
  <2>4. r <= Cardinality(B(j))
    BY <1>2, <2>3
  <2>5. IsFiniteSet(B(i)) /\ Cardinality(B(i)) \in Nat /\ Cardinality(B(j)) \in Nat
    BY <1>1
  <2> HIDE DEF B
  <2>6. Cardinality(B(j)) <= Cardinality(B(i)) /\ (Cardinality(B(i)) = Cardinality(B(j)) => B(i) = B(j))
    BY <2>2, <2>5, FS_Subset
  <2>7. Cardinality(B(i)) = Cardinality(B(j))
    BY <1>3, <2>4, <2>5, <2>6
  <2>8. QED
    BY <2>1, <2>6, <2>7
<1>5. QED
  BY <1>4

(* A candidate is planned, or one that is before it and has its key is.        *)
LEMMA PlannedOrBeaten ==
  ASSUME NEW g \in Engines, NEW e, NEW c \in Candidates(g, e)
  PROVE  c \in Plan(g, e) \/ \E d \in Plan(g, e) : SameKey(c, d) /\ d.priority >= c.priority
<1> DEFINE C == Candidates(g, e)
           K == {d \in C : SameKey(d, c)}
           I == {d.rule_id : d \in K}
<1>1. CASE K = {}
  BY <1>1 DEF Plan, resolve_conflicts
<1>2. CASE K # {}
  <2>0. SameKey(c, c)
    BY <1>2 DEF SameKey
  <2>1. I \in SUBSET Int /\ I # {} /\ I \in SUBSET DOMAIN g.rules
    BY <1>2, CandidateFacts
  <2>2. IsFiniteSet(I)
    <3>1. g.rules \in Config
      BY DEF Engines
    <3>2. IsFiniteSet(DOMAIN g.rules)
      BY <3>1, FiniteAssumption
    <3> HIDE DEF I
    <3>3. QED
      BY <2>1, <3>2, FS_Subset
  <2>3. PICK priority : priority = [i \in DOMAIN g.rules |-> g.rules[i].priority]
    OBVIOUS
  <2>4. \A d \in C : d.rule_id \in Int /\ d.priority \in Int /\ d.place \in Nat
                     /\ priority[d.rule_id] = d.priority
    BY <2>3, CandidateFacts
  <2>5. \A i \in I : priority[i] \in Int
    BY <2>4
  <2>6. PICK i \in I : \A j \in I : ~RuleBefore(priority, j, i)
    <3> HIDE DEF I
    <3> QED
      BY <2>1, <2>2, <2>5, FirstRule
  <2> DEFINE P == {d.place : d \in {x \in K : x.rule_id = i}}
  <2>7. PICK p \in P : \A q \in P : p <= q
    <3>1. P \in SUBSET Nat /\ P # {}
      BY <2>4, <2>6
    <3> HIDE DEF P
    <3> QED
      BY <3>1, LeastOf
  <2>8. PICK d \in K : d.rule_id = i /\ d.place = p
    BY <2>7
  <2>9. ASSUME NEW x \in K PROVE ~Before(x, d)
    <3>1. x.rule_id \in I
      OBVIOUS
    <3>2. ~RuleBefore(priority, x.rule_id, i)
      BY <2>6, <3>1
    <3>3. x.rule_id = i => p <= x.place
      BY <2>7
    <3>4. QED
      BY <2>4, <2>8, <3>2, <3>3 DEF Before, RuleBefore
  <2>10. \A x \in C : SameKey(x, d) => x \in K
    BY <2>8 DEF SameKey
  <2>11. d \in Plan(g, e)
    BY <2>9, <2>10 DEF Plan, resolve_conflicts
  <2>12. SameKey(c, d)
    BY <2>8 DEF SameKey
  <2>13. d.priority >= c.priority
    <3>1. c \in K
      BY <2>0
    <3>2. ~Before(c, d)
      BY <2>9, <3>1
    <3>3. QED
      BY <2>4, <2>8, <3>2 DEF Before
  <2>14. QED
    BY <2>11, <2>12, <2>13
<1>3. QED
  BY <1>1, <1>2

(* resolve_conflicts: an action that a rule offered is dropped only in favour  *)
(* of a planned one on the same target with at least its priority, for any     *)
(* rules, matchers and events.                                                 *)
THEOREM PriorityDecides == Spec => HighestPriorityWins
<1> DEFINE A == event' # None /\ ~panicked' =>
                  \A c \in Candidates(engine, event') :
                    \/ c \in plan'
                    \/ \E d \in plan' : SameKey(c, d) /\ d.priority >= c.priority
<1>1. ASSUME TypeOK, [Next]_vars, ~(UNCHANGED vars) PROVE A
  <2>1. ASSUME NEW e \in Event, Handle(e) PROVE A
    <3> SUFFICES ASSUME ~panicked' PROVE A
      OBVIOUS
    <3>1. event' = e /\ plan' = Plan(engine, e)
      BY <2>1 DEF Handle
    <3>2. engine \in Engines
      BY <1>1, TypedEngine
    <3>3. QED
      BY <3>1, <3>2, PlannedOrBeaten
  <2>2. ASSUME event' = None PROVE A
    BY <2>2
  <2>3. QED
    BY <1>1, <2>1, <2>2 DEF Next, SetRecoveryMode, SetMode, ReplaceRules, NoEvent
<1>2. TypeOK /\ [Next]_vars => [A]_vars
  BY <1>1
<1> HIDE DEF A
<1>3. Spec => [][A]_vars
  BY <1>2, TypeCorrect, PTL DEF Spec
<1>4. QED
  BY <1>3 DEF HighestPriorityWins, A

-------------------------------------------------------------------------------
(* What an event that does not panic does to one rule.                         *)
LEMMA HandleRule ==
  ASSUME TypeOK, NEW e \in Event, Handle(e), ~Panics(engine, e)
  PROVE  /\ engine'.rules = engine.rules
         /\ engine'.recovery_mode = engine.recovery_mode
         /\ engine'.snapshot.now = e.timestamp
         /\ engine.recovery_mode => engine'.runtime = engine.runtime /\ fired' = {}
         /\ ~engine.recovery_mode => \A id \in RuleIds :
              LET v == Verdict(engine.rules[id], engine.runtime[id], e,
                               apply(engine.snapshot, e))
              IN /\ engine'.runtime[id] =
                      NextRuntime(engine.rules[id], engine.runtime[id], e,
                                  apply(engine.snapshot, e))
                 /\ id \in fired' <=> v = "fire"
<1>1. engine \in Engines /\ engine.runtime \in [DOMAIN engine.rules -> Runtime]
  BY TypedEngine
<1>2. /\ engine' = handle(engine, e)
      /\ fired' = {id \in RuleIds : RuleVerdict(engine, id, e) = "fire"}
  BY DEF Handle
<1> DEFINE rt == IF engine.recovery_mode THEN engine.runtime
                 ELSE [id \in DOMAIN engine.rules |->
                         NextRuntime(engine.rules[id], engine.runtime[id], e,
                                     apply(engine.snapshot, e))]
<1>3. /\ engine'.rules = engine.rules
      /\ engine'.recovery_mode = engine.recovery_mode
      /\ engine'.runtime = rt
  BY <1>1, <1>2, HandleFields
<1>4. engine'.snapshot.now = e.timestamp
  BY <1>1, <1>2, HandleType
<1>5. ASSUME engine.recovery_mode PROVE engine'.runtime = engine.runtime /\ fired' = {}
  BY <1>2, <1>3, <1>5 DEF RuleVerdict
<1>6. ASSUME ~engine.recovery_mode, NEW id \in RuleIds
      PROVE  /\ engine'.runtime[id] =
                  NextRuntime(engine.rules[id], engine.runtime[id], e,
                              apply(engine.snapshot, e))
             /\ id \in fired' <=> Verdict(engine.rules[id], engine.runtime[id], e,
                                         apply(engine.snapshot, e)) = "fire"
  BY <1>2, <1>3, <1>6 DEF RuleVerdict, RuleIds
<1>7. QED
  BY <1>3, <1>4, <1>5, <1>6

(* Recovery mode plans nothing and leaves nothing armed that would act when it *)
(* ends.                                                                       *)
THEOREM RecoverySafe == Spec => []RecoverySuspends
<1>1. Init => RecoverySuspends
  <2> SUFFICES ASSUME Init PROVE ~engine.recovery_mode
    BY DEF RecoverySuspends
  <2>1. PICK rules \in Config, now \in Time, mode \in Mode :
          engine = NewEngine(rules, now, mode)
    BY DEF Init
  <2>2. QED
    BY <2>1, NewEngineFields
<1>2. TypeOK /\ RecoverySuspends /\ [Next]_vars => RecoverySuspends'
  <2> SUFFICES ASSUME TypeOK, RecoverySuspends, [Next]_vars PROVE RecoverySuspends'
    OBVIOUS
  <2>0. engine \in Engines /\ engine.runtime \in [DOMAIN engine.rules -> Runtime]
    BY TypedEngine
  <2>1. ASSUME NEW e \in Event, Handle(e) PROVE RecoverySuspends'
    <3>1. CASE Panics(engine, e)
      BY <2>1, <3>1 DEF Handle, RecoverySuspends, RuleIds
    <3>2. CASE ~Panics(engine, e)
      <4>1. plan' = Plan(engine, e)
        BY <2>1, <3>2 DEF Handle
      <4>2. QED
        BY <2>0, <2>1, <3>2, <4>1, PlanFacts, HandleRule DEF RecoverySuspends, RuleIds
    <3>3. QED
      BY <3>1, <3>2
  <2>2. ASSUME NEW enabled \in BOOLEAN, SetRecoveryMode(enabled) PROVE RecoverySuspends'
    <3>1. \A id \in RuleIds : engine.runtime[id] \in Runtime
      BY DEF TypeOK
    <3>2. QED
      BY <2>0, <2>2, <3>1, SetRecoveryModeFields, DisarmedFields
      DEF SetRecoveryMode, NoEvent, RecoverySuspends, RuleIds
  <2>3. ASSUME NEW mode \in Mode, SetMode(mode) PROVE RecoverySuspends'
    BY <2>0, <2>3, SetModeFields DEF SetMode, NoEvent, RecoverySuspends, RuleIds
  <2>4. ASSUME NEW rules \in Config, ReplaceRules(rules) PROVE RecoverySuspends'
    BY <2>0, <2>4, ReplaceRulesFields
    DEF ReplaceRules, NoEvent, RecoverySuspends, RuleIds, DefaultRuntime
  <2>5. CASE UNCHANGED vars
    BY <2>5 DEF vars, RecoverySuspends, RuleIds
  <2>6. QED
    BY <2>1, <2>2, <2>3, <2>4, <2>5 DEF Next
<1>3. QED
  BY <1>1, <1>2, TypeCorrect, PTL DEF Spec

-------------------------------------------------------------------------------
(* What a verdict says of the rule.                                            *)
LEMMA VerdictFacts ==
  ASSUME NEW rule, NEW rt, NEW e, NEW s,
         rule.on_sensor_failure \in {"ignore", "alert", "fail_closed"}
  PROVE  LET v == Verdict(rule, rt, e, s)
         IN /\ v = "fire" =>
                 /\ ~Suspended(rule, rt, e) /\ ~SensorLost(rule, e)
                 /\ ConditionsMatch(rule, s)
                 /\ IF rt.armed_at # None
                    THEN ~(elapsed(e.timestamp, rt.armed_at) < rule.sustain_for)
                    ELSE rule.sustain_for = 0
            /\ v = "arm" =>
                 /\ ~Suspended(rule, rt, e) /\ ~SensorLost(rule, e)
                 /\ ConditionsMatch(rule, s)
            /\ v \in {"alert", "fail_closed"} =>
                 SensorLost(rule, e) /\ rule.on_sensor_failure = v
            /\ v \notin {"fire", "arm", "disarm"} /\ rt.armed_at # None
                 /\ ~Suspended(rule, rt, e) /\ ~SensorLost(rule, e)
                 => ConditionsMatch(rule, s)
<1> DEFINE v == Verdict(rule, rt, e, s)
<1>1. CASE Suspended(rule, rt, e)
  BY <1>1 DEF Verdict
<1>2. CASE ~Suspended(rule, rt, e) /\ SensorLost(rule, e)
  BY <1>2 DEF Verdict
<1>3. CASE ~Suspended(rule, rt, e) /\ ~SensorLost(rule, e) /\ rt.armed_at # None
  BY <1>3 DEF Verdict
<1>4. CASE ~Suspended(rule, rt, e) /\ ~SensorLost(rule, e) /\ rt.armed_at = None
  BY <1>4 DEF Verdict
<1>5. QED
  BY <1>1, <1>2, <1>3, <1>4

(* A failed sensor makes a rule contribute an alert or its fail-closed actions *)
(* and nothing else, according to its policy.                                  *)
THEOREM FailureContained == Spec => []FailureRestricted
<1>1. Init => FailureRestricted
  BY DEF Init, FailureRestricted
<1>2. TypeOK /\ FailureRestricted /\ [Next]_vars => FailureRestricted'
  <2> SUFFICES ASSUME TypeOK, FailureRestricted, [Next]_vars PROVE FailureRestricted'
    OBVIOUS
  <2>1. ASSUME NEW e \in Event, Handle(e) PROVE FailureRestricted'
    <3>1. CASE Panics(engine, e)
      BY <2>1, <3>1 DEF Handle, FailureRestricted
    <3>2. CASE ~Panics(engine, e)
      <4> SUFFICES ASSUME NEW c \in plan', c.rule_id \notin fired'
                   PROVE  /\ SensorLost(engine.rules[c.rule_id], e)
                          /\ \/ c.action = SensorAlert
                             \/ /\ engine.rules[c.rule_id].on_sensor_failure = "fail_closed"
                                /\ FailClosedAction(c.action)
        BY <2>1, <3>2, HandleRule DEF FailureRestricted, Handle
      <4> DEFINE id == c.rule_id
                 v == RuleVerdict(engine, id, e)
      <4>1. engine \in Engines /\ c \in Candidates(engine, e)
        BY <2>1, <3>2, TypedEngine DEF Handle, Plan, resolve_conflicts
      <4>2. id \in RuleIds /\ c \in Offers(id, engine.rules[id], v)
        BY <4>1, CandidateFacts DEF RuleIds
      <4>3. /\ DOMAIN engine.rules[id].actions \subseteq Nat
            /\ engine.rules[id].on_sensor_failure \in {"ignore", "alert", "fail_closed"}
        BY <4>1, <4>2, ConfigAssumption DEF Engines, RuleIds
      <4>4. v # "fire"
        BY <2>1, <3>2, <4>2 DEF Handle
      <4>5. /\ v \in {"alert", "fail_closed"}
            /\ v = "alert" => c.action = SensorAlert
            /\ v = "fail_closed" => FailClosedAction(c.action)
        <5> HIDE DEF v, id
        <5> QED  BY <4>2, <4>3, <4>4, OffersFacts
      <4>6. SensorLost(engine.rules[id], e) /\ engine.rules[id].on_sensor_failure = v
        BY <4>3, <4>5, VerdictFacts DEF RuleVerdict
      <4>7. QED
        BY <4>5, <4>6
    <3>3. QED
      BY <3>1, <3>2
  <2>2. ASSUME NEW enabled \in BOOLEAN, SetRecoveryMode(enabled) PROVE FailureRestricted'
    BY <2>2 DEF SetRecoveryMode, NoEvent, FailureRestricted
  <2>3. ASSUME NEW mode \in Mode, SetMode(mode) PROVE FailureRestricted'
    BY <2>3 DEF SetMode, NoEvent, FailureRestricted
  <2>4. ASSUME NEW rules \in Config, ReplaceRules(rules) PROVE FailureRestricted'
    BY <2>4 DEF ReplaceRules, NoEvent, FailureRestricted
  <2>5. CASE UNCHANGED vars
    BY <2>5 DEF vars, history, FailureRestricted
  <2>6. QED
    BY <2>1, <2>2, <2>3, <2>4, <2>5 DEF Next
<1>3. QED
  BY <1>1, <1>2, TypeCorrect, PTL DEF Spec

-------------------------------------------------------------------------------
(* The strengthening SustainHonoured needs: an armed rule has seen its         *)
(* condition hold since it was armed at the latest.                            *)
ArmedHeld ==
  \A id \in RuleIds :
    engine.runtime[id].armed_at # None =>
      held[id] # None /\ held[id] <= engine.runtime[id].armed_at

LEMMA ConfigRule ==
  ASSUME TypeOK, NEW id \in RuleIds
  PROVE  /\ engine.rules[id].sustain_for \in Nat
         /\ engine.rules[id].cooldown \in Nat
         /\ engine.rules[id].on_sensor_failure \in {"ignore", "alert", "fail_closed"}
         /\ engine.runtime[id] \in Runtime
         /\ held[id] \in Instant
         /\ firedAt[id] \in SUBSET Time
  BY ConfigAssumption DEF TypeOK, EngineType, RuleIds

(* A rule with sustain_for fires only after it saw its condition hold, without *)
(* a break, for that long.                                                     *)
THEOREM SustainSafe == Spec => []SustainHonoured
<1> DEFINE Inv == ArmedHeld /\ SustainHonoured
<1>1. Init => Inv
  <2> SUFFICES ASSUME Init PROVE Inv
    OBVIOUS
  <2>1. PICK rules \in Config, now \in Time, mode \in Mode :
          engine = NewEngine(rules, now, mode)
    BY DEF Init
  <2>2. engine.rules = rules /\ engine.runtime = [id \in DOMAIN rules |-> DefaultRuntime]
    BY <2>1, NewEngineFields
  <2>3. QED
    BY <2>2 DEF Init, ArmedHeld, SustainHonoured, RuleIds, DefaultRuntime
<1>2. TypeOK /\ RecoverySuspends /\ Inv /\ [Next]_vars => Inv'
  <2> SUFFICES ASSUME TypeOK, RecoverySuspends, Inv, [Next]_vars PROVE Inv'
    OBVIOUS
  <2>0. engine \in Engines /\ engine.runtime \in [DOMAIN engine.rules -> Runtime]
    BY TypedEngine
  <2>1. ASSUME NEW e \in Event, Handle(e) PROVE Inv'
    <3>1. CASE Panics(engine, e)
      BY <2>1, <3>1 DEF Handle, ArmedHeld, SustainHonoured, RuleIds
    <3>2. CASE ~Panics(engine, e) /\ engine.recovery_mode
      BY <2>1, <3>2, HandleRule DEF ArmedHeld, SustainHonoured, RecoverySuspends, RuleIds
    <3>3. CASE ~Panics(engine, e) /\ ~engine.recovery_mode
      <4> SUFFICES ASSUME NEW id \in RuleIds
                   PROVE  /\ engine'.runtime[id].armed_at # None =>
                               /\ held'[id] # None
                               /\ held'[id] <= engine'.runtime[id].armed_at
                          /\ id \in fired' /\ engine.rules[id].sustain_for > 0 =>
                               /\ held'[id] # None
                               /\ elapsed(e.timestamp, held'[id]) >= engine.rules[id].sustain_for
        <5>1. fired' \subseteq RuleIds
          BY <2>1, <3>3 DEF Handle
        <5>2. QED
          BY <2>1, <3>3, <5>1, HandleRule DEF ArmedHeld, SustainHonoured, RuleIds
      <4> DEFINE rule == engine.rules[id]
                 rt == engine.runtime[id]
                 s == apply(engine.snapshot, e)
                 v == Verdict(rule, rt, e, s)
                 t == e.timestamp
      <4>1. /\ engine'.runtime[id] = NextRuntime(rule, rt, e, s)
            /\ id \in fired' <=> v = "fire"
        BY <2>1, <3>3, HandleRule
      <4>2. held'[id] = IF ~Suspended(rule, rt, e) /\ ~SensorLost(rule, e)
                        THEN Extend(held[id], ConditionsMatch(rule, s), t) ELSE held[id]
        BY <2>1, <3>3 DEF Handle, Looks
      <4>3. /\ rule.sustain_for \in Nat /\ rt \in Runtime /\ held[id] \in Instant
            /\ rule.on_sensor_failure \in {"ignore", "alert", "fail_closed"}
            /\ t \in Time /\ Time \subseteq Nat /\ None \notin Time
            /\ rt.armed_at \in Instant
        BY ConfigRule, EventTime, TimeAssumption DEF Runtime
      <4>4. rt.armed_at # None => held[id] # None /\ held[id] <= rt.armed_at
        BY DEF ArmedHeld
      <4>5. /\ v = "arm" => engine'.runtime[id].armed_at = t
            /\ v \in {"fire", "disarm"} => engine'.runtime[id].armed_at = None
            /\ v \notin {"arm", "fire", "disarm"} => engine'.runtime[id].armed_at = rt.armed_at
        <5> HIDE DEF rule, rt, s
        <5>1. rt \in Runtime
          BY <4>3
        <5>2. /\ v = "arm" => NextRuntime(rule, rt, e, s).armed_at = t
              /\ v \in {"fire", "disarm"} => NextRuntime(rule, rt, e, s).armed_at = None
              /\ v \notin {"arm", "fire", "disarm"} =>
                   NextRuntime(rule, rt, e, s).armed_at = rt.armed_at
          BY <5>1, NextRuntimeArmed
        <5>3. QED
          BY <4>1, <5>2
      <4>6. /\ v = "fire" =>
                 /\ ~Suspended(rule, rt, e) /\ ~SensorLost(rule, e)
                 /\ ConditionsMatch(rule, s)
                 /\ IF rt.armed_at # None
                    THEN ~(elapsed(t, rt.armed_at) < rule.sustain_for)
                    ELSE rule.sustain_for = 0
            /\ v = "arm" =>
                 /\ ~Suspended(rule, rt, e) /\ ~SensorLost(rule, e)
                 /\ ConditionsMatch(rule, s)
            /\ v \notin {"fire", "arm", "disarm"} /\ rt.armed_at # None
                 /\ ~Suspended(rule, rt, e) /\ ~SensorLost(rule, e)
                 => ConditionsMatch(rule, s)
        BY <4>3, VerdictFacts
      <4> HIDE DEF rule, rt, s, v, t
      <4>7. CASE v = "arm"
        <5>1. engine'.runtime[id].armed_at = t /\ id \notin fired'
          BY <4>1, <4>5, <4>7
        <5>2. held'[id] = Extend(held[id], TRUE, t)
          BY <4>2, <4>6, <4>7 DEF Extend
        <5>3. held'[id] # None /\ held'[id] <= t
          <6>1. CASE held[id] = None
            BY <4>3, <5>2, <6>1 DEF Extend
          <6>2. CASE held[id] \in Time
            <7>1. held[id] \in Nat /\ held[id] # None /\ t \in Nat /\ t # None
              BY <4>3, <6>2
            <7>2. QED
              BY <5>2, <7>1 DEF Extend
          <6>3. QED
            BY <4>3, <6>1, <6>2 DEF Instant
        <5>4. QED
          BY <5>1, <5>3
      <4>8. CASE v = "fire"
        <5>1. engine'.runtime[id].armed_at = None
          BY <4>5, <4>8
        <5>2. held'[id] = Extend(held[id], TRUE, t)
          BY <4>2, <4>6, <4>8 DEF Extend
        <5>3. ASSUME rule.sustain_for > 0
              PROVE  /\ rt.armed_at \in Time /\ held[id] \in Time
                     /\ held[id] <= rt.armed_at
                     /\ ~(elapsed(t, rt.armed_at) < rule.sustain_for)
          BY <4>3, <4>4, <4>6, <4>8, <5>3 DEF Instant
        <5>4. ASSUME rule.sustain_for > 0
              PROVE  held'[id] = held[id] /\ elapsed(t, held[id]) >= rule.sustain_for
          <6>1. /\ t \in Nat /\ rt.armed_at \in Nat /\ held[id] \in Nat
                /\ rule.sustain_for \in Nat /\ held[id] # None
            BY <4>3, <5>3, <5>4
          <6>2. t - rt.armed_at >= rule.sustain_for /\ held[id] < t
            BY <5>3, <5>4, <6>1 DEF elapsed
          <6>3. QED
            BY <5>2, <5>3, <5>4, <6>1, <6>2 DEF Extend, elapsed
        <5>5. QED
          BY <4>3, <5>1, <5>3, <5>4 DEF rule, t
      <4>9. CASE v = "disarm"
        BY <4>1, <4>5, <4>9
      <4>10. CASE v \notin {"arm", "fire", "disarm"}
        <5>1. engine'.runtime[id].armed_at = rt.armed_at /\ id \notin fired'
          BY <4>1, <4>5, <4>10
        <5>2. ASSUME rt.armed_at # None
              PROVE  held'[id] # None /\ held'[id] <= rt.armed_at
          <6>1. held'[id] = held[id] \/ held'[id] = Extend(held[id], TRUE, t)
            BY <4>2, <4>6, <4>10, <5>2 DEF Extend
          <6>2. /\ held[id] \in Nat /\ held[id] # None /\ held[id] <= rt.armed_at
                /\ t \in Nat /\ t # None /\ rt.armed_at \in Nat
            BY <4>3, <4>4, <5>2 DEF Instant
          <6>3. QED
            BY <6>1, <6>2 DEF Extend
        <5>3. QED
          BY <5>1, <5>2
      <4>11. QED
        BY <4>7, <4>8, <4>9, <4>10
    <3>4. QED
      BY <3>1, <3>2, <3>3
  <2>2. ASSUME NEW enabled \in BOOLEAN, SetRecoveryMode(enabled) PROVE Inv'
    <3>1. \A id \in RuleIds : engine.runtime[id] \in Runtime
      BY DEF TypeOK
    <3>2. QED
      BY <2>0, <2>2, <3>1, SetRecoveryModeFields, DisarmedFields
      DEF SetRecoveryMode, NoEvent, ArmedHeld, SustainHonoured, RuleIds
  <2>3. ASSUME NEW mode \in Mode, SetMode(mode) PROVE Inv'
    BY <2>0, <2>3, SetModeFields DEF SetMode, NoEvent, ArmedHeld, SustainHonoured, RuleIds
  <2>4. ASSUME NEW rules \in Config, ReplaceRules(rules) PROVE Inv'
    BY <2>0, <2>4, ReplaceRulesFields
    DEF ReplaceRules, NoEvent, ArmedHeld, SustainHonoured, RuleIds, DefaultRuntime
  <2>5. CASE UNCHANGED vars
    BY <2>5 DEF vars, history, ArmedHeld, SustainHonoured, RuleIds
  <2>6. QED
    BY <2>1, <2>2, <2>3, <2>4, <2>5 DEF Next
<1>3. QED
  BY <1>1, <1>2, TypeCorrect, RecoverySafe, PTL DEF Spec

-------------------------------------------------------------------------------
(* What FiresOnce needs: a rule that has fired is marked as such.              *)
FiredKnown ==
  \A id \in RuleIds : firedAt[id] # {} => engine.runtime[id].fired_once

(* A once_per_boot rule does not fire again while it stays configured.         *)
THEOREM OnceSafe == Spec => FiresOnce
<1>1. Init => FiredKnown
  <2> SUFFICES ASSUME Init PROVE FiredKnown
    OBVIOUS
  <2>1. PICK rules \in Config, now \in Time, mode \in Mode :
          /\ engine = NewEngine(rules, now, mode)
          /\ firedAt = [id \in DOMAIN rules |-> {}]
    BY DEF Init
  <2>2. engine.rules = rules /\ engine.runtime = [id \in DOMAIN rules |-> DefaultRuntime]
    BY <2>1, NewEngineFields
  <2>3. QED
    BY <2>1, <2>2 DEF FiredKnown, RuleIds, DefaultRuntime
<1>2. TypeOK /\ FiredKnown /\ [Next]_vars => FiredKnown'
  <2> SUFFICES ASSUME TypeOK, FiredKnown, [Next]_vars PROVE FiredKnown'
    OBVIOUS
  <2>0. engine \in Engines /\ engine.runtime \in [DOMAIN engine.rules -> Runtime]
    BY TypedEngine
  <2>1. ASSUME NEW e \in Event, Handle(e) PROVE FiredKnown'
    <3>1. CASE Panics(engine, e)
      BY <2>1, <3>1 DEF Handle, FiredKnown, RuleIds
    <3>2. CASE ~Panics(engine, e)
      <4>1. /\ \A id \in RuleIds : firedAt'[id] = IF id \in fired'
                                     THEN firedAt[id] \cup {e.timestamp} ELSE firedAt[id]
            /\ engine'.rules = engine.rules
        BY <2>1, <3>2, HandleRule DEF Handle
      <4>2. CASE engine.recovery_mode
        BY <2>1, <3>2, <4>1, <4>2, HandleRule DEF FiredKnown, RuleIds
      <4>3. CASE ~engine.recovery_mode
        <5> SUFFICES ASSUME NEW id \in RuleIds, firedAt'[id] # {}
                     PROVE  engine'.runtime[id].fired_once
          BY <4>1 DEF FiredKnown, RuleIds
        <5> DEFINE v == Verdict(engine.rules[id], engine.runtime[id], e,
                                apply(engine.snapshot, e))
        <5>1. /\ engine'.runtime[id] =
                   NextRuntime(engine.rules[id], engine.runtime[id], e,
                               apply(engine.snapshot, e))
              /\ id \in fired' <=> v = "fire"
          BY <2>1, <3>2, <4>3, HandleRule
        <5>2. engine.runtime[id] \in Runtime
          BY DEF TypeOK
        <5>3. /\ v = "fire" => engine'.runtime[id].fired_once
              /\ v # "fire" => engine'.runtime[id].fired_once = engine.runtime[id].fired_once
          BY <5>1, <5>2, NextRuntimeFired
        <5>4. QED
          BY <4>1, <5>1, <5>3 DEF FiredKnown
      <4>4. QED
        BY <4>2, <4>3
    <3>3. QED
      BY <3>1, <3>2
  <2>2. ASSUME NEW enabled \in BOOLEAN, SetRecoveryMode(enabled) PROVE FiredKnown'
    <3>1. \A id \in RuleIds : engine.runtime[id] \in Runtime
      BY DEF TypeOK
    <3>2. QED
      BY <2>0, <2>2, <3>1, SetRecoveryModeFields, DisarmedFields
      DEF SetRecoveryMode, NoEvent, FiredKnown, RuleIds
  <2>3. ASSUME NEW mode \in Mode, SetMode(mode) PROVE FiredKnown'
    BY <2>0, <2>3, SetModeFields DEF SetMode, NoEvent, FiredKnown, RuleIds
  <2>4. ASSUME NEW rules \in Config, ReplaceRules(rules) PROVE FiredKnown'
    BY <2>0, <2>4, ReplaceRulesFields DEF ReplaceRules, FiredKnown, RuleIds
  <2>5. CASE UNCHANGED vars
    BY <2>5 DEF vars, history, FiredKnown, RuleIds
  <2>6. QED
    BY <2>1, <2>2, <2>3, <2>4, <2>5 DEF Next
<1>3. TypeOK /\ FiredKnown /\ [Next]_vars =>
        [\A id \in fired' : engine.rules[id].once_per_boot => firedAt[id] = {}]_vars
  <2> SUFFICES ASSUME TypeOK, FiredKnown, Next, NEW id \in fired',
                      engine.rules[id].once_per_boot
               PROVE  firedAt[id] = {}
    OBVIOUS
  <2>1. PICK e \in Event : Handle(e) /\ ~Panics(engine, e)
    BY DEF Next, Handle, SetRecoveryMode, SetMode, ReplaceRules, NoEvent
  <2>2. id \in RuleIds
    BY <2>1 DEF Handle
  <2>3. Verdict(engine.rules[id], engine.runtime[id], e, apply(engine.snapshot, e)) = "fire"
    BY <2>1, <2>2, HandleRule
  <2>4. ~Suspended(engine.rules[id], engine.runtime[id], e)
    BY <2>2, <2>3, ConfigRule, VerdictFacts
  <2>5. QED
    BY <2>2, <2>4 DEF Suspended, FiredKnown
<1>4. QED
  BY <1>1, <1>2, <1>3, TypeCorrect, PTL DEF Spec, FiresOnce

-------------------------------------------------------------------------------
(* Reloads keep the cooldown of a rule.                                        *)
StableCooldown ==
  \A old, new \in Config : \A id \in DOMAIN old \cap DOMAIN new :
    old[id].cooldown = new[id].cooldown

(* What CooldownSpacing needs: last_fired is the latest of all the firings,    *)
(* whatever the order of the timestamps.                                       *)
LatestFiring ==
  \A id \in RuleIds : engine.rules[id].cooldown > 0 =>
    \A t \in firedAt[id] : /\ engine.runtime[id].last_fired # None
                           /\ t <= engine.runtime[id].last_fired

(* Two firings of a rule are a cooldown apart in event time, as long as        *)
(* reloads keep its cooldown.                                                  *)
THEOREM CooldownSafe == ASSUME StableCooldown PROVE Spec => CooldownSpacing
<1>1. Init => LatestFiring
  <2> SUFFICES ASSUME Init PROVE LatestFiring
    OBVIOUS
  <2>1. PICK rules \in Config, now \in Time, mode \in Mode :
          /\ engine = NewEngine(rules, now, mode)
          /\ firedAt = [id \in DOMAIN rules |-> {}]
    BY DEF Init
  <2>2. engine.rules = rules /\ engine.runtime = [id \in DOMAIN rules |-> DefaultRuntime]
    BY <2>1, NewEngineFields
  <2>3. QED
    BY <2>1, <2>2 DEF LatestFiring, RuleIds, DefaultRuntime
<1>2. TypeOK /\ LatestFiring /\ [Next]_vars => LatestFiring'
  <2> SUFFICES ASSUME TypeOK, LatestFiring, [Next]_vars PROVE LatestFiring'
    OBVIOUS
  <2>0. engine \in Engines /\ engine.runtime \in [DOMAIN engine.rules -> Runtime]
    BY TypedEngine
  <2>1. ASSUME NEW e \in Event, Handle(e) PROVE LatestFiring'
    <3>1. CASE Panics(engine, e)
      BY <2>1, <3>1 DEF Handle, LatestFiring, RuleIds
    <3>2. CASE ~Panics(engine, e)
      <4>1. /\ \A id \in RuleIds : firedAt'[id] = IF id \in fired'
                                     THEN firedAt[id] \cup {e.timestamp} ELSE firedAt[id]
            /\ engine'.rules = engine.rules
        BY <2>1, <3>2, HandleRule DEF Handle
      <4>2. CASE engine.recovery_mode
        BY <2>1, <3>2, <4>1, <4>2, HandleRule DEF LatestFiring, RuleIds
      <4>3. CASE ~engine.recovery_mode
        <5> SUFFICES ASSUME NEW id \in RuleIds, engine.rules[id].cooldown > 0,
                            NEW t \in firedAt'[id]
                     PROVE  /\ engine'.runtime[id].last_fired # None
                            /\ t <= engine'.runtime[id].last_fired
          BY <4>1 DEF LatestFiring, RuleIds
        <5> DEFINE v == Verdict(engine.rules[id], engine.runtime[id], e,
                                apply(engine.snapshot, e))
        <5>1. /\ engine'.runtime[id] =
                   NextRuntime(engine.rules[id], engine.runtime[id], e,
                               apply(engine.snapshot, e))
              /\ id \in fired' <=> v = "fire"
          BY <2>1, <3>2, <4>3, HandleRule
        <5>2. /\ engine.runtime[id] \in Runtime /\ engine.rules[id].cooldown \in Nat
              /\ engine.runtime[id].last_fired \in Instant
              /\ firedAt[id] \subseteq Nat
              /\ e.timestamp \in Nat /\ e.timestamp # None
              /\ Time \subseteq Nat
          BY ConfigRule, EventTime, TimeAssumption DEF Runtime
        <5>3. /\ v = "fire" => engine'.runtime[id].last_fired = e.timestamp
              /\ v # "fire" => engine'.runtime[id].last_fired = engine.runtime[id].last_fired
          BY <5>1, <5>2, NextRuntimeFired
        <5>4. CASE v # "fire"
          BY <4>1, <5>1, <5>3, <5>4 DEF LatestFiring
        <5>5. CASE v = "fire"
          <6>1. ~Suspended(engine.rules[id], engine.runtime[id], e)
            BY <5>5, ConfigRule, VerdictFacts
          <6>2. CASE t = e.timestamp
            BY <5>2, <5>3, <5>5, <6>2
          <6>3. CASE t \in firedAt[id]
            <7>1. /\ engine.runtime[id].last_fired # None
                  /\ t <= engine.runtime[id].last_fired
              BY <6>3 DEF LatestFiring
            <7>2. engine.runtime[id].last_fired \in Nat /\ t \in Nat
              BY <5>2, <6>3, <7>1 DEF Instant
            <7>3. ~(elapsed(e.timestamp, engine.runtime[id].last_fired)
                      < engine.rules[id].cooldown)
              BY <6>1, <7>1 DEF Suspended
            <7>4. engine.runtime[id].last_fired <= e.timestamp
              BY <5>2, <7>2, <7>3 DEF elapsed
            <7>5. QED
              BY <5>2, <5>3, <5>5, <7>1, <7>2, <7>4
          <6>4. QED
            BY <4>1, <5>1, <5>5, <6>2, <6>3
        <5>6. QED
          BY <5>4, <5>5
      <4>4. QED
        BY <4>2, <4>3
    <3>3. QED
      BY <3>1, <3>2
  <2>2. ASSUME NEW enabled \in BOOLEAN, SetRecoveryMode(enabled) PROVE LatestFiring'
    <3>1. \A id \in RuleIds : engine.runtime[id] \in Runtime
      BY DEF TypeOK
    <3>2. QED
      BY <2>0, <2>2, <3>1, SetRecoveryModeFields, DisarmedFields
      DEF SetRecoveryMode, NoEvent, LatestFiring, RuleIds
  <2>3. ASSUME NEW mode \in Mode, SetMode(mode) PROVE LatestFiring'
    BY <2>0, <2>3, SetModeFields DEF SetMode, NoEvent, LatestFiring, RuleIds
  <2>4. ASSUME NEW rules \in Config, ReplaceRules(rules) PROVE LatestFiring'
    <3>1. \A id \in DOMAIN rules : id \in RuleIds =>
            rules[id].cooldown = engine.rules[id].cooldown
      BY <2>0 DEF StableCooldown, Engines, RuleIds
    <3>2. QED
      BY <2>0, <2>4, <3>1, ReplaceRulesFields DEF ReplaceRules, LatestFiring, RuleIds
  <2>5. CASE UNCHANGED vars
    BY <2>5 DEF vars, history, LatestFiring, RuleIds
  <2>6. QED
    BY <2>1, <2>2, <2>3, <2>4, <2>5 DEF Next
<1>3. TypeOK /\ LatestFiring /\ [Next]_vars =>
        [\A id \in fired' : engine.rules[id].cooldown > 0 =>
           \A t \in firedAt[id] : event'.timestamp - t >= engine.rules[id].cooldown]_vars
  <2> SUFFICES ASSUME TypeOK, LatestFiring, Next, NEW id \in fired',
                      engine.rules[id].cooldown > 0, NEW t \in firedAt[id]
               PROVE  event'.timestamp - t >= engine.rules[id].cooldown
    OBVIOUS
  <2>1. PICK e \in Event : Handle(e) /\ ~Panics(engine, e)
    BY DEF Next, Handle, SetRecoveryMode, SetMode, ReplaceRules, NoEvent
  <2>2. id \in RuleIds /\ event' = e
    BY <2>1 DEF Handle
  <2>3. Verdict(engine.rules[id], engine.runtime[id], e, apply(engine.snapshot, e)) = "fire"
    BY <2>1, <2>2, HandleRule
  <2>4. ~Suspended(engine.rules[id], engine.runtime[id], e)
    BY <2>2, <2>3, ConfigRule, VerdictFacts
  <2>5. /\ engine.runtime[id].last_fired # None
        /\ t <= engine.runtime[id].last_fired
    BY <2>2 DEF LatestFiring
  <2>6. /\ engine.runtime[id].last_fired \in Nat /\ t \in Nat
        /\ e.timestamp \in Nat /\ engine.rules[id].cooldown \in Nat
    BY <2>2, <2>5, ConfigRule, EventTime, TimeAssumption DEF Instant, Runtime
  <2>7. ~(elapsed(e.timestamp, engine.runtime[id].last_fired) < engine.rules[id].cooldown)
    BY <2>4, <2>5 DEF Suspended
  <2>8. QED
    BY <2>2, <2>5, <2>6, <2>7 DEF elapsed
<1>4. QED
  BY <1>1, <1>2, <1>3, TypeCorrect, PTL DEF Spec, CooldownSpacing

-------------------------------------------------------------------------------
(* Reloads keep the number of steps of a rule that is a sequence.              *)
StableSequences ==
  \A old, new \in Config : \A id \in DOMAIN old \cap DOMAIN new :
    IsSequence(old[id].trigger) =>
      /\ IsSequence(new[id].trigger)
      /\ Len(old[id].trigger.steps) = Len(new[id].trigger.steps)

(* The strengthening NoPanic needs: a sequence is under way exactly when its   *)
(* window has a start, and never as far as its last step.                      *)
SequenceInRange ==
  \A id \in RuleIds :
    LET rt == engine.runtime[id]
    IN /\ rt.sequence_index > 0 <=> rt.sequence_started # None
       /\ rt.sequence_index > 0 => /\ IsSequence(engine.rules[id].trigger)
                                   /\ rt.sequence_index < Len(engine.rules[id].trigger.steps)

(* The tracker of a sequence of n steps.                                       *)
InRange(rt, n) ==
  /\ rt.sequence_index > 0 <=> rt.sequence_started # None
  /\ rt.sequence_index < n

LEMMA SequenceRuntimeRange ==
  ASSUME NEW rt \in Runtime, NEW e \in Event, NEW trigger,
         Len(trigger.steps) \in Nat \ {0, 1}, trigger.steps # <<>>,
         InRange(rt, Len(trigger.steps))
  PROVE  InRange(SequenceRuntime(rt, trigger, e), Len(trigger.steps))
<1> DEFINE base == IF WindowExpired(rt, trigger, e) THEN NoProgress(rt) ELSE rt
           seen == SequenceRuntime(rt, trigger, e)
           n == Len(trigger.steps)
           k == base.sequence_index
<1>1. base \in Runtime /\ InRange(base, n)
  <2>1. /\ NoProgress(rt) \in Runtime
        /\ NoProgress(rt).sequence_index = 0
        /\ NoProgress(rt).sequence_started = None
    BY DEF Runtime, NoProgress, Instant
  <2>2. InRange(NoProgress(rt), n)
    BY <2>1 DEF InRange
  <2>3. QED
    BY <2>1, <2>2
<1>2. e.timestamp # None /\ e.timestamp \in Instant /\ n \in Nat \ {0, 1} /\ k \in Nat
  <2>1. k \in Nat
    <3> HIDE DEF base
    <3> QED  BY <1>1 DEF Runtime
  <2>2. QED
    BY <2>1, EventTime, TimeAssumption DEF Instant
<1>3. CASE trigger_matches(trigger.steps[k + 1], e) /\ k + 1 = n
  <2>1. seen = NoProgress(base)
    BY <1>3 DEF SequenceRuntime
  <2> HIDE DEF base, seen, n
  <2>2. QED
    BY <1>1, <1>2, <2>1 DEF NoProgress, InRange, Runtime, seen, n
<1>4. CASE trigger_matches(trigger.steps[k + 1], e) /\ k + 1 # n
  <2>1. seen = [base EXCEPT !.sequence_index = k + 1,
                  !.sequence_started = IF k = 0 THEN e.timestamp ELSE base.sequence_started]
    BY <1>4, <1>1 DEF SequenceRuntime, Runtime
  <2> HIDE DEF base, seen, n
  <2>2. seen.sequence_index = k + 1
    BY <1>1, <2>1 DEF Runtime
  <2>3. seen.sequence_started = IF k = 0 THEN e.timestamp ELSE base.sequence_started
    BY <1>1, <2>1 DEF Runtime
  <2>4. QED
    BY <1>1, <1>2, <1>4, <2>2, <2>3 DEF InRange, seen, n
<1>5. CASE ~trigger_matches(trigger.steps[k + 1], e) /\ trigger_matches(trigger.steps[1], e)
  <2>1. seen = [base EXCEPT !.sequence_index = 1, !.sequence_started = e.timestamp]
    BY <1>5 DEF SequenceRuntime
  <2> HIDE DEF base, seen, n
  <2>2. seen.sequence_index = 1 /\ seen.sequence_started = e.timestamp
    BY <1>1, <2>1 DEF Runtime
  <2>3. 1 < n /\ e.timestamp # None
    BY <1>2
  <2>4. InRange(seen, n)
    BY <2>2, <2>3 DEF InRange
  <2>5. QED
    BY <2>4 DEF seen, n
<1>6. CASE ~trigger_matches(trigger.steps[k + 1], e) /\ ~trigger_matches(trigger.steps[1], e)
  <2>1. seen = base
    BY <1>6 DEF SequenceRuntime
  <2>2. QED
    BY <1>1, <2>1
<1>7. QED
  BY <1>3, <1>4, <1>5, <1>6

(* As long as reloads keep the number of steps of each sequence, a sequence    *)
(* tracker stays within its steps and handle never panics.                     *)
THEOREM SequenceSafe == ASSUME StableSequences PROVE Spec => []NoPanic
<1> DEFINE Inv == SequenceInRange /\ NoPanic
<1>1. Init => Inv
  <2> SUFFICES ASSUME Init PROVE Inv
    OBVIOUS
  <2>1. PICK rules \in Config, now \in Time, mode \in Mode :
          engine = NewEngine(rules, now, mode)
    BY DEF Init
  <2>2. engine.rules = rules /\ engine.runtime = [id \in DOMAIN rules |-> DefaultRuntime]
    BY <2>1, NewEngineFields
  <2>3. QED
    BY <2>2 DEF Init, SequenceInRange, NoPanic, RuleIds, DefaultRuntime
<1>2. TypeOK /\ Inv /\ [Next]_vars => Inv'
  <2> SUFFICES ASSUME TypeOK, Inv, [Next]_vars PROVE Inv'
    OBVIOUS
  <2>0. engine \in Engines /\ engine.runtime \in [DOMAIN engine.rules -> Runtime]
    BY TypedEngine
  <2>1. ASSUME NEW e \in Event, Handle(e) PROVE Inv'
    <3>1. \A id \in RuleIds : IsSequence(engine.rules[id].trigger) =>
            /\ Len(engine.rules[id].trigger.steps) \in Nat \ {0, 1}
            /\ engine.rules[id].trigger.steps # <<>>
            /\ InRange(engine.runtime[id], Len(engine.rules[id].trigger.steps))
      <4> SUFFICES ASSUME NEW id \in RuleIds, IsSequence(engine.rules[id].trigger)
                   PROVE  /\ Len(engine.rules[id].trigger.steps) \in Nat \ {0, 1}
                          /\ engine.rules[id].trigger.steps # <<>>
                          /\ InRange(engine.runtime[id], Len(engine.rules[id].trigger.steps))
        OBVIOUS
      <4>1. /\ Len(engine.rules[id].trigger.steps) \in Nat \ {0, 1}
            /\ engine.rules[id].trigger.steps # <<>>
        BY <2>0, ConfigAssumption DEF Engines, RuleIds
      <4>2. engine.runtime[id].sequence_index \in Nat
        BY DEF TypeOK, Runtime
      <4>3. QED
        BY <4>1, <4>2 DEF SequenceInRange, InRange
    <3>2. ~Panics(engine, e)
      <4> SUFFICES ASSUME NEW id \in RuleIds, IsSequence(engine.rules[id].trigger)
                   PROVE  ~(Progress(engine.runtime[id], engine.rules[id].trigger, e)
                              >= Len(engine.rules[id].trigger.steps))
        BY DEF Panics, RuleIds
      <4>1. engine.runtime[id].sequence_index \in Nat
        BY DEF TypeOK, Runtime
      <4>2. QED
        BY <3>1, <4>1 DEF Progress, InRange
    <3>3. CASE engine.recovery_mode
      BY <2>1, <3>2, <3>3, HandleRule DEF SequenceInRange, NoPanic, Handle, RuleIds
    <3>4. CASE ~engine.recovery_mode
      <4> SUFFICES ASSUME NEW id \in RuleIds
                   PROVE  LET rt == engine'.runtime[id]
                          IN /\ rt.sequence_index > 0 <=> rt.sequence_started # None
                             /\ rt.sequence_index > 0 =>
                                  /\ IsSequence(engine.rules[id].trigger)
                                  /\ rt.sequence_index < Len(engine.rules[id].trigger.steps)
        <5>1. UNCHANGED panicked /\ engine'.rules = engine.rules
          BY <2>1, <3>2, HandleRule DEF Handle
        <5>2. QED
          BY <5>1 DEF SequenceInRange, NoPanic, RuleIds
      <4> DEFINE rule == engine.rules[id]
                 old == engine.runtime[id]
                 seen == Observed(rule, old, e)
      <4>1. old \in Runtime
        BY DEF TypeOK
      <4>2. /\ engine'.runtime[id].sequence_index = seen.sequence_index
            /\ engine'.runtime[id].sequence_started = seen.sequence_started
        <5>1. engine'.runtime[id] = NextRuntime(rule, old, e, apply(engine.snapshot, e))
          BY <2>1, <3>2, <3>4, HandleRule
        <5>2. QED
          BY <4>1, <5>1, NextRuntimeFields
      <4>3. CASE IsSequence(rule.trigger) /\ Watches(rule, old, e)
        <5>1. seen = SequenceRuntime(old, rule.trigger, e)
          BY <4>3 DEF Observed
        <5>2. InRange(seen, Len(rule.trigger.steps))
          BY <3>1, <4>1, <4>3, <5>1, SequenceRuntimeRange
        <5>3. QED
          BY <4>2, <4>3, <5>2 DEF InRange
      <4>4. CASE ~(IsSequence(rule.trigger) /\ Watches(rule, old, e))
        <5>1. seen = old
          BY <4>4 DEF Observed
        <5>2. QED
          BY <4>2, <5>1 DEF SequenceInRange
      <4>5. QED
        BY <4>3, <4>4
    <3>5. QED
      BY <3>3, <3>4
  <2>2. ASSUME NEW enabled \in BOOLEAN, SetRecoveryMode(enabled) PROVE Inv'
    <3>1. \A id \in RuleIds : engine.runtime[id] \in Runtime
      BY DEF TypeOK
    <3>2. QED
      BY <2>0, <2>2, <3>1, SetRecoveryModeFields, DisarmedFields
      DEF SetRecoveryMode, NoEvent, SequenceInRange, NoPanic, RuleIds
  <2>3. ASSUME NEW mode \in Mode, SetMode(mode) PROVE Inv'
    BY <2>0, <2>3, SetModeFields DEF SetMode, NoEvent, SequenceInRange, NoPanic, RuleIds
  <2>4. ASSUME NEW rules \in Config, ReplaceRules(rules) PROVE Inv'
    <3>1. \A id \in DOMAIN rules : id \in RuleIds /\ IsSequence(engine.rules[id].trigger) =>
            /\ IsSequence(rules[id].trigger)
            /\ Len(rules[id].trigger.steps) = Len(engine.rules[id].trigger.steps)
      BY <2>0 DEF StableSequences, Engines, RuleIds
    <3>2. QED
      BY <2>0, <2>4, <3>1, ReplaceRulesFields
      DEF ReplaceRules, NoEvent, SequenceInRange, NoPanic, RuleIds, DefaultRuntime
  <2>5. CASE UNCHANGED vars
    BY <2>5 DEF vars, SequenceInRange, NoPanic, RuleIds
  <2>6. QED
    BY <2>1, <2>2, <2>3, <2>4, <2>5 DEF Next
<1>3. QED
  BY <1>1, <1>2, TypeCorrect, PTL DEF Spec
===============================================================================
