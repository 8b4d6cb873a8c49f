----------------------------- MODULE DaemonProofs -----------------------------
(* Proofs about Daemon, for all configurations, matchers, requests, kinds of   *)
(* events and numbers of faults and stops.                                     *)
EXTENDS Daemon, TLAPS

IsEngine(e) ==
  e = [rules |-> e.rules, runtime |-> e.runtime, snapshot |-> e.snapshot,
       recovery_mode |-> e.recovery_mode]

IsTask(t) ==
  t = [event |-> t.event, todo |-> t.todo, phase |-> t.phase, outcome |-> t.outcome,
       request |-> t.request]

IsSeq(s) == s \in Seq({s[i] : i \in DOMAIN s})

Planning == task # None /\ task.phase # "append"

Typed ==
  /\ TypeOK /\ clock \in Nat /\ acked \in BOOLEAN
  /\ up => IsEngine(engine) /\ engine.recovery_mode \in BOOLEAN
  /\ task # None => IsTask(task)
  /\ state = [mode |-> state.mode, recovery_mode |-> state.recovery_mode]
  /\ IsSeq(queue) /\ control \in Seq(Request) /\ IsSeq(runs)

(* An event that waits was never processed.                                    *)
QueueFits ==
  /\ \A i \in DOMAIN queue :
       queue[i].timestamp \in 1..clock /\ <<"event", queue[i].timestamp>> \notin audit
  /\ \A i, j \in DOMAIN queue : queue[i].timestamp = queue[j].timestamp => i = j
  /\ \A a \in audit : a[1] = "event" => a[2] \in 1..clock

(* The plan of an event that is recorded, and how far its first action is.     *)
PlanFits ==
  Planning =>
    /\ <<"event", task.event.timestamp>> \in audit
    /\ task.phase \in {"started", "execute", "executed"} =>
         Key \in DOMAIN ledger /\ ledger[Key] = "started"
    /\ task.phase = "execute" => <<"action_started", Key>> \in audit
    /\ task.phase = "executed" =>
         runs # <<>> /\ runs[Len(runs)] = [key |-> Key, outcome |-> task.outcome]
    /\ task.phase \in {"executed", "recorded", "effect"} /\ executor.dry_run =>
         task.outcome = "rehearsed"
    /\ task.phase = "effect" => task.outcome = "succeeded"

(* A run that did not fail is in the ledger, is about to be, or is one of an   *)
(* event that is over.                                                         *)
Settled ==
  \A i \in DOMAIN runs : runs[i].outcome # "failed" =>
    \/ ledger[runs[i].key] = "succeeded"
    \/ Planning /\ task.phase = "executed" /\ runs[i].key = Key
    \/ ~(Planning /\ runs[i].key[1] = task.event.timestamp)

RunsFit == AuditFirst /\ NeverRepeated /\ LedgerHonest /\ Settled

RecoveryFits ==
  /\ acked => state.recovery_mode /\ (up => engine.recovery_mode) /\ ~Planning
  /\ task # None /\ task.phase = "append" /\ task.request.type = "recovery"
       /\ task.request.enabled => state.recovery_mode /\ engine.recovery_mode

IInv == Typed /\ QueueFits /\ PlanFits /\ RunsFit /\ RecoveryFits

-------------------------------------------------------------------------------
(* Sequences and tasks                                                         *)
LEMMA AppendFacts ==
  ASSUME NEW s, IsSeq(s), NEW x
  PROVE  /\ IsSeq(Append(s, x)) /\ Len(s) \in Nat /\ Len(Append(s, x)) = Len(s) + 1
         /\ DOMAIN s = 1..Len(s) /\ DOMAIN Append(s, x) = 1..(Len(s) + 1)
         /\ \A i \in 1..Len(s) : Append(s, x)[i] = s[i]
         /\ Append(s, x)[Len(s) + 1] = x
<1> DEFINE S == {s[i] : i \in DOMAIN s} \cup {x}
           t == Append(s, x)
<1>1. s \in Seq(S) /\ x \in S
  BY DEF IsSeq
<1>2. /\ Len(s) \in Nat /\ Len(t) = Len(s) + 1 /\ t \in Seq(S)
      /\ DOMAIN s = 1..Len(s) /\ DOMAIN t = 1..(Len(s) + 1)
      /\ \A i \in 1..Len(s) : t[i] = s[i]
      /\ t[Len(s) + 1] = x
  <2> HIDE DEF S
  <2> QED
    BY <1>1
<1>3. IsSeq(t)
  <2> HIDE DEF S, t
  <2> QED
    BY <1>2 DEF IsSeq
<1>4. QED
  BY <1>2, <1>3

LEMMA TailFacts ==
  ASSUME NEW s, IsSeq(s), s # <<>>
  PROVE  /\ IsSeq(Tail(s)) /\ Len(Tail(s)) <= Len(s) /\ Len(s) \in Nat
         /\ 1 \in DOMAIN s /\ Head(s) = s[1]
         /\ \A i \in DOMAIN Tail(s) : i + 1 \in DOMAIN s /\ Tail(s)[i] = s[i + 1] /\ i \in Nat /\ i # 0
         /\ Len(Tail(s)) \in Nat
<1> DEFINE S == {s[i] : i \in DOMAIN s}
           t == Tail(s)
<1>1. s \in Seq(S)
  BY DEF IsSeq
<1>2. /\ Len(t) <= Len(s) /\ Len(s) \in Nat /\ t \in Seq(S) /\ Len(t) \in Nat
      /\ 1 \in DOMAIN s /\ Head(s) = s[1]
      /\ \A i \in DOMAIN t : i + 1 \in DOMAIN s /\ t[i] = s[i + 1] /\ i \in Nat /\ i # 0
  <2> HIDE DEF S
  <2> QED
    BY <1>1
<1>3. IsSeq(t)
  <2> HIDE DEF S, t
  <2> QED
    BY <1>2 DEF IsSeq
<1>4. QED
  BY <1>2, <1>3

LEMMA EmptyIsSeq == IsSeq(<<>>)
BY DEF IsSeq

LEMMA KeyStays ==
  ASSUME task'.event = task.event, task'.todo = task.todo PROVE Key' = Key
BY DEF Key, Current

(* The engine as the daemon uses it                                            *)
LEMMA SetModeFacts ==
  ASSUME NEW e, IsEngine(e), NEW m
  PROVE  /\ IsEngine(set_mode(e, m)) /\ set_mode(e, m).rules = e.rules
         /\ set_mode(e, m).recovery_mode = e.recovery_mode
BY DEF set_mode, IsEngine

LEMMA SetRecoveryFacts ==
  ASSUME NEW e, IsEngine(e), NEW b
  PROVE  /\ IsEngine(set_recovery_mode(e, b)) /\ set_recovery_mode(e, b).rules = e.rules
         /\ set_recovery_mode(e, b).recovery_mode = b
<1> DEFINE rt == IF b THEN [id \in DOMAIN e.runtime |-> Disarmed(e.runtime[id])] ELSE e.runtime
<1>1. set_recovery_mode(e, b) = [e EXCEPT !.recovery_mode = b, !.runtime = rt]
  BY DEF set_recovery_mode
<1> HIDE DEF rt
<1> QED
  BY <1>1 DEF IsEngine

LEMMA BootedFacts ==
  ASSUME NEW c
  PROVE  /\ IsEngine(Booted(c)) /\ Booted(c).rules = c.rules
         /\ Booted(c).recovery_mode = state.recovery_mode
<1> DEFINE e == NewEngine(c.rules, clock, initial_mode(c, state.mode))
<1>1. IsEngine(e) /\ e.rules = c.rules
  <2> DEFINE a == [id \in DOMAIN c.rules |-> DefaultRuntime]
             b == DefaultSnapshot(clock, initial_mode(c, state.mode))
  <2>1. e = [rules |-> c.rules, runtime |-> a, snapshot |-> b, recovery_mode |-> FALSE]
    BY DEF NewEngine
  <2> HIDE DEF a, b, e
  <2> QED
    BY <2>1 DEF IsEngine
<1>2. Booted(c) = set_recovery_mode(e, state.recovery_mode)
  BY DEF Booted
<1> HIDE DEF e
<1> QED
  BY <1>1, <1>2, SetRecoveryFacts

LEMMA ReplaceRulesFacts ==
  ASSUME NEW e, IsEngine(e), NEW r
  PROVE  /\ IsEngine(replace_rules(e, r)) /\ replace_rules(e, r).rules = r
         /\ replace_rules(e, r).recovery_mode = e.recovery_mode
<1> DEFINE rt == [id \in DOMAIN r |-> IF id \in DOMAIN e.runtime THEN e.runtime[id] ELSE DefaultRuntime]
<1>1. replace_rules(e, r) = [e EXCEPT !.rules = r, !.runtime = rt]
  BY DEF replace_rules
<1> HIDE DEF rt
<1> QED
  BY <1>1 DEF IsEngine

LEMMA HandleFacts ==
  ASSUME NEW e, IsEngine(e), NEW v
  PROVE  /\ IsEngine(handle(e, v)) /\ handle(e, v).rules = e.rules
         /\ handle(e, v).recovery_mode = e.recovery_mode
<1> DEFINE a == apply(e.snapshot, v)
           rt == IF e.recovery_mode THEN e.runtime
                ELSE [id \in DOMAIN e.rules |-> NextRuntime(e.rules[id], e.runtime[id], v, a)]
<1>1. handle(e, v) = [e EXCEPT !.snapshot = a, !.runtime = rt]
  BY DEF handle
<1> HIDE DEF rt, a
<1> QED
  BY <1>1 DEF IsEngine

(* In recovery mode there is nothing to do.                                    *)
LEMMA NoPlanInRecovery ==
  ASSUME NEW e, NEW v, e.recovery_mode PROVE Plan(e, v) = {}
<1>1. ASSUME NEW id PROVE RuleVerdict(e, id, v) = "skip"
  BY DEF RuleVerdict
<1>2. ASSUME NEW id PROVE Offers(id, e.rules[id], "skip") = {}
  BY DEF Offers
<1>3. Candidates(e, v) = {}
  BY <1>1, <1>2 DEF Candidates
<1>4. QED
  BY <1>3 DEF Plan, resolve_conflicts

-------------------------------------------------------------------------------
LEMMA StartsRight == Init => IInv
<1> SUFFICES ASSUME Init PROVE IInv
  OBVIOUS
<1> USE DEF Init
<1>1. Typed
  <2>1. TypeOK
    <3>1. Len(queue) <= EventBuffer
      BY DaemonAssumption
    <3>2. \A k \in DOMAIN ledger : ledger[k] \in {"started", "succeeded", "failed"}
      OBVIOUS
    <3>3. state.recovery_mode \in BOOLEAN
      OBVIOUS
    <3>4. QED
      BY <3>1, <3>2, <3>3 DEF TypeOK
  <2>2. acked \in BOOLEAN
    OBVIOUS
  <2>3. state = [mode |-> state.mode, recovery_mode |-> state.recovery_mode]
    OBVIOUS
  <2>4. control \in Seq(Request) /\ clock \in Nat
    OBVIOUS
  <2>5. QED
    BY <2>1, <2>2, <2>3, <2>4, EmptyIsSeq DEF Typed
<1>2. QueueFits /\ PlanFits
  BY DEF QueueFits, PlanFits, Planning
<1>3. RunsFit
  BY DEF RunsFit, AuditFirst, NeverRepeated, LedgerHonest, Settled
<1>4. RecoveryFits
  BY DEF RecoveryFits
<1>5. QED
  BY <1>1, <1>2, <1>3, <1>4 DEF IInv

-------------------------------------------------------------------------------
(* The steps of execute_plan.  What they have in common:                       *)
Doing(t) == IsTask(t) /\ t.phase \in Phases \ {"append"} /\ t.todo # {}

LEMMA PlanStep ==
  ASSUME IInv, Planning, up, UNCHANGED <<up, config, executor, queue, control, file, acked, clock>>,
         IsEngine(engine'), engine'.rules = engine.rules,
         engine'.recovery_mode = engine.recovery_mode,
         task' = None \/ Doing(task'),
         \A k \in DOMAIN ledger' : ledger'[k] \in {"started", "succeeded", "failed"},
         state' = [mode |-> state'.mode, recovery_mode |-> state.recovery_mode],
         IsSeq(runs')
  PROVE  Typed' /\ RecoveryFits'
<1>1. Typed /\ RecoveryFits
  BY DEF IInv
<1>2. state'.recovery_mode = state.recovery_mode /\ state'.recovery_mode \in BOOLEAN
  <2>1. state'.recovery_mode = state.recovery_mode
    OBVIOUS
  <2>2. state.recovery_mode \in BOOLEAN
    BY <1>1 DEF Typed, TypeOK
  <2>3. QED
    BY <2>1, <2>2
<1>3. TypeOK'
  BY <1>1, <1>2 DEF Typed, TypeOK, Doing
<1>4. Typed'
  <2>1. engine'.recovery_mode \in BOOLEAN /\ acked' \in BOOLEAN
    BY <1>1 DEF Typed
  <2>2. state' = [mode |-> state'.mode, recovery_mode |-> state'.recovery_mode]
    BY <1>2
  <2>3. IsSeq(queue)' /\ (control \in Seq(Request))' /\ clock' \in Nat
    BY <1>1 DEF Typed
  <2>4. task' # None => IsTask(task')
    BY DEF Doing
  <2>5. QED
    BY <1>3, <2>1, <2>2, <2>3, <2>4 DEF Typed
<1>5. RecoveryFits'
  <2>1. ~acked'
    BY <1>1 DEF RecoveryFits
  <2>2. ~(task' # None /\ task'.phase = "append")
    BY DEF Doing
  <2>3. QED
    BY <2>1, <2>2 DEF RecoveryFits
<1>6. QED
  BY <1>4, <1>5

LEMMA QueueStays ==
  ASSUME QueueFits, UNCHANGED <<queue, clock>>,
         audit' = audit \/ \E k : audit' = audit \cup {<<"action_started", k>>}
  PROVE  QueueFits'
<1>1. CASE audit' = audit
  BY <1>1 DEF QueueFits
<1>2. ASSUME NEW k, audit' = audit \cup {<<"action_started", k>>} PROVE QueueFits'
  <2>1. ASSUME NEW t PROVE <<"event", t>> \in audit' <=> <<"event", t>> \in audit
    BY <1>2
  <2>2. \A a \in audit' : a[1] = "event" => a \in audit
    BY <1>2
  <2>3. QED
    BY <2>1, <2>2 DEF QueueFits
<1>3. QED
  BY <1>1, <1>2

LEMMA AuditFirstStays ==
  ASSUME AuditFirst, UNCHANGED runs, audit \subseteq audit', DOMAIN ledger \subseteq DOMAIN ledger'
  PROVE  AuditFirst'
BY DEF AuditFirst

(* On to the next action                                                       *)
LEMMA NextActionStep ==
  ASSUME IInv, Planning, up, UNCHANGED <<executor, ledger, audit, runs>>,
         task.phase # "executed", NextAction
  PROVE  (task' = None \/ Doing(task')) /\ PlanFits' /\ RunsFit'
<1> DEFINE t == [task EXCEPT !.todo = @ \ {Current}, !.phase = "check"]
<1>1. /\ IsTask(t) /\ t.phase = "check" /\ t.event = task.event
      /\ task' = None \/ (task' = t /\ t.todo # {})
  <2>1. IsTask(task)
    BY DEF IInv, Typed, Planning
  <2>2. IsTask(t) /\ t.phase = "check" /\ t.event = task.event
    <3> DEFINE rest == task.todo \ {Current}
    <3>1. t = [task EXCEPT !.todo = rest, !.phase = "check"]
      OBVIOUS
    <3> HIDE DEF rest, t
    <3>2. QED
      BY <2>1, <3>1 DEF IsTask
  <2>3. Proceed(t)
    BY DEF NextAction
  <2> HIDE DEF t
  <2>4. QED
    BY <2>2, <2>3 DEF Proceed
<1> HIDE DEF t
<1>2. task' = None \/ Doing(task')
  BY <1>1 DEF Doing, Phases
<1>3. PlanFits'
  <2>1. CASE task' = None
    BY <2>1 DEF PlanFits, Planning
  <2>2. CASE task' = t
    <3>1. task'.phase = "check" /\ task'.event = task.event
      BY <1>1, <2>2
    <3>2. <<"event", task.event.timestamp>> \in audit
      BY DEF IInv, PlanFits
    <3>3. QED
      BY <3>1, <3>2 DEF PlanFits
  <2>3. QED
    BY <1>1, <2>1, <2>2
<1>4. AuditFirst' /\ NeverRepeated' /\ LedgerHonest'
  BY DEF IInv, RunsFit, AuditFirst, NeverRepeated, LedgerHonest
<1>5. Settled'
  <2>1. Planning' => task'.event = task.event
    BY <1>1 DEF Planning
  <2>2. Settled
    BY DEF IInv, RunsFit
  <2>3. ASSUME NEW i \in DOMAIN runs, runs[i].outcome # "failed"
        PROVE  ledger[runs[i].key] = "succeeded" \/ ~(runs[i].key[1] = task.event.timestamp)
    BY <2>2, <2>3 DEF Settled
  <2>4. QED
    BY <2>1, <2>3 DEF Settled
<1>6. QED
  BY <1>2, <1>3, <1>4, <1>5 DEF RunsFit

(* The phase changes and nothing else of the task.                             *)
LEMMA GotoStep ==
  ASSUME IInv, Planning, NEW to \in Phases \ {"append"}, Goto(to)
  PROVE  Doing(task') /\ task'.phase = to /\ task'.outcome = task.outcome
         /\ task'.event = task.event /\ Key' = Key
<1>1. IsTask(task) /\ task.todo # {}
  BY DEF IInv, Typed, TypeOK, Planning
<1>2. /\ IsTask(task') /\ task'.phase = to /\ task'.outcome = task.outcome
      /\ task'.event = task.event /\ task'.todo = task.todo
  BY <1>1 DEF Goto, IsTask
<1>3. QED
  BY <1>1, <1>2, KeyStays DEF Doing

LEMMA RecordActionFacts ==
  ASSUME NEW v, record_action(v)
  PROVE  /\ DOMAIN ledger' = DOMAIN ledger \cup {Key} /\ ledger'[Key] = v
         /\ \A k \in DOMAIN ledger : k # Key => ledger'[k] = ledger[k]
BY DEF record_action

LEMMA PhaseIsPlanning ==
  ASSUME NEW w, w # "append", Phase(w) PROVE Planning /\ up /\ task.phase = w
BY DEF Phase, Planning

(* The same for steps that leave the engine and the state alone.               *)
LEMMA QuietPlanStep ==
  ASSUME IInv, Planning, up, UNCHANGED <<up, config, executor, queue, control, file, acked, clock>>,
         UNCHANGED <<engine, state>>, task' = None \/ Doing(task'),
         \A k \in DOMAIN ledger' : ledger'[k] \in {"started", "succeeded", "failed"},
         IsSeq(runs')
  PROVE  Typed' /\ RecoveryFits'
<1>1. IsEngine(engine') /\ state' = [mode |-> state'.mode, recovery_mode |-> state.recovery_mode]
  BY DEF IInv, Typed
<1>2. QED
  BY <1>1, PlanStep

LEMMA SkipCompletedStep == ASSUME IInv, SkipCompleted PROVE IInv'
<1>1. Planning /\ up /\ task.phase = "check" /\ NextAction
  BY PhaseIsPlanning DEF SkipCompleted
<1>2. /\ UNCHANGED <<up, config, executor, queue, control, file, acked, clock>>
      /\ UNCHANGED <<engine, state, ledger, audit, runs>>
  BY DEF SkipCompleted, Elsewhere, durable, counters
<1>3. (task' = None \/ Doing(task')) /\ PlanFits' /\ RunsFit'
  BY <1>1, <1>2, NextActionStep
<1>4. /\ \A k \in DOMAIN ledger' : ledger'[k] \in {"started", "succeeded", "failed"}
      /\ IsSeq(runs')
  BY <1>2 DEF IInv, Typed, TypeOK
<1>5. Typed' /\ RecoveryFits'
  BY <1>1, <1>2, <1>3, <1>4, QuietPlanStep
<1>6. QueueFits'
  BY <1>2, QueueStays DEF IInv
<1>7. QED
  BY <1>3, <1>5, <1>6 DEF IInv

LEMMA RecordStartedStep == ASSUME IInv, RecordStarted PROVE IInv'
<1>1. Planning /\ up /\ task.phase = "check" /\ ~action_completed(Key) /\ Goto("started")
      /\ record_action("started")
  BY PhaseIsPlanning DEF RecordStarted
<1>2. /\ UNCHANGED <<up, config, executor, queue, control, file, acked, clock>>
      /\ UNCHANGED <<engine, state, audit, runs>>
  BY DEF RecordStarted, Elsewhere, counters
<1>3. /\ Doing(task') /\ task'.phase = "started" /\ task'.event = task.event /\ Key' = Key
  BY <1>1, GotoStep DEF Phases
<1>4. /\ DOMAIN ledger' = DOMAIN ledger \cup {Key} /\ ledger'[Key] = "started"
      /\ \A k \in DOMAIN ledger : k # Key => ledger'[k] = ledger[k]
  BY <1>1, RecordActionFacts
<1>5. /\ \A k \in DOMAIN ledger' : ledger'[k] \in {"started", "succeeded", "failed"}
      /\ IsSeq(runs')
  BY <1>2, <1>4 DEF IInv, Typed, TypeOK
<1>6. Typed' /\ RecoveryFits'
  BY <1>1, <1>2, <1>3, <1>5, QuietPlanStep
<1>7. QueueFits'
  BY <1>2, QueueStays DEF IInv
<1>8. PlanFits'
  BY <1>1, <1>2, <1>3, <1>4 DEF IInv, PlanFits
<1>9. AuditFirst' /\ NeverRepeated'
  BY <1>2, <1>4, AuditFirstStays DEF IInv, RunsFit, NeverRepeated
<1>10. LedgerHonest'
  <2>1. ASSUME NEW k \in DOMAIN ledger', ledger'[k] # "started"
        PROVE  k \in DOMAIN ledger /\ ledger'[k] = ledger[k]
    BY <1>4, <2>1
  <2>2. QED
    BY <1>2, <2>1 DEF IInv, RunsFit, LedgerHonest
<1>11. Settled'
  <2>1. ASSUME NEW i \in DOMAIN runs, runs[i].outcome # "failed"
        PROVE  ledger'[runs[i].key] = "succeeded" \/ runs[i].key[1] # task.event.timestamp
    <3>1. ledger[runs[i].key] = "succeeded" \/ runs[i].key[1] # task.event.timestamp
      BY <1>1, <2>1 DEF IInv, RunsFit, Settled
    <3>2. runs[i].key \in DOMAIN ledger
      BY DEF IInv, RunsFit, AuditFirst
    <3>3. ledger[runs[i].key] = "succeeded" => runs[i].key # Key
      BY <1>1, <3>2 DEF action_completed
    <3>4. QED
      BY <1>4, <3>1, <3>2, <3>3
  <2>2. QED
    BY <1>2, <1>3, <2>1 DEF Settled
<1>12. QED
  BY <1>6, <1>7, <1>8, <1>9, <1>10, <1>11 DEF IInv, RunsFit

LEMMA AuditStartedStep == ASSUME IInv, AuditStarted PROVE IInv'
<1>1. Planning /\ up /\ task.phase = "started" /\ Goto("execute")
      /\ audit' = audit \cup {<<"action_started", Key>>}
  BY PhaseIsPlanning DEF AuditStarted
<1>2. /\ UNCHANGED <<up, config, executor, queue, control, file, acked, clock>>
      /\ UNCHANGED <<engine, state, ledger, runs>>
  BY DEF AuditStarted, Elsewhere, counters
<1>3. /\ Doing(task') /\ task'.phase = "execute" /\ task'.event = task.event /\ Key' = Key
  BY <1>1, GotoStep DEF Phases
<1>4. /\ \A k \in DOMAIN ledger' : ledger'[k] \in {"started", "succeeded", "failed"}
      /\ IsSeq(runs')
  BY <1>2 DEF IInv, Typed, TypeOK
<1>5. Typed' /\ RecoveryFits'
  BY <1>1, <1>2, <1>3, <1>4, QuietPlanStep
<1>6. QueueFits'
  BY <1>1, <1>2, QueueStays DEF IInv
<1>7. PlanFits'
  BY <1>1, <1>2, <1>3 DEF IInv, PlanFits
<1>8. AuditFirst'
  BY <1>1, <1>2, AuditFirstStays DEF IInv, RunsFit
<1>9. NeverRepeated' /\ LedgerHonest'
  BY <1>2 DEF IInv, RunsFit, NeverRepeated, LedgerHonest
<1>10. Settled'
  <2>1. ASSUME NEW i \in DOMAIN runs, runs[i].outcome # "failed"
        PROVE  ledger[runs[i].key] = "succeeded" \/ runs[i].key[1] # task.event.timestamp
    BY <1>1, <2>1 DEF IInv, RunsFit, Settled
  <2>2. QED
    BY <1>2, <1>3, <2>1 DEF Settled
<1>11. QED
  BY <1>5, <1>6, <1>7, <1>8, <1>9, <1>10 DEF IInv, RunsFit

LEMMA ExecuteStep == ASSUME IInv, execute PROVE IInv'
<1>1. Planning /\ up /\ task.phase = "execute"
  BY PhaseIsPlanning DEF execute
<1>2. /\ UNCHANGED <<up, config, executor, queue, control, file, acked, clock>>
      /\ UNCHANGED <<engine, state, ledger, audit>>
  BY DEF execute, Elsewhere, durable, counters
<1>3. PICK o \in Outcomes(Current.action, executor) :
        /\ runs' = Append(runs, [key |-> Key, outcome |-> o])
        /\ task' = [task EXCEPT !.phase = "executed", !.outcome = o]
  BY DEF execute
<1>4. /\ Doing(task') /\ task'.phase = "executed" /\ task'.event = task.event /\ Key' = Key
      /\ task'.outcome = o
  <2>1. IsTask(task) /\ task.todo # {}
    BY <1>1 DEF IInv, Typed, TypeOK, Planning
  <2>2. /\ IsTask(task') /\ task'.phase = "executed" /\ task'.event = task.event
        /\ task'.todo = task.todo /\ task'.outcome = o
    BY <1>3, <2>1 DEF IsTask
  <2>3. QED
    BY <2>1, <2>2, KeyStays DEF Doing, Phases
<1> DEFINE n == Len(runs)
           new == [key |-> Key, outcome |-> o]
<1>5. new.key = Key /\ new.outcome = o
  OBVIOUS
<1>6. /\ IsSeq(runs') /\ n \in Nat /\ DOMAIN runs = 1..n /\ DOMAIN runs' = 1..(n + 1)
      /\ Len(runs') = n + 1 /\ runs'[n + 1] = new
      /\ \A i \in 1..n : runs'[i] = runs[i]
  BY <1>3, AppendFacts DEF IInv, Typed
<1> HIDE DEF n, new
<1>7. \A k \in DOMAIN ledger' : ledger'[k] \in {"started", "succeeded", "failed"}
  BY <1>2 DEF IInv, Typed, TypeOK
<1>8. Typed' /\ RecoveryFits'
  BY <1>1, <1>2, <1>4, <1>6, <1>7, QuietPlanStep
<1>9. QueueFits'
  BY <1>2, QueueStays DEF IInv
<1>10. /\ <<"event", task.event.timestamp>> \in audit /\ <<"action_started", Key>> \in audit
       /\ Key \in DOMAIN ledger /\ ledger[Key] = "started"
  BY <1>1 DEF IInv, PlanFits
<1>11. PlanFits'
  <2>1. runs' # <<>> /\ runs'[Len(runs')] = [key |-> Key', outcome |-> task'.outcome]
    BY <1>4, <1>6 DEF new
  <2>2. executor'.dry_run => task'.outcome = "rehearsed"
    BY <1>2, <1>3, <1>4 DEF Outcomes
  <2>3. QED
    BY <1>2, <1>4, <1>10, <2>1, <2>2 DEF PlanFits
<1>12. AuditFirst'
  <2>1. Key[1] = task.event.timestamp
    BY DEF Key
  <2>2. ASSUME NEW i \in DOMAIN runs'
        PROVE  /\ <<"event", runs'[i].key[1]>> \in audit /\ runs'[i].key \in DOMAIN ledger
               /\ <<"action_started", runs'[i].key>> \in audit
    <3>1. CASE i \in 1..n
      BY <1>6, <3>1 DEF IInv, RunsFit, AuditFirst
    <3>2. CASE i = n + 1
      BY <1>5, <1>6, <1>10, <2>1, <3>2
    <3>3. QED
      BY <1>6, <3>1, <3>2
  <2>3. QED
    BY <1>2, <2>2 DEF AuditFirst
<1>13. \A i \in 1..n : runs[i].key = Key => runs[i].outcome = "failed"
  <2>1. Key[1] = task.event.timestamp
    BY DEF Key
  <2>2. QED
    BY <1>1, <1>6, <1>10, <2>1 DEF IInv, RunsFit, Settled
<1>14. NeverRepeated'
  <2>1. ASSUME NEW i \in DOMAIN runs', NEW j \in DOMAIN runs', i < j, runs'[i].key = runs'[j].key
        PROVE  runs'[i].outcome = "failed"
    <3>1. i \in 1..n /\ runs'[i] = runs[i]
      BY <1>6, <2>1
    <3>2. CASE j \in 1..n
      BY <1>6, <2>1, <3>1, <3>2 DEF IInv, RunsFit, NeverRepeated
    <3>3. CASE j = n + 1
      BY <1>5, <1>6, <1>13, <2>1, <3>1, <3>3
    <3>4. QED
      BY <1>6, <3>2, <3>3
  <2>2. QED
    BY <2>1 DEF NeverRepeated
<1>15. LedgerHonest'
  <2>1. ASSUME NEW k \in DOMAIN ledger, ledger[k] # "started"
        PROVE  \E i \in DOMAIN runs' :
                 /\ runs'[i].key = k /\ \A j \in DOMAIN runs' : runs'[j].key = k => j <= i
                 /\ (ledger[k] = "failed") = (runs'[i].outcome = "failed")
    <3>1. k # Key
      BY <1>10, <2>1
    <3>2. PICK i \in DOMAIN runs :
            /\ runs[i].key = k /\ \A j \in DOMAIN runs : runs[j].key = k => j <= i
            /\ (ledger[k] = "failed") = (runs[i].outcome = "failed")
      BY <2>1 DEF IInv, RunsFit, LedgerHonest
    <3>3. i \in DOMAIN runs' /\ runs'[i] = runs[i]
      BY <1>6
    <3>4. \A j \in DOMAIN runs' : runs'[j].key = k => j \in 1..n /\ runs'[j] = runs[j]
      BY <1>5, <1>6, <3>1
    <3>5. \A j \in DOMAIN runs' : runs'[j].key = k => j <= i
      BY <1>6, <3>2, <3>4
    <3>6. QED
      BY <3>2, <3>3, <3>5
  <2>2. QED
    BY <1>2, <2>1 DEF LedgerHonest
<1>16. Settled'
  <2>1. ASSUME NEW i \in DOMAIN runs', runs'[i].outcome # "failed"
        PROVE  \/ ledger[runs'[i].key] = "succeeded" \/ runs'[i].key = Key
               \/ runs'[i].key[1] # task.event.timestamp
    <3>1. CASE i \in 1..n
      BY <1>1, <1>6, <2>1, <3>1 DEF IInv, RunsFit, Settled
    <3>2. CASE i = n + 1
      BY <1>5, <1>6, <3>2
    <3>3. QED
      BY <1>6, <3>1, <3>2
  <2>2. QED
    BY <1>2, <1>4, <2>1 DEF Settled
<1>17. QED
  BY <1>8, <1>9, <1>11, <1>12, <1>14, <1>15, <1>16 DEF IInv, RunsFit

LEMMA RecordOutcomeStep == ASSUME IInv, RecordOutcome PROVE IInv'
<1> DEFINE v == IF task.outcome = "failed" THEN "failed" ELSE "succeeded"
<1>1. Planning /\ up /\ task.phase = "executed" /\ Goto("recorded") /\ record_action(v)
  BY PhaseIsPlanning DEF RecordOutcome
<1>2. /\ UNCHANGED <<up, config, executor, queue, control, file, acked, clock>>
      /\ UNCHANGED <<engine, state, audit, runs>>
  BY DEF RecordOutcome, Elsewhere, counters
<1>3. /\ Doing(task') /\ task'.phase = "recorded" /\ task'.event = task.event /\ Key' = Key
      /\ task'.outcome = task.outcome
  BY <1>1, GotoStep DEF Phases
<1>4. /\ DOMAIN ledger' = DOMAIN ledger \cup {Key} /\ ledger'[Key] = v
      /\ \A k \in DOMAIN ledger : k # Key => ledger'[k] = ledger[k]
  BY <1>1, RecordActionFacts
<1>5. /\ \A k \in DOMAIN ledger' : ledger'[k] \in {"started", "succeeded", "failed"}
      /\ IsSeq(runs')
  BY <1>2, <1>4 DEF IInv, Typed, TypeOK
<1>6. Typed' /\ RecoveryFits'
  BY <1>1, <1>2, <1>3, <1>5, QuietPlanStep
<1>7. QueueFits'
  BY <1>2, QueueStays DEF IInv
<1>8. /\ runs # <<>> /\ runs[Len(runs)] = [key |-> Key, outcome |-> task.outcome]
      /\ <<"event", task.event.timestamp>> \in audit
      /\ executor.dry_run => task.outcome = "rehearsed"
  BY <1>1 DEF IInv, PlanFits
<1>9. PlanFits'
  BY <1>2, <1>3, <1>8 DEF PlanFits
<1> DEFINE n == Len(runs)
<1>10. /\ n \in DOMAIN runs /\ DOMAIN runs = 1..n /\ n \in Nat
       /\ runs[n].key = Key /\ runs[n].outcome = task.outcome
  BY <1>8, TailFacts, AppendFacts DEF IInv, Typed
<1> HIDE DEF n
<1>11. AuditFirst' /\ NeverRepeated'
  BY <1>2, <1>4, AuditFirstStays DEF IInv, RunsFit, NeverRepeated
<1>12. LedgerHonest'
  <2>1. ASSUME NEW k \in DOMAIN ledger', ledger'[k] # "started"
        PROVE  \E i \in DOMAIN runs :
                 /\ runs[i].key = k /\ \A j \in DOMAIN runs : runs[j].key = k => j <= i
                 /\ (ledger'[k] = "failed") = (runs[i].outcome = "failed")
    <3>1. CASE k = Key
      <4>1. \A j \in DOMAIN runs : j <= n
        BY <1>10
      <4>2. (ledger'[k] = "failed") = (runs[n].outcome = "failed")
        BY <1>4, <1>10, <3>1
      <4>3. QED
        BY <1>10, <3>1, <4>1, <4>2
    <3>2. CASE k # Key
      <4>1. k \in DOMAIN ledger /\ ledger'[k] = ledger[k]
        BY <1>4, <3>2
      <4>2. QED
        BY <2>1, <4>1 DEF IInv, RunsFit, LedgerHonest
    <3>3. QED
      BY <3>1, <3>2
  <2>2. QED
    BY <1>2, <2>1 DEF LedgerHonest
<1>13. Settled'
  <2>1. ASSUME NEW i \in DOMAIN runs, runs[i].outcome # "failed"
        PROVE  ledger'[runs[i].key] = "succeeded" \/ runs[i].key[1] # task.event.timestamp
    <3>1. CASE runs[i].key = Key
      <4>1. task.outcome # "failed"
        <5>1. CASE i = n
          BY <1>10, <2>1, <5>1
        <5>2. CASE i # n
          <6>1. i < n
            BY <1>10, <5>2
          <6>2. QED
            BY <1>10, <2>1, <3>1, <6>1 DEF IInv, RunsFit, NeverRepeated
        <5>3. QED
          BY <5>1, <5>2
      <4>2. QED
        BY <1>4, <3>1, <4>1
    <3>2. CASE runs[i].key # Key
      <4>1. ledger[runs[i].key] = "succeeded" \/ runs[i].key[1] # task.event.timestamp
        BY <1>1, <2>1, <3>2 DEF IInv, RunsFit, Settled
      <4>2. runs[i].key \in DOMAIN ledger
        BY DEF IInv, RunsFit, AuditFirst
      <4>3. QED
        BY <1>4, <3>2, <4>1, <4>2
    <3>3. QED
      BY <3>1, <3>2
  <2>2. QED
    BY <1>2, <1>3, <2>1 DEF Settled
<1>14. QED
  BY <1>6, <1>7, <1>9, <1>11, <1>12, <1>13 DEF IInv, RunsFit

LEMMA AuditOutcomeStep == ASSUME IInv, AuditOutcome PROVE IInv'
<1>1. Planning /\ up /\ task.phase = "recorded"
  BY PhaseIsPlanning DEF AuditOutcome
<1>2. /\ UNCHANGED <<up, config, executor, queue, control, file, acked, clock>>
      /\ UNCHANGED <<engine, state, ledger, audit, runs>>
  BY DEF AuditOutcome, Elsewhere, durable, counters
<1>3. (task' = None \/ Doing(task')) /\ PlanFits' /\ RunsFit'
  <2>1. CASE NextAction
    BY <1>1, <1>2, <2>1, NextActionStep
  <2>2. CASE task.outcome = "succeeded" /\ Goto("effect")
    <3>1. /\ Doing(task') /\ task'.phase = "effect" /\ task'.event = task.event
          /\ task'.outcome = task.outcome
      BY <1>1, <2>2, GotoStep DEF Phases
    <3>2. PlanFits'
      BY <1>1, <1>2, <2>2, <3>1 DEF IInv, PlanFits
    <3>3. AuditFirst' /\ NeverRepeated' /\ LedgerHonest'
      BY <1>2 DEF IInv, RunsFit, AuditFirst, NeverRepeated, LedgerHonest
    <3>4. ASSUME NEW i \in DOMAIN runs, runs[i].outcome # "failed"
          PROVE  ledger[runs[i].key] = "succeeded" \/ runs[i].key[1] # task.event.timestamp
      BY <1>1, <3>4 DEF IInv, RunsFit, Settled
    <3>5. Settled'
      BY <1>2, <3>1, <3>4 DEF Settled
    <3>6. QED
      BY <3>1, <3>2, <3>3, <3>5 DEF RunsFit
  <2>3. QED
    BY <2>1, <2>2 DEF AuditOutcome
<1>4. /\ \A k \in DOMAIN ledger' : ledger'[k] \in {"started", "succeeded", "failed"}
      /\ IsSeq(runs')
  BY <1>2 DEF IInv, Typed, TypeOK
<1>5. Typed' /\ RecoveryFits'
  BY <1>1, <1>2, <1>3, <1>4, QuietPlanStep
<1>6. QueueFits'
  BY <1>2, QueueStays DEF IInv
<1>7. QED
  BY <1>3, <1>5, <1>6 DEF IInv

LEMMA ApplyEffectStep == ASSUME IInv, apply_effect PROVE IInv'
<1>1. Planning /\ up /\ task.phase = "effect" /\ NextAction
  BY PhaseIsPlanning DEF apply_effect
<1>2. /\ UNCHANGED <<up, config, executor, queue, control, file, acked, clock>>
      /\ UNCHANGED <<ledger, audit, runs>>
  BY DEF apply_effect, Elsewhere, counters
<1>3. (task' = None \/ Doing(task')) /\ PlanFits' /\ RunsFit'
  BY <1>1, <1>2, NextActionStep
<1>4. /\ \A k \in DOMAIN ledger' : ledger'[k] \in {"started", "succeeded", "failed"}
      /\ IsSeq(runs')
  BY <1>2 DEF IInv, Typed, TypeOK
<1>5. IsEngine(engine) /\ state = [mode |-> state.mode, recovery_mode |-> state.recovery_mode]
  BY <1>1 DEF IInv, Typed
<1>6. /\ IsEngine(engine') /\ engine'.rules = engine.rules
      /\ engine'.recovery_mode = engine.recovery_mode
  BY <1>5, SetModeFacts DEF apply_effect
<1>7. state' = [mode |-> state'.mode, recovery_mode |-> state.recovery_mode]
  <2>1. CASE UNCHANGED state
    BY <1>5, <2>1
  <2>2. ASSUME NEW m, state' = [state EXCEPT !.mode = m]
        PROVE  state' = [mode |-> state'.mode, recovery_mode |-> state.recovery_mode]
    BY <1>5, <2>2
  <2>3. QED
    BY <2>1, <2>2 DEF apply_effect
<1>8. Typed' /\ RecoveryFits'
  BY <1>1, <1>2, <1>3, <1>4, <1>6, <1>7, PlanStep
<1>9. QueueFits'
  BY <1>2, QueueStays DEF IInv
<1>10. QED
  BY <1>3, <1>8, <1>9 DEF IInv

(* The task is over: its runs are those of an event that is over.              *)
LEMMA TaskEnds ==
  ASSUME IInv, ~Planning', UNCHANGED <<ledger, audit, runs>>
  PROVE  PlanFits' /\ RunsFit'
<1>1. PlanFits' /\ Settled'
  BY DEF PlanFits, Settled
<1>2. AuditFirst' /\ NeverRepeated' /\ LedgerHonest'
  BY DEF IInv, RunsFit, AuditFirst, NeverRepeated, LedgerHonest
<1>3. QED
  BY <1>1, <1>2 DEF RunsFit

-------------------------------------------------------------------------------
(* The other steps.  The loop between two tasks:                               *)
LEMMA RestStep ==
  ASSUME IInv, up, UNCHANGED <<up, file, audit, ledger, runs>>, clock' \in Nat,
         IsSeq(queue'), Len(queue') <= EventBuffer, control' \in Seq(Request), QueueFits',
         config' \in File, executor' = executor_for(config'),
         IsEngine(engine'), engine'.rules = config'.rules, engine'.recovery_mode \in BOOLEAN,
         state' = [mode |-> state'.mode, recovery_mode |-> state'.recovery_mode],
         state'.recovery_mode \in BOOLEAN, acked' \in BOOLEAN,
         task' = None \/ (IsTask(task') /\ task'.phase = "append" /\ task'.todo = {}),
         RecoveryFits'
  PROVE  IInv'
<1>1. ~Planning'
  BY DEF Planning
<1>2. PlanFits' /\ RunsFit'
  BY <1>1, TaskEnds
<1>3. TypeOK'
  BY DEF IInv, Typed, TypeOK, Phases, executor_for
<1>4. Typed'
  BY <1>3 DEF IInv, Typed
<1>5. QED
  BY <1>2, <1>4 DEF IInv

LEMMA QueueKept ==
  ASSUME QueueFits, UNCHANGED <<queue, audit>>, clock \in Nat, clock' \in {clock, clock + 1}
  PROVE  QueueFits'
BY DEF QueueFits

LEMMA QueueTail ==
  ASSUME QueueFits, IsSeq(queue), queue # <<>>, queue' = Tail(queue), UNCHANGED clock,
         audit' \in {audit, audit \cup {<<"event", queue[1].timestamp>>}}
  PROVE  QueueFits'
<1>1. \A i \in DOMAIN queue' :
        i + 1 \in DOMAIN queue /\ queue'[i] = queue[i + 1] /\ i \in Nat /\ i # 0
  BY TailFacts
<1>2. 1 \in DOMAIN queue
  BY TailFacts
<1>3. ASSUME NEW i \in DOMAIN queue'
      PROVE  queue'[i].timestamp \in 1..clock' /\ <<"event", queue'[i].timestamp>> \notin audit'
  <2>1. queue'[i].timestamp \in 1..clock /\ <<"event", queue'[i].timestamp>> \notin audit
    BY <1>1 DEF QueueFits
  <2>2. queue'[i].timestamp # queue[1].timestamp
    BY <1>1, <1>2 DEF QueueFits
  <2>3. QED
    BY <2>1, <2>2
<1>4. ASSUME NEW i \in DOMAIN queue', NEW j \in DOMAIN queue',
             queue'[i].timestamp = queue'[j].timestamp
      PROVE  i = j
  <2>1. i + 1 = j + 1
    BY <1>1, <1>4 DEF QueueFits
  <2>2. QED
    BY <1>1, <2>1
<1>5. \A a \in audit' : a[1] = "event" => a[2] \in 1..clock'
  BY <1>2 DEF QueueFits
<1>6. QED
  BY <1>3, <1>4, <1>5 DEF QueueFits

LEMMA QueueTicks ==
  ASSUME QueueFits, UNCHANGED queue, clock \in Nat, clock' = clock + 1,
         audit' \in {audit, audit \cup {<<"event", clock'>>}}
  PROVE  QueueFits'
<1>1. ASSUME NEW i \in DOMAIN queue
      PROVE  queue[i].timestamp \in 1..clock' /\ <<"event", queue[i].timestamp>> \notin audit'
  <2>1. queue[i].timestamp \in 1..clock /\ <<"event", queue[i].timestamp>> \notin audit
    BY DEF QueueFits
  <2>2. queue[i].timestamp # clock'
    BY <2>1
  <2>3. QED
    BY <2>1, <2>2
<1>2. \A a \in audit' : a[1] = "event" => a[2] \in 1..clock'
  BY DEF QueueFits
<1>3. QED
  BY <1>1, <1>2 DEF QueueFits

LEMMA ControlTail ==
  ASSUME Typed, control # <<>>
  PROVE  Head(control) \in Request /\ Tail(control) \in Seq(Request)
BY DEF Typed

(* An event that was not recorded before is processed.                         *)
LEMMA ProcessEventStep ==
  ASSUME IInv, Idle, NEW e, NEW r, process_event(e, r), <<"event", e.timestamp>> \notin audit,
         clock' \in Nat, IsSeq(queue'), Len(queue') <= EventBuffer, control' \in Seq(Request),
         QueueFits'
  PROVE  IInv'
<1> DEFINE t == [event |-> e, todo |-> Plan(engine, e), phase |-> "check",
                 outcome |-> None, request |-> r]
<1>1. /\ UNCHANGED <<up, config, executor, file, state, ledger, runs, acked>>
      /\ audit' = audit \cup {<<"event", e.timestamp>>} /\ engine' = handle(engine, e)
      /\ task' = None \/ (task' = t /\ t.todo # {})
  BY DEF process_event, Proceed
<1>2. IsTask(t) /\ t.phase = "check" /\ t.event = e /\ t.todo = Plan(engine, e)
  <2> DEFINE all == Plan(engine, e)
  <2>1. t = [event |-> e, todo |-> all, phase |-> "check", outcome |-> None, request |-> r]
    OBVIOUS
  <2> HIDE DEF all, t
  <2>2. IsTask(t) /\ t.phase = "check" /\ t.event = e /\ t.todo = all
    BY <2>1 DEF IsTask
  <2>3. QED
    BY <2>2 DEF all
<1> HIDE DEF t
<1>3. up /\ Typed /\ RecoveryFits
  BY DEF IInv, Idle
<1>4. /\ IsEngine(engine') /\ engine'.rules = engine.rules
      /\ engine'.recovery_mode = engine.recovery_mode
  BY <1>1, <1>3, HandleFacts DEF Typed
<1>5. TypeOK'
  BY <1>1, <1>2, <1>3, <1>4 DEF Typed, TypeOK, Phases
<1>6. Typed'
  BY <1>1, <1>2, <1>3, <1>4, <1>5 DEF Typed
<1>7. task' # None => task' = t
  BY <1>1
<1>8. PlanFits'
  <2>1. <<"event", e.timestamp>> \in audit'
    BY <1>1
  <2>2. QED
    BY <1>2, <1>7, <2>1 DEF PlanFits, Planning
<1>9. AuditFirst' /\ NeverRepeated' /\ LedgerHonest'
  <2>1. AuditFirst'
    BY <1>1, AuditFirstStays DEF IInv, RunsFit
  <2>2. QED
    BY <1>1, <2>1 DEF IInv, RunsFit, NeverRepeated, LedgerHonest
<1>10. Settled'
  <2>1. ASSUME NEW i \in DOMAIN runs PROVE runs[i].key[1] # e.timestamp
    BY DEF IInv, RunsFit, AuditFirst
  <2>2. Planning' => task'.event = e
    BY <1>2, <1>7 DEF Planning
  <2>3. QED
    BY <1>1, <2>1, <2>2 DEF Settled
<1>11. RecoveryFits'
  <2>1. acked => Plan(engine, e) = {}
    BY <1>3, NoPlanInRecovery DEF RecoveryFits
  <2>2. acked' => task' = None
    BY <1>1, <1>2, <2>1
  <2>3. task' # None => task'.phase = "check"
    BY <1>2, <1>7
  <2>4. QED
    BY <1>1, <1>3, <1>4, <2>2, <2>3 DEF RecoveryFits, Planning
<1>12. QED
  BY <1>6, <1>8, <1>9, <1>10, <1>11 DEF IInv, RunsFit

(* The process stops.                                                          *)
LEMMA DownStep ==
  ASSUME IInv, Down, UNCHANGED <<state, ledger, runs, acked>>, file' \in File \cup {Invalid},
         clock' \in Nat, audit \subseteq audit',
         \A a \in audit' : a[1] = "event" => a[2] \in 1..clock'
  PROVE  IInv'
<1>1. Typed /\ RecoveryFits
  BY DEF IInv
<1>2. /\ ~up' /\ task' = None /\ queue' = <<>> /\ control' = <<>>
      /\ config' = None /\ engine' = None /\ executor' = None
  BY DEF Down
<1>3. TypeOK'
  <2>1. Len(queue') <= EventBuffer
    BY <1>2, DaemonAssumption
  <2>2. state'.recovery_mode \in BOOLEAN
    BY <1>1 DEF Typed, TypeOK
  <2>3. QED
    BY <1>1, <1>2, <2>1, <2>2 DEF Typed, TypeOK
<1>4. Typed'
  <2>1. IsSeq(queue') /\ control' \in Seq(Request)
    BY <1>2, EmptyIsSeq
  <2>2. acked' \in BOOLEAN
    BY <1>1 DEF Typed
  <2>3. QED
    BY <1>1, <1>2, <1>3, <2>1, <2>2 DEF Typed
<1>5. ~Planning'
  BY <1>2 DEF Planning
<1>6. QueueFits' /\ PlanFits' /\ Settled'
  BY <1>2, <1>5 DEF QueueFits, PlanFits, Settled
<1>7. AuditFirst' /\ NeverRepeated' /\ LedgerHonest'
  <2>1. AuditFirst'
    BY AuditFirstStays DEF IInv, RunsFit
  <2>2. QED
    BY <2>1 DEF IInv, RunsFit, NeverRepeated, LedgerHonest
<1>8. RecoveryFits'
  BY <1>1, <1>2, <1>5 DEF RecoveryFits
<1>9. QED
  BY <1>4, <1>6, <1>7, <1>8 DEF IInv, RunsFit

-------------------------------------------------------------------------------
(* One lemma per action of the loop outside plans.                             *)
LEMMA ReceiveEventStep == ASSUME IInv, ReceiveEvent PROVE IInv'
<1>1. Idle /\ queue # <<>> /\ clock' = clock /\ up /\ task = None
  BY DEF ReceiveEvent, Idle
<1>2. Typed /\ QueueFits /\ clock \in Nat /\ IsSeq(queue) /\ control \in Seq(Request)
  BY DEF IInv, Typed
<1>3. Head(queue) = queue[1] /\ 1 \in DOMAIN queue
  BY <1>1, <1>2, TailFacts
<1>4. <<"event", Head(queue).timestamp>> \notin audit /\ Head(queue).timestamp \in 1..clock
  BY <1>2, <1>3 DEF QueueFits
<1>5. queue' = Tail(queue) => IsSeq(queue') /\ Len(queue') <= EventBuffer
  <2>1. Len(queue) <= EventBuffer
    BY <1>2 DEF Typed, TypeOK
  <2>2. QED
    BY <1>1, <1>2, <2>1, TailFacts, DaemonAssumption
<1>6. CASE process_event(Head(queue), None) /\ queue' = Tail(queue) /\ UNCHANGED control
  <2>1. audit' = audit \cup {<<"event", queue[1].timestamp>>}
    BY <1>3, <1>6 DEF process_event
  <2>2. QueueFits'
    BY <1>1, <1>2, <1>6, <2>1, QueueTail
  <2>3. QED
    BY <1>1, <1>2, <1>4, <1>5, <1>6, <2>2, ProcessEventStep
<1>7. CASE process_event_fails(None) /\ queue' = Tail(queue) /\ UNCHANGED control
  <2>1. UNCHANGED <<up, config, engine, executor, task, file, durable, runs, acked>>
    BY <1>7 DEF process_event_fails
  <2>2. QueueFits'
    BY <1>1, <1>2, <1>7, <2>1, QueueTail DEF durable
  <2>3. RecoveryFits'
    BY <1>1, <2>1 DEF IInv, RecoveryFits, Planning, durable
  <2>4. QED
    BY <1>1, <1>2, <1>5, <1>7, <2>1, <2>2, <2>3, RestStep DEF Typed, TypeOK, durable
<1>8. CASE process_event_panics(Head(queue))
  <2>1. /\ Down /\ UNCHANGED <<file, state, ledger, runs, acked>>
        /\ audit' = audit \cup {<<"event", Head(queue).timestamp>>}
    BY <1>8 DEF process_event_panics, history
  <2>2. \A a \in audit' : a[1] = "event" => a[2] \in 1..clock'
    BY <1>1, <1>2, <1>4, <2>1 DEF QueueFits
  <2>3. file' \in File \cup {Invalid}
    BY <1>2, <2>1 DEF Typed, TypeOK
  <2>4. QED
    BY <1>1, <1>2, <2>1, <2>2, <2>3, DownStep
<1>9. QED
  BY <1>6, <1>7, <1>8 DEF ReceiveEvent

LEMMA TriggerStep == ASSUME IInv, Trigger PROVE IInv'
<1>1. /\ Idle /\ control # <<>> /\ clock' = clock + 1 /\ up /\ task = None
  BY DEF Trigger, Handles, Idle
<1>2. Typed /\ QueueFits /\ clock \in Nat /\ IsSeq(queue)
  BY DEF IInv, Typed
<1>3. Tail(control) \in Seq(Request)
  BY <1>1, <1>2, ControlTail
<1>4. Len(queue) <= EventBuffer /\ clock' \in Nat
  BY <1>1, <1>2 DEF Typed, TypeOK
<1>5. PICK e, r :
        /\ e.timestamp = clock'
        /\ \/ process_event(e, r) /\ control' = Tail(control) /\ UNCHANGED queue
           \/ process_event_fails(r) /\ control' = Tail(control) /\ UNCHANGED queue
           \/ process_event_panics(e)
  BY DEF Trigger, Event
<1>6. <<"event", e.timestamp>> \notin audit
  BY <1>1, <1>2, <1>5 DEF QueueFits
<1>7. CASE process_event(e, r) /\ control' = Tail(control) /\ UNCHANGED queue
  <2>1. audit' = audit \cup {<<"event", clock'>>}
    BY <1>5, <1>7 DEF process_event
  <2>2. QueueFits'
    BY <1>1, <1>2, <1>7, <2>1, QueueTicks
  <2>3. QED
    BY <1>1, <1>2, <1>3, <1>4, <1>6, <1>7, <2>2, ProcessEventStep
<1>8. CASE process_event_fails(r) /\ control' = Tail(control) /\ UNCHANGED queue
  <2>1. UNCHANGED <<up, config, engine, executor, task, file, durable, runs, acked>>
    BY <1>8 DEF process_event_fails
  <2>2. QueueFits'
    BY <1>1, <1>2, <1>8, <2>1, QueueTicks DEF durable
  <2>3. RecoveryFits'
    BY <1>1, <2>1 DEF IInv, RecoveryFits, Planning, durable
  <2>4. QED
    BY <1>1, <1>2, <1>3, <1>4, <1>8, <2>1, <2>2, <2>3, RestStep DEF Typed, TypeOK, durable
<1>9. CASE process_event_panics(e)
  <2>1. /\ Down /\ UNCHANGED <<file, state, ledger, runs, acked>>
        /\ audit' = audit \cup {<<"event", clock'>>}
    BY <1>5, <1>9 DEF process_event_panics, history
  <2>2. \A a \in audit' : a[1] = "event" => a[2] \in 1..clock'
    BY <1>1, <1>2, <2>1 DEF QueueFits
  <2>3. file' \in File \cup {Invalid}
    BY <1>2, <2>1 DEF Typed, TypeOK
  <2>4. QED
    BY <1>4, <2>1, <2>2, <2>3, DownStep
<1>10. QED
  BY <1>5, <1>7, <1>8, <1>9

(* What the remaining requests have in common.                                 *)
LEMMA RequestFacts ==
  ASSUME IInv, Idle, control # <<>>, UNCHANGED <<up, queue, file, ledger, audit, runs, clock>>,
         control' = Tail(control)
  PROVE  /\ up /\ task = None /\ clock' \in Nat /\ IsSeq(queue') /\ Len(queue') <= EventBuffer
         /\ control' \in Seq(Request) /\ QueueFits' /\ Head(control) \in Request
         /\ config \in File /\ executor = executor_for(config)
         /\ IsEngine(engine) /\ engine.rules = config.rules /\ engine.recovery_mode \in BOOLEAN
         /\ state = [mode |-> state.mode, recovery_mode |-> state.recovery_mode]
         /\ state.recovery_mode \in BOOLEAN /\ acked \in BOOLEAN
         /\ acked => state.recovery_mode /\ engine.recovery_mode
<1>1. Typed /\ QueueFits /\ RecoveryFits /\ up /\ task = None
  BY DEF IInv, Idle
<1>2. QueueFits'
  BY <1>1, QueueKept DEF Typed
<1>3. QED
  BY <1>1, <1>2, ControlTail DEF Typed, TypeOK, RecoveryFits

LEMMA AppendRecordFacts ==
  ASSUME NEW r
  PROVE  /\ IsTask(AppendRecord(r)) /\ AppendRecord(r).phase = "append"
         /\ AppendRecord(r).todo = {} /\ AppendRecord(r).request = r
BY DEF AppendRecord, IsTask

LEMMA SetModeStep == ASSUME IInv, SetMode PROVE IInv'
<1>1. PICK r : /\ r = Head(control) /\ r.type = "set_mode"
  BY DEF SetMode, Handles
<1>2. /\ Idle /\ control # <<>> /\ control' = Tail(control)
      /\ UNCHANGED <<up, queue, file, ledger, audit, runs, clock, config, executor, acked>>
      /\ engine' = set_mode(engine, r.mode) \/ engine' = engine
      /\ state' = [state EXCEPT !.mode = r.mode] \/ state' = state
      /\ task' = AppendRecord(r) \/ task' = task
  BY <1>1 DEF SetMode, Handles, Rest
<1>3. /\ up /\ task = None /\ clock' \in Nat /\ IsSeq(queue') /\ Len(queue') <= EventBuffer
      /\ control' \in Seq(Request) /\ QueueFits'
      /\ config \in File /\ executor = executor_for(config)
      /\ IsEngine(engine) /\ engine.rules = config.rules /\ engine.recovery_mode \in BOOLEAN
      /\ state = [mode |-> state.mode, recovery_mode |-> state.recovery_mode]
      /\ state.recovery_mode \in BOOLEAN /\ acked \in BOOLEAN
      /\ acked => state.recovery_mode /\ engine.recovery_mode
  BY <1>2, RequestFacts
<1>4. /\ IsEngine(engine') /\ engine'.rules = config'.rules
      /\ engine'.recovery_mode = engine.recovery_mode
  BY <1>2, <1>3, SetModeFacts
<1>5. /\ state' = [mode |-> state'.mode, recovery_mode |-> state'.recovery_mode]
      /\ state'.recovery_mode = state.recovery_mode
  BY <1>2, <1>3
<1>6. /\ task' = None \/ (IsTask(task') /\ task'.phase = "append" /\ task'.todo = {})
      /\ task' # None => task'.request.type = "set_mode"
  BY <1>1, <1>2, <1>3, AppendRecordFacts
<1>7. RecoveryFits'
  BY <1>2, <1>3, <1>4, <1>5, <1>6 DEF RecoveryFits, Planning
<1>8. /\ engine'.recovery_mode \in BOOLEAN /\ state'.recovery_mode \in BOOLEAN
      /\ acked' \in BOOLEAN /\ config' \in File /\ executor' = executor_for(config')
  BY <1>2, <1>3, <1>4, <1>5
<1>9. QED
  BY <1>2, <1>3, <1>4, <1>5, <1>6, <1>7, <1>8, RestStep

LEMMA RecoveryStep == ASSUME IInv, Recovery PROVE IInv'
<1>1. PICK r : r = Head(control) /\ r.type = "recovery"
  BY DEF Recovery, Handles
<1>2. /\ Idle /\ control # <<>> /\ control' = Tail(control)
      /\ UNCHANGED <<up, queue, file, ledger, audit, runs, clock, config, executor>>
      /\ engine' = set_recovery_mode(engine, r.enabled) /\ acked' = (acked /\ r.enabled)
      /\ \/ state' = [state EXCEPT !.recovery_mode = r.enabled] /\ task' = AppendRecord(r)
         \/ state' = state /\ task' = task
  BY <1>1 DEF Recovery, Handles, Rest
<1>3. /\ up /\ task = None /\ clock' \in Nat /\ IsSeq(queue') /\ Len(queue') <= EventBuffer
      /\ control' \in Seq(Request) /\ QueueFits' /\ Head(control) \in Request
      /\ config \in File /\ executor = executor_for(config)
      /\ IsEngine(engine) /\ engine.rules = config.rules /\ engine.recovery_mode \in BOOLEAN
      /\ state = [mode |-> state.mode, recovery_mode |-> state.recovery_mode]
      /\ state.recovery_mode \in BOOLEAN /\ acked \in BOOLEAN
      /\ acked => state.recovery_mode /\ engine.recovery_mode
  BY <1>2, RequestFacts
<1>4. r.enabled \in BOOLEAN
  BY <1>1, <1>3, DaemonAssumption
<1>5. /\ IsEngine(engine') /\ engine'.rules = config'.rules /\ engine'.recovery_mode = r.enabled
  BY <1>2, <1>3, SetRecoveryFacts
<1>6. /\ state' = [mode |-> state'.mode, recovery_mode |-> state'.recovery_mode]
      /\ \/ state'.recovery_mode = r.enabled
         \/ state'.recovery_mode = state.recovery_mode /\ task' = None
  BY <1>2, <1>3
<1>7. /\ task' = None \/ (IsTask(task') /\ task'.phase = "append" /\ task'.todo = {})
      /\ task' # None => task'.request = r
  BY <1>2, <1>3, AppendRecordFacts
<1>8. RecoveryFits'
  <2>1. acked' => acked /\ r.enabled
    BY <1>2
  <2>2. ~Planning'
    BY <1>7 DEF Planning
  <2>3. acked' => state'.recovery_mode /\ engine'.recovery_mode
    BY <1>3, <1>4, <1>5, <1>6, <2>1
  <2>4. task' # None /\ task'.request.enabled => state'.recovery_mode /\ engine'.recovery_mode
    BY <1>4, <1>5, <1>6, <1>7
  <2>5. QED
    BY <2>2, <2>3, <2>4 DEF RecoveryFits
<1>9. /\ engine'.recovery_mode \in BOOLEAN /\ state'.recovery_mode \in BOOLEAN
      /\ acked' \in BOOLEAN /\ config' \in File /\ executor' = executor_for(config')
  BY <1>2, <1>3, <1>4, <1>5, <1>6
<1>10. QED
  BY <1>2, <1>3, <1>5, <1>6, <1>7, <1>8, <1>9, RestStep

LEMMA ConfirmStep == ASSUME IInv, Confirm PROVE IInv'
<1>1. /\ up /\ task # None /\ task.phase = "append" /\ task' = None
      /\ UNCHANGED <<up, queue, control, file, ledger, audit, runs, clock, config, engine,
                     executor, state>>
      /\ acked' = (acked \/ (task.request.type = "recovery" /\ task.request.enabled))
  BY DEF Confirm, Phase, Rest
<1>2. Typed /\ QueueFits /\ RecoveryFits
  BY DEF IInv
<1>3. QueueFits'
  BY <1>1, <1>2, QueueKept DEF Typed
<1>4. RecoveryFits'
  <2>1. acked' => state.recovery_mode /\ engine.recovery_mode
    BY <1>1, <1>2 DEF RecoveryFits
  <2>2. QED
    BY <1>1, <2>1 DEF RecoveryFits, Planning
<1>5. acked' \in BOOLEAN
  BY <1>1
<1>6. QED
  BY <1>1, <1>2, <1>3, <1>4, <1>5, RestStep DEF Typed, TypeOK

LEMMA ReloadStep == ASSUME IInv, Reload PROVE IInv'
<1>1. /\ Idle /\ control # <<>> /\ control' = Tail(control)
      /\ UNCHANGED <<up, queue, file, ledger, audit, runs, clock, task, state, acked>>
      /\ \/ UNCHANGED <<config, engine, executor>>
         \/ /\ file # Invalid /\ engine' = replace_rules(engine, file.rules)
            /\ executor' = executor_for(file) /\ config' = file
  BY DEF Reload, Handles, Rest
<1>2. /\ up /\ task = None /\ clock' \in Nat /\ IsSeq(queue') /\ Len(queue') <= EventBuffer
      /\ control' \in Seq(Request) /\ QueueFits' /\ Head(control) \in Request
      /\ config \in File /\ executor = executor_for(config)
      /\ IsEngine(engine) /\ engine.rules = config.rules /\ engine.recovery_mode \in BOOLEAN
      /\ state = [mode |-> state.mode, recovery_mode |-> state.recovery_mode]
      /\ state.recovery_mode \in BOOLEAN /\ acked \in BOOLEAN
      /\ acked => state.recovery_mode /\ engine.recovery_mode
  BY <1>1, RequestFacts
<1>3. file \in File \cup {Invalid}
  BY DEF IInv, Typed, TypeOK
<1>4. /\ IsEngine(engine') /\ engine'.rules = config'.rules
      /\ engine'.recovery_mode = engine.recovery_mode
  BY <1>1, <1>2, ReplaceRulesFacts
<1>5. config' \in File /\ executor' = executor_for(config')
  BY <1>1, <1>2, <1>3
<1>6. RecoveryFits'
  BY <1>1, <1>2, <1>4 DEF RecoveryFits, Planning
<1>7. /\ engine'.recovery_mode \in BOOLEAN /\ state'.recovery_mode \in BOOLEAN /\ acked' \in BOOLEAN
      /\ state' = [mode |-> state'.mode, recovery_mode |-> state'.recovery_mode] /\ task' = None
  BY <1>1, <1>2, <1>4
<1>8. QED
  BY <1>1, <1>2, <1>4, <1>5, <1>6, <1>7, RestStep

(* A request that only reads.                                                  *)
LEMMA AnswerStep ==
  ASSUME IInv, Idle, control # <<>>, control' = Tail(control),
         UNCHANGED <<up, queue, file, ledger, audit, runs, clock, task, state, acked,
                     config, engine, executor>>
  PROVE  IInv'
<1>1. /\ up /\ task = None /\ clock' \in Nat /\ IsSeq(queue') /\ Len(queue') <= EventBuffer
      /\ control' \in Seq(Request) /\ QueueFits' /\ Head(control) \in Request
      /\ config \in File /\ executor = executor_for(config)
      /\ IsEngine(engine) /\ engine.rules = config.rules /\ engine.recovery_mode \in BOOLEAN
      /\ state = [mode |-> state.mode, recovery_mode |-> state.recovery_mode]
      /\ state.recovery_mode \in BOOLEAN /\ acked \in BOOLEAN
      /\ acked => state.recovery_mode /\ engine.recovery_mode
  BY RequestFacts
<1>2. RecoveryFits'
  BY <1>1 DEF RecoveryFits, Planning
<1>3. QED
  BY <1>1, <1>2, RestStep

LEMMA SimulateStep == ASSUME IInv, Simulate PROVE IInv'
<1>1. /\ Idle /\ control # <<>>
      /\ UNCHANGED <<file, state, ledger, audit, runs, acked, clock>>
      /\ \/ Down
         \/ control' = Tail(control) /\ UNCHANGED <<up, config, engine, executor, queue, task>>
  BY DEF Simulate, Handles, durable, counters
<1>2. CASE Down
  <2>1. file' \in File \cup {Invalid} /\ clock' \in Nat
    BY <1>1 DEF IInv, Typed, TypeOK
  <2>2. \A a \in audit' : a[1] = "event" => a[2] \in 1..clock'
    BY <1>1 DEF IInv, QueueFits
  <2>3. QED
    BY <1>1, <1>2, <2>1, <2>2, DownStep
<1>3. CASE control' = Tail(control) /\ UNCHANGED <<up, config, engine, executor, queue, task>>
  BY <1>1, <1>3, AnswerStep
<1>4. QED
  BY <1>1, <1>2, <1>3

LEMMA ReadStep == ASSUME IInv, Read PROVE IInv'
<1>1. /\ Idle /\ control # <<>> /\ control' = Tail(control)
      /\ UNCHANGED <<up, queue, file, ledger, audit, runs, clock, task, state, acked,
                     config, engine, executor>>
  BY DEF Read, Handles, Rest
<1>2. QED
  BY <1>1, AnswerStep

LEMMA StoreFailsStep == ASSUME IInv, StoreFails PROVE IInv'
<1>1. PICK m :
        /\ up /\ task # None /\ task' = None
        /\ engine' = set_mode(engine, m) \/ engine' = engine
        /\ UNCHANGED <<up, config, executor, queue, control, file, state, ledger, audit, runs,
                       acked, clock>>
  BY DEF StoreFails, durable
<1>2. Typed /\ QueueFits /\ RecoveryFits
  BY DEF IInv
<1>3. /\ IsEngine(engine') /\ engine'.rules = engine.rules
      /\ engine'.recovery_mode = engine.recovery_mode
  BY <1>1, <1>2, SetModeFacts DEF Typed
<1>4. QueueFits'
  BY <1>1, <1>2, QueueKept DEF Typed
<1>5. RecoveryFits'
  BY <1>1, <1>2, <1>3 DEF RecoveryFits, Planning
<1>6. QED
  BY <1>1, <1>2, <1>3, <1>4, <1>5, RestStep DEF Typed, TypeOK

-------------------------------------------------------------------------------
(* The process and its surroundings.                                           *)
LEMMA StartStep == ASSUME IInv, Start PROVE IInv'
<1>1. /\ ~up /\ file # Invalid /\ up' /\ config' = file /\ engine' = Booted(file)
      /\ executor' = executor_for(file)
      /\ UNCHANGED <<queue, control, task, file, state, ledger, audit, runs, acked, clock>>
  BY DEF Start, durable, history, counters
<1>2. Typed /\ QueueFits /\ RecoveryFits /\ task = None
  BY <1>1 DEF IInv, Typed, TypeOK
<1>3. IsEngine(engine') /\ engine'.rules = file.rules /\ engine'.recovery_mode = state.recovery_mode
  BY <1>1, BootedFacts
<1>4. TypeOK'
  BY <1>1, <1>2, <1>3 DEF Typed, TypeOK
<1>5. Typed'
  BY <1>1, <1>2, <1>3, <1>4 DEF Typed, TypeOK
<1>6. QueueFits'
  BY <1>1, <1>2, QueueKept DEF Typed
<1>7. RecoveryFits' /\ ~Planning'
  BY <1>1, <1>2, <1>3 DEF RecoveryFits, Planning
<1>8. PlanFits' /\ RunsFit'
  BY <1>1, <1>7, TaskEnds
<1>9. QED
  BY <1>5, <1>6, <1>7, <1>8 DEF IInv

LEMMA StopStep == ASSUME IInv, Stop PROVE IInv'
<1>1. Down /\ UNCHANGED <<file, state, ledger, audit, runs, acked, clock>>
  BY DEF Stop, durable, history
<1>2. file' \in File \cup {Invalid} /\ clock' \in Nat
  BY <1>1 DEF IInv, Typed, TypeOK
<1>3. \A a \in audit' : a[1] = "event" => a[2] \in 1..clock'
  BY <1>1 DEF IInv, QueueFits
<1>4. QED
  BY <1>1, <1>2, <1>3, DownStep

(* A step that the loop does not take.                                         *)
LEMMA OutsideStep ==
  ASSUME IInv, UNCHANGED <<up, config, engine, executor, task, state, ledger, audit, runs, acked>>,
         file' \in File \cup {Invalid}, clock' \in Nat, IsSeq(queue'), Len(queue') <= EventBuffer,
         ~up => queue' = <<>> /\ control' = <<>>, control' \in Seq(Request), QueueFits'
  PROVE  IInv'
<1>1. TypeOK'
  BY DEF IInv, Typed, TypeOK
<1>2. Typed'
  BY <1>1 DEF IInv, Typed
<1>3. Planning' = Planning /\ Key' = Key
  BY DEF Planning, Key, Current
<1>4. PlanFits' /\ Settled'
  BY <1>3 DEF IInv, PlanFits, RunsFit, Settled
<1>5. AuditFirst' /\ NeverRepeated' /\ LedgerHonest'
  BY DEF IInv, RunsFit, AuditFirst, NeverRepeated, LedgerHonest
<1>6. RecoveryFits'
  BY <1>3 DEF IInv, RecoveryFits
<1>7. QED
  BY <1>2, <1>4, <1>5, <1>6 DEF IInv, RunsFit

LEMMA SenseStep == ASSUME IInv, NEW kind \in SensedKind, Sense(kind) PROVE IInv'
<1>1. PICK e :
        /\ up /\ Len(queue) < EventBuffer /\ clock' = clock + 1 /\ e.timestamp = clock'
        /\ queue' = Append(queue, e)
        /\ UNCHANGED <<up, config, engine, executor, control, task, file, state, ledger, audit,
                       runs, acked>>
  BY DEF Sense, Event, durable, history
<1>2. Typed /\ QueueFits /\ IsSeq(queue) /\ clock \in Nat
  BY DEF IInv, Typed
<1>3. /\ IsSeq(queue') /\ Len(queue) \in Nat /\ Len(queue') = Len(queue) + 1
      /\ DOMAIN queue = 1..Len(queue) /\ DOMAIN queue' = 1..(Len(queue) + 1)
      /\ \A i \in 1..Len(queue) : queue'[i] = queue[i]
      /\ queue'[Len(queue) + 1] = e
  BY <1>1, <1>2, AppendFacts
<1>4. \A i \in DOMAIN queue :
        queue[i].timestamp \in 1..clock /\ <<"event", queue[i].timestamp>> \notin audit
  BY <1>2 DEF QueueFits
<1>5. \A a \in audit : a[1] = "event" => a[2] \in 1..clock
  BY <1>2 DEF QueueFits
<1>6. <<"event", clock + 1>> \notin audit
  BY <1>2, <1>5
<1>7. \A i \in DOMAIN queue' :
        queue'[i].timestamp \in 1..clock' /\ <<"event", queue'[i].timestamp>> \notin audit'
  BY <1>1, <1>2, <1>3, <1>4, <1>6
<1>8. \A i, j \in DOMAIN queue' : queue'[i].timestamp = queue'[j].timestamp => i = j
  <2>1. SUFFICES ASSUME NEW i \in DOMAIN queue', NEW j \in DOMAIN queue',
                        queue'[i].timestamp = queue'[j].timestamp
                 PROVE  i = j
    OBVIOUS
  <2>2. \A k \in DOMAIN queue' :
          \/ k \in DOMAIN queue /\ queue'[k] = queue[k] /\ queue[k].timestamp \in 1..clock
          \/ k = Len(queue) + 1 /\ queue'[k].timestamp = clock + 1
    <3>1. \A k \in DOMAIN queue' : k \in DOMAIN queue \/ k = Len(queue) + 1
      BY <1>3
    <3>2. QED
      BY <1>1, <1>3, <1>4, <3>1
  <2>3. CASE i \in DOMAIN queue /\ j \in DOMAIN queue
    BY <1>2, <1>3, <2>1, <2>3 DEF QueueFits
  <2>4. CASE i = Len(queue) + 1 /\ j = Len(queue) + 1
    BY <2>4
  <2>5. QED
    BY <1>2, <2>1, <2>2, <2>3, <2>4
<1>9. \A a \in audit' : a[1] = "event" => a[2] \in 1..clock'
  BY <1>1, <1>2, <1>5
<1>10. QueueFits'
  BY <1>7, <1>8, <1>9 DEF QueueFits
<1>11. QED
  BY <1>1, <1>2, <1>3, <1>10, OutsideStep, DaemonAssumption DEF Typed, TypeOK

LEMMA AskStep == ASSUME IInv, NEW r \in Request, Ask(r) PROVE IInv'
<1>1. /\ up /\ control' = Append(control, r)
      /\ UNCHANGED <<up, config, engine, executor, queue, task, file, state, ledger, audit,
                     runs, acked, clock>>
  BY DEF Ask, durable, history
<1>2. Typed /\ QueueFits
  BY DEF IInv
<1>3. QueueFits'
  BY <1>1, <1>2, QueueKept DEF Typed
<1>4. control' \in Seq(Request)
  BY <1>1, <1>2 DEF Typed
<1>5. QED
  BY <1>1, <1>2, <1>3, <1>4, OutsideStep DEF Typed, TypeOK

LEMMA EditFileStep ==
  ASSUME IInv, EditFile \/ UNCHANGED vars PROVE IInv'
<1>1. /\ file' \in File \cup {Invalid}
      /\ UNCHANGED <<up, config, engine, executor, queue, control, task, state, ledger, audit,
                     runs, acked, clock>>
  BY DEF EditFile, vars, volatile, durable, history, counters, IInv, Typed, TypeOK
<1>2. Typed /\ QueueFits
  BY DEF IInv
<1>3. QueueFits'
  BY <1>1, <1>2, QueueKept DEF Typed
<1>4. QED
  BY <1>1, <1>2, <1>3, OutsideStep DEF Typed, TypeOK

-------------------------------------------------------------------------------
(* The invariant and what follows from it.                                     *)
LEMMA StepKeepsIInv == ASSUME IInv, [Next]_vars PROVE IInv'
<1>1. CASE ReceiveEvent
  BY <1>1, ReceiveEventStep
<1>2. CASE execute_plan
  BY <1>2, SkipCompletedStep, RecordStartedStep, AuditStartedStep, ExecuteStep,
     RecordOutcomeStep, AuditOutcomeStep, ApplyEffectStep DEF execute_plan
<1>3. CASE StoreFails
  BY <1>3, StoreFailsStep
<1>4. CASE handle_control
  BY <1>4, TriggerStep, SetModeStep, RecoveryStep, ConfirmStep, ReloadStep, SimulateStep,
     ReadStep DEF handle_control
<1>5. CASE Start \/ Stop
  BY <1>5, StartStep, StopStep
<1>6. CASE EditFile \/ UNCHANGED vars
  BY <1>6, EditFileStep
<1>7. CASE \E kind \in SensedKind : Sense(kind)
  BY <1>7, SenseStep
<1>8. CASE \E r \in Request : Ask(r)
  BY <1>8, AskStep
<1>9. QED
  BY <1>1, <1>2, <1>3, <1>4, <1>5, <1>6, <1>7, <1>8 DEF Next, run

(* The inductive invariant: what the store, the plan in progress and the       *)
(* recovery flag have to do with each other at every durable step.             *)
THEOREM Invariance == Spec => []IInv
<1>1. IInv /\ [Next]_vars => IInv'
  BY StepKeepsIInv
<1>2. QED
  BY <1>1, StartsRight, PTL DEF Spec

(* The running configuration, engine and executor belong together.             *)
THEOREM TypeCorrect == Spec => []TypeOK
<1>1. IInv => TypeOK
  BY DEF IInv, Typed
<1>2. QED
  BY <1>1, Invariance, PTL

(* execute_plan: no action runs that the store does not already know of,       *)
(* whatever fails and wherever the process stops.                              *)
THEOREM RecordedBeforeRun == Spec => []AuditFirst
<1>1. IInv => AuditFirst
  BY DEF IInv, RunsFit
<1>2. QED
  BY <1>1, Invariance, PTL

(* action_completed: no action is repeated for an event it was done for.       *)
THEOREM ExactlyOnce == Spec => []NeverRepeated
<1>1. IInv => NeverRepeated
  BY DEF IInv, RunsFit
<1>2. QED
  BY <1>1, Invariance, PTL

(* record_action: the ledger's verdicts are those of the last runs.            *)
THEOREM LedgerIsHonest == Spec => []LedgerHonest
<1>1. IInv => LedgerHonest
  BY DEF IInv, RunsFit
<1>2. QED
  BY <1>1, Invariance, PTL

LEMMA OnlyPlansAct ==
  ASSUME [Next]_vars, ~Planning PROVE ledger' = ledger /\ runs' = runs
<1>1. CASE ReceiveEvent
  BY <1>1 DEF ReceiveEvent, process_event, process_event_fails, process_event_panics, durable, history
<1>2. CASE execute_plan
  <2>1. ~Phase("check") /\ ~Phase("started") /\ ~Phase("execute") /\ ~Phase("executed")
        /\ ~Phase("recorded") /\ ~Phase("effect")
    BY PhaseIsPlanning
  <2>2. QED
    BY <1>2, <2>1 DEF execute_plan, SkipCompleted, RecordStarted, AuditStarted, execute,
       RecordOutcome, AuditOutcome, apply_effect
<1>3. CASE StoreFails
  BY <1>3 DEF StoreFails, durable
<1>4. CASE handle_control
  <2>1. CASE Trigger
    BY <2>1 DEF Trigger, process_event, process_event_fails, process_event_panics, durable, history
  <2>2. CASE SetMode \/ Recovery \/ Confirm \/ Reload \/ Simulate \/ Read
    BY <2>2 DEF SetMode, Recovery, Confirm, Reload, Simulate, Read, Rest, durable
  <2>3. QED
    BY <1>4, <2>1, <2>2 DEF handle_control
<1>5. CASE Start \/ Stop \/ EditFile \/ UNCHANGED vars
  BY <1>5 DEF Start, Stop, EditFile, vars, durable, history
<1>6. CASE (\E kind \in SensedKind : Sense(kind)) \/ (\E r \in Request : Ask(r))
  BY <1>6 DEF Sense, Ask, durable, history
<1>7. QED
  BY <1>1, <1>2, <1>3, <1>4, <1>5, <1>6 DEF Next, run

(* Recovery: once a client was told that recovery mode is on, no action starts *)
(* until a client asks to leave it, across crashes, reloads and store errors.  *)
THEOREM RecoveryIsKept == Spec => RecoveryHolds
<1>1. IInv /\ [Next]_vars => [acked => ledger' = ledger /\ runs' = runs]_vars
  BY OnlyPlansAct DEF IInv, RecoveryFits
<1>2. QED
  BY <1>1, Invariance, PTL DEF Spec, RecoveryHolds

LEMMA RunsByExecute ==
  ASSUME [Next]_vars, runs' # runs PROVE execute
<1>1. CASE execute_plan
  BY <1>1 DEF execute_plan, SkipCompleted, RecordStarted, AuditStarted,
     RecordOutcome, AuditOutcome, apply_effect
<1>2. CASE ReceiveEvent
  BY <1>2 DEF ReceiveEvent, process_event, process_event_fails, process_event_panics, history
<1>3. CASE StoreFails \/ handle_control
  BY <1>3 DEF StoreFails, handle_control, Trigger, process_event, process_event_fails,
     process_event_panics, SetMode, Recovery, Confirm, Reload, Simulate, Read, Rest, history
<1>4. CASE Start \/ Stop \/ EditFile \/ UNCHANGED vars
  BY <1>4 DEF Start, Stop, EditFile, vars, history
<1>5. CASE (\E kind \in SensedKind : Sense(kind)) \/ (\E r \in Request : Ask(r))
  BY <1>5 DEF Sense, Ask, history
<1>6. QED
  BY <1>1, <1>2, <1>3, <1>4, <1>5 DEF Next, run

LEMMA EngineByEffect ==
  ASSUME [Next]_vars, up, up', task # None, engine' # engine
  PROVE  Planning /\ task.phase = "effect"
<1>1. CASE execute_plan
  <2>1. Phase("effect")
    BY <1>1 DEF execute_plan, SkipCompleted, RecordStarted, AuditStarted, execute,
       RecordOutcome, AuditOutcome, apply_effect
  <2>2. QED
    BY <2>1, PhaseIsPlanning
<1>2. CASE StoreFails
  BY <1>2 DEF StoreFails, Planning
<1>3. CASE ReceiveEvent \/ handle_control
  BY <1>3 DEF ReceiveEvent, handle_control, Trigger, SetMode, Recovery, Confirm, Reload,
     Simulate, Read, Handles, Idle
<1>4. CASE Start \/ Stop \/ EditFile \/ UNCHANGED vars
  BY <1>4 DEF Start, Stop, Down, EditFile, vars, volatile
<1>5. CASE (\E kind \in SensedKind : Sense(kind)) \/ (\E r \in Request : Ask(r))
  BY <1>5 DEF Sense, Ask
<1>6. QED
  BY <1>1, <1>2, <1>3, <1>4, <1>5 DEF Next, run

(* dry_run: under a dry-run configuration every action is only rehearsed and   *)
(* none changes the mode, also in the plan that follows a reload.              *)
THEOREM DryRunIsInert == Spec => DryRunInert
<1> DEFINE A == up /\ up' /\ config.dry_run =>
                  /\ runs' # runs => runs'[Len(runs')].outcome = "rehearsed"
                  /\ task # None => engine'.snapshot.mode = engine.snapshot.mode
<1>1. ASSUME IInv, [Next]_vars, up, up', config.dry_run PROVE A
  <2>1. executor.dry_run
    <3>1. executor = executor_for(config)
      BY <1>1 DEF IInv, Typed, TypeOK
    <3>2. executor = [dry_run |-> config.dry_run]
      BY <3>1, Zenon DEF executor_for
    <3>3. QED
      BY <1>1, <3>2
  <2>2. runs' # runs => runs'[Len(runs')].outcome = "rehearsed"
    <3>1. SUFFICES ASSUME runs' # runs PROVE runs'[Len(runs')].outcome = "rehearsed"
      OBVIOUS
    <3>2. PICK outcome \in Outcomes(Current.action, executor) :
            runs' = Append(runs, [key |-> Key, outcome |-> outcome])
      BY <1>1, <3>1, RunsByExecute DEF execute
    <3>3. outcome = "rehearsed"
      BY <2>1, <3>2 DEF Outcomes
    <3>4. IsSeq(runs)
      BY <1>1 DEF IInv, Typed
    <3>5. QED
      BY <3>2, <3>3, <3>4, AppendFacts
  <2>3. task # None => engine' = engine
    <3>1. ~(Planning /\ task.phase = "effect")
      BY <1>1, <2>1 DEF IInv, PlanFits
    <3>2. QED
      BY <1>1, <3>1, EngineByEffect
  <2>4. QED
    BY <2>2, <2>3
<1>2. IInv /\ [Next]_vars => [A]_vars
  BY <1>1
<1> HIDE DEF A
<1>3. Spec => [][A]_vars
  BY <1>2, Invariance, PTL DEF Spec
<1>4. QED
  BY <1>3 DEF DryRunInert, A

-------------------------------------------------------------------------------
(* A restart resumes the mode and the recovery state.                          *)

(* A reload or a restart with another configuration keeps the modes.           *)
SameModes == \A c, d \in File : c.modes = d.modes /\ None \notin ModeNames(c)

KindsFit == \A i \in DOMAIN queue : queue[i].kind.type \in EventTypes

HasMode == up => "mode" \in DOMAIN engine.snapshot

(* The store holds what the engine was last told, or what it was started with. *)
Stored ==
  faults = 0 /\ up =>
    /\ state.recovery_mode = engine.recovery_mode
    /\ \/ engine.snapshot.mode = state.mode
       \/ engine.snapshot.mode = initial_mode(config, state.mode)

Remembers == faults \in Nat /\ KindsFit /\ HasMode /\ Stored

LEMMA ApplyKeepsMode ==
  ASSUME NEW s, "mode" \in DOMAIN s, NEW v, v.kind.type \in EventTypes
  PROVE  "mode" \in DOMAIN apply(s, v) /\ apply(s, v).mode = s.mode
<1>1. PICK k : k = v.kind
  OBVIOUS
<1> DEFINE t == [s EXCEPT !.now = v.timestamp, !.sensor_health = @ \cup {v.source}]
<1>2. "mode" \in DOMAIN t /\ t.mode = s.mode
  OBVIOUS
<1>3. apply(s, v) =
        CASE k.type = "wifi"    -> [t EXCEPT !.wifi = k]
          [] k.type = "network" -> [t EXCEPT !.network = k]
          [] k.type = "session" -> [t EXCEPT !.session = k]
          [] k.type = "power"   -> [t EXCEPT !.power = k]
          [] k.type = "mount"   -> [t EXCEPT !.mounts = Toggle(@, k.path, k.action # "removed")]
          [] k.type = "process" -> [t EXCEPT !.processes = Toggle(@, k.name, k.running)]
          [] k.type = "service" -> [t EXCEPT !.services = Toggle(@, k.name, k.active)]
          [] k.type = "port"    -> [t EXCEPT !.ports = Toggle(@, <<k.protocol, k.port>>, k.open)]
          [] k.type = "integrity" ->
               [t EXCEPT !.sensor_health = Toggle(@, k.component, k.valid)]
          [] k.type = "sensor_failure" -> [t EXCEPT !.sensor_health = @ \ {k.sensor}]
          [] k.type \in {"tick", "file", "usb", "hotkey", "manual"} -> t
  BY <1>1 DEF apply
<1>4. k.type \in EventTypes
  BY <1>1
<1> HIDE DEF t
<1>5. QED
  BY <1>2, <1>3, <1>4 DEF EventTypes

LEMMA SetModeSnapshot ==
  ASSUME NEW e, IsEngine(e), "mode" \in DOMAIN e.snapshot, NEW m
  PROVE  "mode" \in DOMAIN set_mode(e, m).snapshot /\ set_mode(e, m).snapshot.mode = m
<1>1. set_mode(e, m).snapshot = [e.snapshot EXCEPT !.mode = m]
  BY DEF set_mode, IsEngine
<1>2. QED
  BY <1>1

LEMMA SetRecoverySnapshot ==
  ASSUME NEW e, IsEngine(e), NEW b
  PROVE  set_recovery_mode(e, b).snapshot = e.snapshot
<1> DEFINE rt == IF b THEN [id \in DOMAIN e.runtime |-> Disarmed(e.runtime[id])] ELSE e.runtime
<1>1. set_recovery_mode(e, b) = [e EXCEPT !.recovery_mode = b, !.runtime = rt]
  BY DEF set_recovery_mode
<1> HIDE DEF rt
<1> QED
  BY <1>1 DEF IsEngine

LEMMA ReplaceRulesSnapshot ==
  ASSUME NEW e, IsEngine(e), NEW r
  PROVE  replace_rules(e, r).snapshot = e.snapshot
<1> DEFINE rt == [id \in DOMAIN r |-> IF id \in DOMAIN e.runtime THEN e.runtime[id] ELSE DefaultRuntime]
<1>1. replace_rules(e, r) = [e EXCEPT !.rules = r, !.runtime = rt]
  BY DEF replace_rules
<1> HIDE DEF rt
<1> QED
  BY <1>1 DEF IsEngine

LEMMA HandleSnapshot ==
  ASSUME NEW e, IsEngine(e), NEW v
  PROVE  handle(e, v).snapshot = apply(e.snapshot, v)
<1> DEFINE a == apply(e.snapshot, v)
           rt == IF e.recovery_mode THEN e.runtime
                ELSE [id \in DOMAIN e.rules |-> NextRuntime(e.rules[id], e.runtime[id], v, a)]
<1>1. handle(e, v) = [e EXCEPT !.snapshot = a, !.runtime = rt]
  BY DEF handle
<1> HIDE DEF rt, a
<1>2. handle(e, v).snapshot = a
  BY <1>1 DEF IsEngine
<1> QED
  BY <1>2 DEF a

LEMMA BootedSnapshot ==
  ASSUME NEW c
  PROVE  /\ "mode" \in DOMAIN Booted(c).snapshot
         /\ Booted(c).snapshot.mode = initial_mode(c, state.mode)
<1> DEFINE e == NewEngine(c.rules, clock, initial_mode(c, state.mode))
<1>1. IsEngine(e) /\ e.snapshot = DefaultSnapshot(clock, initial_mode(c, state.mode))
  <2> DEFINE a == [id \in DOMAIN c.rules |-> DefaultRuntime]
             b == DefaultSnapshot(clock, initial_mode(c, state.mode))
  <2>1. e = [rules |-> c.rules, runtime |-> a, snapshot |-> b, recovery_mode |-> FALSE]
    BY DEF NewEngine
  <2> HIDE DEF a, b, e
  <2>2. IsEngine(e) /\ e.snapshot = b
    BY <2>1 DEF IsEngine
  <2> QED
    BY <2>2 DEF b
<1>2. Booted(c) = set_recovery_mode(e, state.recovery_mode)
  BY DEF Booted
<1> HIDE DEF e
<1>3. Booted(c).snapshot = DefaultSnapshot(clock, initial_mode(c, state.mode))
  BY <1>1, <1>2, SetRecoverySnapshot
<1> QED
  BY <1>3 DEF DefaultSnapshot

LEMMA KindsOfTail ==
  ASSUME IInv, KindsFit, queue # <<>>, queue' = Tail(queue)
  PROVE  KindsFit'
<1>1. IsSeq(queue)
  BY DEF IInv, Typed
<1>2. QED
  BY <1>1, TailFacts DEF KindsFit

(* What leaves the engine, the store and the configuration alone.              *)
LEMMA StoredStays ==
  ASSUME Remembers, UNCHANGED <<up, engine, state, config>>, faults' \in {faults, faults + 1}
  PROVE  faults' \in Nat /\ HasMode' /\ Stored'
<1>1. faults' \in Nat /\ (faults' = 0 => faults = 0)
  BY DEF Remembers
<1>2. HasMode'
  BY DEF Remembers, HasMode
<1>3. Stored'
  BY <1>1 DEF Remembers, Stored, initial_mode, configured_mode, ModeNames
<1>4. QED
  BY <1>1, <1>2, <1>3

LEMMA DownRemembers ==
  ASSUME Remembers, Down, faults' \in {faults, faults + 1}
  PROVE  Remembers'
BY DEF Remembers, Down, KindsFit, HasMode, Stored

LEMMA ProcessRemembers ==
  ASSUME IInv, Remembers, up, NEW e, e.kind.type \in EventTypes, NEW r, process_event(e, r)
  PROVE  faults' \in Nat /\ HasMode' /\ Stored'
<1>1. IsEngine(engine) /\ "mode" \in DOMAIN engine.snapshot
  BY DEF IInv, Typed, Remembers, HasMode
<1>2. /\ engine' = handle(engine, e)
      /\ UNCHANGED <<up, config, state, faults>>
  BY DEF process_event
<1>3. engine'.recovery_mode = engine.recovery_mode
  BY <1>1, <1>2, HandleFacts
<1>4. engine'.snapshot = apply(engine.snapshot, e)
  BY <1>1, <1>2, HandleSnapshot
<1>5. "mode" \in DOMAIN engine'.snapshot /\ engine'.snapshot.mode = engine.snapshot.mode
  BY <1>1, <1>4, ApplyKeepsMode
<1>6. Stored'
  BY <1>2, <1>3, <1>5 DEF Remembers, Stored, initial_mode, configured_mode, ModeNames
<1>7. QED
  BY <1>2, <1>5, <1>6 DEF Remembers, HasMode

LEMMA ReceiveRemembers == ASSUME IInv, Remembers, ReceiveEvent PROVE Remembers'
<1>1. Idle /\ up /\ queue # <<>>
  BY DEF ReceiveEvent, Idle
<1>2. Head(queue).kind.type \in EventTypes
  <2>1. IsSeq(queue)
    BY DEF IInv, Typed
  <2>2. 1 \in DOMAIN queue /\ Head(queue) = queue[1]
    BY <1>1, <2>1, TailFacts
  <2>3. QED
    BY <2>2 DEF Remembers, KindsFit
<1>3. CASE process_event(Head(queue), None) /\ queue' = Tail(queue)
  <2>1. faults' \in Nat /\ HasMode' /\ Stored'
    BY <1>1, <1>2, <1>3, ProcessRemembers
  <2>2. QED
    BY <1>1, <1>3, <2>1, KindsOfTail DEF Remembers
<1>4. CASE process_event_fails(None) /\ queue' = Tail(queue)
  <2>1. UNCHANGED <<up, engine, state, config>> /\ faults' = faults + 1
    BY <1>4 DEF process_event_fails, durable
  <2>2. QED
    BY <1>1, <1>4, <2>1, KindsOfTail, StoredStays DEF Remembers
<1>5. CASE process_event_panics(Head(queue))
  BY <1>5, DownRemembers DEF process_event_panics
<1>6. QED
  BY <1>3, <1>4, <1>5 DEF ReceiveEvent

LEMMA TriggerRemembers == ASSUME IInv, Remembers, Trigger PROVE Remembers'
<1> DEFINE r == Head(control)
           e == Event(<<"manual", [type |-> "manual", name |-> r.name]>>, clock')
<1>1. up /\ e.kind.type \in EventTypes
  BY DEF Trigger, Handles, Idle, Event, EventTypes
<1>2. \/ process_event(e, r) /\ UNCHANGED queue
      \/ process_event_fails(r) /\ UNCHANGED queue
      \/ process_event_panics(e)
  BY DEF Trigger
<1> HIDE DEF r, e
<1>3. CASE process_event(e, r) /\ UNCHANGED queue
  <2>1. faults' \in Nat /\ HasMode' /\ Stored'
    BY <1>1, <1>3, ProcessRemembers
  <2>2. QED
    BY <1>3, <2>1 DEF Remembers, KindsFit
<1>4. CASE process_event_fails(r) /\ UNCHANGED queue
  <2>1. UNCHANGED <<up, engine, state, config>> /\ faults' = faults + 1
    BY <1>4 DEF process_event_fails, durable
  <2>2. QED
    BY <1>4, <2>1, StoredStays DEF Remembers, KindsFit
<1>5. CASE process_event_panics(e)
  BY <1>5, DownRemembers DEF process_event_panics
<1>6. QED
  BY <1>2, <1>3, <1>4, <1>5

(* The engine and the store are told the same mode, or the store has failed.   *)
LEMMA ModeRemembers ==
  ASSUME IInv, Remembers, up, up', UNCHANGED <<queue, config>>, NEW m,
         engine' = set_mode(engine, m),
         \/ state' = [state EXCEPT !.mode = m] /\ faults' = faults
         \/ faults' = faults + 1
  PROVE  Remembers'
<1>1. /\ IsEngine(engine) /\ "mode" \in DOMAIN engine.snapshot
      /\ state = [mode |-> state.mode, recovery_mode |-> state.recovery_mode]
  BY DEF IInv, Typed, Remembers, HasMode
<1>2. engine'.recovery_mode = engine.recovery_mode
  BY <1>1, SetModeFacts
<1>3. "mode" \in DOMAIN engine'.snapshot /\ engine'.snapshot.mode = m
  BY <1>1, SetModeSnapshot
<1>4. faults \in Nat /\ faults' \in Nat
  BY DEF Remembers
<1>5. CASE state' = [state EXCEPT !.mode = m] /\ faults' = faults
  <2>1. state'.mode = m /\ state'.recovery_mode = state.recovery_mode
    BY <1>1, <1>5
  <2>2. Stored'
    BY <1>2, <1>3, <1>5, <2>1 DEF Remembers, Stored
  <2>3. QED
    BY <1>3, <1>4, <2>2 DEF Remembers, KindsFit, HasMode
<1>6. CASE faults' = faults + 1
  <2>1. faults' # 0
    BY <1>4, <1>6
  <2>2. QED
    BY <1>3, <1>4, <2>1 DEF Remembers, KindsFit, HasMode, Stored
<1>7. QED
  BY <1>5, <1>6

LEMMA EffectRemembers == ASSUME IInv, Remembers, apply_effect PROVE Remembers'
<1>1. up /\ UNCHANGED <<up, config, queue, faults>>
  BY DEF apply_effect, Phase, Elsewhere, counters
<1>2. CASE Current.action.type = "set_mode"
  <2>1. /\ engine' = set_mode(engine, Current.action.target)
        /\ state' = [state EXCEPT !.mode = Current.action.target]
    BY <1>2 DEF apply_effect
  <2>2. PICK m : m = Current.action.target
    OBVIOUS
  <2>3. QED
    BY <1>1, <2>1, <2>2, ModeRemembers
<1>3. CASE Current.action.type # "set_mode"
  <2>1. UNCHANGED <<engine, state>>
    BY <1>3 DEF apply_effect
  <2>2. QED
    BY <1>1, <2>1, StoredStays DEF Remembers, KindsFit
<1>4. QED
  BY <1>2, <1>3

LEMMA StoreFailsRemembers == ASSUME IInv, Remembers, StoreFails PROVE Remembers'
<1>1. up /\ UNCHANGED <<up, config, queue, state>> /\ faults' = faults + 1
  BY DEF StoreFails, durable
<1>2. CASE task.phase = "effect" /\ Current.action.type = "set_mode"
  <2>1. PICK m : m = Current.action.target
    OBVIOUS
  <2>2. engine' = set_mode(engine, m)
    BY <1>2, <2>1 DEF StoreFails
  <2>3. QED
    BY <1>1, <2>2, ModeRemembers
<1>3. CASE ~(task.phase = "effect" /\ Current.action.type = "set_mode")
  <2>1. engine' = engine
    BY <1>3 DEF StoreFails
  <2>2. QED
    BY <1>1, <2>1, StoredStays DEF Remembers, KindsFit
<1>4. QED
  BY <1>2, <1>3

LEMMA SetModeRemembers == ASSUME IInv, Remembers, SetMode PROVE Remembers'
<1> DEFINE r == Head(control)
           known == r.mode \in ModeNames(config)
<1>1. up /\ UNCHANGED <<up, queue, config>>
  BY DEF SetMode, Handles, Idle, Rest
<1>2. CASE known
  <2>1. engine' = set_mode(engine, r.mode)
    BY <1>2 DEF SetMode
  <2>2. \/ state' = [state EXCEPT !.mode = r.mode] /\ faults' = faults
        \/ faults' = faults + 1
    BY <1>2 DEF SetMode
  <2>3. PICK m : m = r.mode
    OBVIOUS
  <2>4. QED
    BY <1>1, <2>1, <2>2, <2>3, ModeRemembers
<1>3. CASE ~known
  <2>1. UNCHANGED <<engine, state, faults>>
    BY <1>3 DEF SetMode
  <2>2. QED
    BY <1>1, <2>1, StoredStays DEF Remembers, KindsFit
<1>4. QED
  BY <1>2, <1>3

LEMMA RecoveryRemembers == ASSUME IInv, Remembers, Recovery PROVE Remembers'
<1> DEFINE b == Head(control).enabled
<1>1. /\ up /\ UNCHANGED <<up, queue, config>>
      /\ engine' = set_recovery_mode(engine, b)
      /\ \/ state' = [state EXCEPT !.recovery_mode = b] /\ faults' = faults
         \/ state' = state /\ faults' = faults + 1
  BY DEF Recovery, Handles, Idle, Rest
<1>2. /\ IsEngine(engine) /\ "mode" \in DOMAIN engine.snapshot
      /\ state = [mode |-> state.mode, recovery_mode |-> state.recovery_mode]
  BY <1>1 DEF IInv, Typed, Remembers, HasMode
<1> HIDE DEF b
<1>3. engine'.recovery_mode = b /\ engine'.snapshot = engine.snapshot
  BY <1>1, <1>2, SetRecoveryFacts, SetRecoverySnapshot
<1>4. faults \in Nat /\ faults' \in Nat
  BY <1>1 DEF Remembers
<1>5. Stored'
  <2>1. CASE state' = [state EXCEPT !.recovery_mode = b] /\ faults' = faults
    <3>1. state'.recovery_mode = b /\ state'.mode = state.mode
      BY <1>2, <2>1
    <3>2. initial_mode(config', state'.mode) = initial_mode(config, state.mode)
      BY <1>1, <3>1
    <3>3. QED
      BY <1>1, <1>3, <2>1, <3>1, <3>2 DEF Remembers, Stored
  <2>2. CASE faults' = faults + 1
    <3>1. faults' # 0
      BY <1>4, <2>2
    <3>2. QED
      BY <3>1 DEF Stored
  <2>3. QED
    BY <1>1, <2>1, <2>2
<1>6. QED
  BY <1>1, <1>2, <1>3, <1>4, <1>5 DEF Remembers, KindsFit, HasMode

(* A reload keeps the engine's snapshot, and what the store stands for.        *)
LEMMA ReloadRemembers == ASSUME SameModes, IInv, Remembers, Reload PROVE Remembers'
<1>1. up /\ UNCHANGED <<up, queue, state>> /\ faults' \in {faults, faults + 1}
  BY DEF Reload, Handles, Idle, Rest
<1>2. CASE UNCHANGED <<config, engine>>
  BY <1>1, <1>2, StoredStays DEF Remembers, KindsFit
<1>3. CASE /\ file # Invalid /\ engine' = replace_rules(engine, file.rules) /\ config' = file
  <2>1. config \in File /\ config' \in File /\ IsEngine(engine) /\ "mode" \in DOMAIN engine.snapshot
    BY <1>1, <1>3 DEF IInv, Typed, TypeOK, Remembers, HasMode
  <2>2. config'.modes = config.modes
    BY <2>1 DEF SameModes
  <2>3. initial_mode(config', state'.mode) = initial_mode(config, state.mode)
    BY <1>1, <2>2 DEF initial_mode, configured_mode, ModeNames
  <2>4. engine'.recovery_mode = engine.recovery_mode /\ engine'.snapshot = engine.snapshot
    BY <1>3, <2>1, ReplaceRulesFacts, ReplaceRulesSnapshot
  <2>5. faults \in Nat /\ faults' \in Nat /\ (faults' = 0 => faults = 0)
    BY <1>1 DEF Remembers
  <2>6. Stored'
    BY <1>1, <2>3, <2>4, <2>5 DEF Remembers, Stored
  <2>7. QED
    BY <1>1, <2>1, <2>4, <2>5, <2>6 DEF Remembers, KindsFit, HasMode
<1>4. QED
  BY <1>2, <1>3 DEF Reload

LEMMA StartRemembers == ASSUME IInv, Remembers, Start PROVE Remembers'
<1>1. /\ engine' = Booted(file) /\ config' = file
      /\ UNCHANGED <<queue, state, faults>>
  BY DEF Start, durable, counters
<1>2. engine'.recovery_mode = state.recovery_mode
  BY <1>1, BootedFacts
<1>3. "mode" \in DOMAIN engine'.snapshot /\ engine'.snapshot.mode = initial_mode(file, state.mode)
  BY <1>1, BootedSnapshot
<1>4. initial_mode(config', state'.mode) = initial_mode(file, state.mode)
  BY <1>1
<1>5. Stored'
  BY <1>1, <1>2, <1>3, <1>4 DEF Stored
<1>6. QED
  BY <1>1, <1>3, <1>5 DEF Remembers, KindsFit, HasMode

LEMMA SenseRemembers ==
  ASSUME IInv, Remembers, NEW kind \in SensedKind, Sense(kind) PROVE Remembers'
<1>1. UNCHANGED <<up, engine, state, config, faults>>
  BY DEF Sense, durable
<1>2. PICK e : e = Event(kind, clock')
  OBVIOUS
<1>3. queue' = Append(queue, e) /\ IsSeq(queue)
  BY <1>2 DEF Sense, IInv, Typed
<1>4. e.kind.type \in EventTypes
  BY <1>2, DaemonAssumption DEF Event
<1>5. /\ Len(queue) \in Nat /\ DOMAIN queue = 1..Len(queue)
      /\ DOMAIN queue' = 1..(Len(queue) + 1)
      /\ \A i \in 1..Len(queue) : queue'[i] = queue[i]
      /\ queue'[Len(queue) + 1] = e
  BY <1>3, AppendFacts
<1>6. KindsFit'
  <2> SUFFICES ASSUME NEW i \in DOMAIN queue' PROVE queue'[i].kind.type \in EventTypes
    BY DEF KindsFit
  <2>1. i \in 1..Len(queue) \/ i = Len(queue) + 1
    BY <1>5
  <2>2. QED
    BY <1>4, <1>5, <2>1 DEF Remembers, KindsFit
<1>7. QED
  BY <1>1, <1>6, StoredStays DEF Remembers

LEMMA StepRemembers == ASSUME SameModes, IInv, Remembers, [Next]_vars PROVE Remembers'
<1>1. CASE ReceiveEvent
  BY <1>1, ReceiveRemembers
<1>2. CASE SkipCompleted \/ RecordStarted \/ AuditStarted \/ execute \/ RecordOutcome \/ AuditOutcome
  <2>1. UNCHANGED <<up, engine, state, config, queue, faults>>
    BY <1>2 DEF SkipCompleted, RecordStarted, AuditStarted, execute, RecordOutcome,
       AuditOutcome, Elsewhere, durable, counters
  <2>2. QED
    BY <2>1, StoredStays DEF Remembers, KindsFit
<1>3. CASE apply_effect
  BY <1>3, EffectRemembers
<1>4. CASE StoreFails
  BY <1>4, StoreFailsRemembers
<1>5. CASE handle_control
  <2>1. CASE Trigger
    BY <2>1, TriggerRemembers
  <2>2. CASE SetMode
    BY <2>2, SetModeRemembers
  <2>3. CASE Recovery
    BY <2>3, RecoveryRemembers
  <2>4. CASE Reload
    BY <2>4, ReloadRemembers
  <2>5. CASE Simulate
    <3>1. faults' = faults
      BY <2>5 DEF Simulate, counters
    <3>2. CASE Down
      BY <3>1, <3>2, DownRemembers
    <3>3. CASE UNCHANGED <<up, config, engine, queue>>
      <4>1. state' = state
        BY <2>5 DEF Simulate, durable
      <4>2. QED
        BY <3>1, <3>3, <4>1, StoredStays DEF Remembers, KindsFit
    <3>4. QED
      BY <2>5, <3>2, <3>3 DEF Simulate
  <2>6. CASE Confirm \/ Read
    <3>1. UNCHANGED <<up, engine, state, config, queue, faults>>
      BY <2>6 DEF Confirm, Read, Rest
    <3>2. QED
      BY <3>1, StoredStays DEF Remembers, KindsFit
  <2>7. QED
    BY <1>5, <2>1, <2>2, <2>3, <2>4, <2>5, <2>6 DEF handle_control
<1>6. CASE Start
  BY <1>6, StartRemembers
<1>7. CASE Stop
  BY <1>7, DownRemembers DEF Stop
<1>8. CASE EditFile \/ (\E r \in Request : Ask(r)) \/ UNCHANGED vars
  <2>1. UNCHANGED <<up, engine, state, config, queue, faults>>
    BY <1>8 DEF EditFile, Ask, vars, volatile, durable, counters
  <2>2. QED
    BY <2>1, StoredStays DEF Remembers, KindsFit
<1>9. ASSUME NEW kind \in SensedKind, Sense(kind) PROVE Remembers'
  BY <1>9, SenseRemembers
<1>10. QED
  BY <1>1, <1>2, <1>3, <1>4, <1>5, <1>6, <1>7, <1>8, <1>9 DEF Next, run, execute_plan

(* Runtime::new: while the store has not failed, a restart resumes the mode    *)
(* and the recovery state, after any events, plans, requests, reloads, stops   *)
(* and edits of the file, provided that all configurations have the same modes *)
(* (the run mode_revival shows that they must).                                *)
THEOREM RestartResumes == ASSUME SameModes PROVE Spec => []StateSurvives
<1>1. Init => Remembers
  <2> SUFFICES ASSUME Init PROVE Remembers
    OBVIOUS
  <2>1. faults = 0 /\ up = FALSE /\ queue = <<>>
    BY DEF Init
  <2>2. KindsFit
    BY <2>1 DEF KindsFit
  <2>3. QED
    BY <2>1, <2>2 DEF Remembers, HasMode, Stored
<1>2. IInv /\ Remembers /\ [Next]_vars => Remembers'
  BY StepRemembers
<1>3. IInv /\ Remembers => StateSurvives
  <2> SUFFICES ASSUME IInv, Remembers, Idle, faults = 0, engine.snapshot.mode \in ModeNames(config)
               PROVE  /\ initial_mode(config, state.mode) = engine.snapshot.mode
                      /\ state.recovery_mode = engine.recovery_mode
    BY DEF StateSurvives
  <2>1. up /\ config \in File
    BY DEF Idle, IInv, Typed, TypeOK
  <2>2. engine.snapshot.mode # None
    BY <2>1 DEF SameModes
  <2>3. QED
    BY <2>1, <2>2 DEF Remembers, Stored, initial_mode
<1>4. QED
  BY <1>1, <1>2, <1>3, Invariance, PTL DEF Spec
===============================================================================
