----------------------------- MODULE Requirements -----------------------------
(* kovert-sensors/src/requirements.rs: what the rules of a configuration need  *)
(* of the sensors; as a reference, what the rules could react to; and what the *)
(* providers report when they are started with given requirements.             *)
(*                                                                             *)
(* Requirements are file_watches and the set probes of the others: <<"wifi">>, *)
(* <<"processes", name>>, <<"ports", protocol, port>> and so on.               *)
EXTENDS Matching, FiniteSetsExt

(* The simple triggers of a trigger, in the order collect_trigger visits them. *)
RECURSIVE Leaves(_)
Leaves(t) ==
  LET Visit(items) == FlattenSeq([i \in DOMAIN items |-> Leaves(items[i])])
  IN CASE t.type \in {"all", "any"} -> Visit(t.triggers)
       [] t.type = "sequence" -> Visit(t.steps)
       [] t.type = "not" -> Leaves(t.trigger)
       [] OTHER -> <<t>>

RECURSIVE ConditionLeaves(_)
ConditionLeaves(c) ==
  CASE c.type \in {"all", "any"} ->
         UNION {ConditionLeaves(c.conditions[i]) : i \in DOMAIN c.conditions}
    [] c.type = "not" -> ConditionLeaves(c.condition)
    [] OTHER -> {c}

TriggerProbe ==
  [wifi_changed |-> "wifi", network_changed |-> "network", usb |-> "usb", mount |-> "mounts",
   session |-> "sessions", power |-> "power", integrity_failure |-> "integrity"]

collect_trigger(t) ==
  CASE t.type \in DOMAIN TriggerProbe -> {<<TriggerProbe[t.type]>>}
    [] t.type = "process" /\ t.name # None -> {<<"processes", t.name>>}
    [] t.type = "service" /\ t.name # None -> {<<"services", t.name>>}
    [] t.type = "port" /\ t.port # None ->
         {<<"ports", p, t.port>> : p \in IF t.protocol = None THEN {"tcp", "udp"} ELSE {t.protocol}}
    [] OTHER -> {}

ConditionProbe ==
  [wifi |-> "wifi", network |-> "network", mounted |-> "mounts", session |-> "sessions",
   power |-> "power"]

HealthProbe ==
  [wifi |-> "wifi", network |-> "network", usb |-> "usb", mounts |-> "mounts",
   sessions |-> "sessions", power |-> "power", integrity |-> "integrity",
   configuration |-> "integrity", binary |-> "integrity"]

(* A process in a condition is not collected.                                  *)
collect_conditionMutant(c) ==
  CASE c.type \in DOMAIN ConditionProbe -> {<<ConditionProbe[c.type]>>}
    [] c.type = "service" -> {<<"services", c.name>>}
    [] c.type = "port" -> {<<"ports", c.protocol, c.port>>}
    [] OTHER -> {}

collect_condition(c) ==
  CASE c.type \in DOMAIN ConditionProbe -> {<<ConditionProbe[c.type]>>}
    [] c.type = "process" -> {<<"processes", c.name>>}
    [] c.type = "service" -> {<<"services", c.name>>}
    [] c.type = "port" -> {<<"ports", c.protocol, c.port>>}
    [] c.type = "sensor_healthy" /\ c.sensor \in DOMAIN HealthProbe ->
         {<<HealthProbe[c.sensor]>>}
    [] OTHER -> {}

(* A later trigger on the same path overwrites the flag of an earlier one.     *)
file_watches(leaves) ==
  LET at(path) == {i \in DOMAIN leaves : leaves[i].type = "file" /\ leaves[i].path = path}
      paths == {leaves[i].path : i \in {i \in DOMAIN leaves : leaves[i].type = "file"}}
  IN [path \in paths |-> leaves[Max(at(path))].recursive]

AllLeaves(c) == FlattenSeq([i \in DOMAIN c.rules |-> Leaves(c.rules[i].trigger)])
AllConditions(c) ==
  UNION {ConditionLeaves(c.rules[i].when) : i \in {i \in DOMAIN c.rules : c.rules[i].when # None}}

from_config(c) ==
  [file_watches |-> file_watches(AllLeaves(c)),
   probes |-> UNION {collect_trigger(t) : t \in Range(AllLeaves(c))}
              \cup UNION {collect_condition(d) : d \in AllConditions(c)}]

-------------------------------------------------------------------------------
(* What the rules could react to, from the matchers: a trigger somewhere in a  *)
(* rule matches the event, or the event changes the truth of a condition.      *)
RECURSIVE Parts(_)
Parts(t) ==
  LET items == CASE t.type \in {"all", "any"} -> Range(t.triggers)
                 [] t.type = "sequence" -> Range(t.steps)
                 [] t.type = "not" -> {t.trigger}
                 [] OTHER -> {}
  IN IF items = {} THEN {t} ELSE UNION {Parts(item) : item \in items}

Occurs(k) == [timestamp |-> 0, source |-> k[1], kind |-> k[2]]

Reacts(c, k) ==
  {t \in UNION {Parts(c.rules[i].trigger) : i \in DOMAIN c.rules} : TriggerMatches(t, Occurs(k))}
Decides(c, k) ==
  LET s == DefaultSnapshot(0, None)
  IN {d \in AllConditions(c) : ConditionMatches(d, apply(s, Occurs(k))) # ConditionMatches(d, s)}

Wants(c, k) == Reacts(c, k) \cup Decides(c, k) # {}

(* What from_config is known to leave out of that.  A condition on the health  *)
(* of a sensor that has to be told what to look at (a file, a process, a       *)
(* service, a port) has nothing to tell it; and of the triggers on one path    *)
(* the last decides, so that a recursive one before it may see no deeper than  *)
(* the entries of the path.                                                    *)
Unasked(d) ==
  d.type = "sensor_healthy" /\ d.sensor \in {"filesystem", "processes", "services", "ports"}

Overruled(c, t, k) ==
  LET leaves == AllLeaves(c)
      last == Max({i \in DOMAIN leaves : leaves[i].type = "file" /\ leaves[i].path = t.path})
  IN ~leaves[last].recursive /\ Len(k[2].path) > Len(t.path) + 1

Misses(c, k) ==
  /\ \A t \in Reacts(c, k) : t.type = "file" /\ Overruled(c, t, k)
  /\ \A d \in Decides(c, k) : Unasked(d)

-------------------------------------------------------------------------------
(* An inotify watch reports on the path itself and on its entries, a recursive *)
(* one on everything below.                                                    *)
WatchReports(path, recursive, actual) ==
  IsPrefix(path, actual) /\ (recursive \/ Len(actual) <= Len(path) + 1)

(* The guards of poll_cycle.                                                   *)
ProbeOf(kind) ==
  CASE kind.type = "mount" -> <<"mounts">>
    [] kind.type = "session" -> <<"sessions">>
    [] kind.type = "process" -> <<"processes", kind.name>>
    [] kind.type = "service" -> <<"services", kind.name>>
    [] kind.type = "port" -> <<"ports", kind.protocol, kind.port>>
    [] OTHER -> <<kind.type>>

(* A provider with these watches and probes reports the event.                 *)
Reports(watches, probes, k) ==
  IF k[2].type = "file"
  THEN \E path \in DOMAIN watches : WatchReports(path, watches[path], k[2].path)
  ELSE ProbeOf(k[2]) \in probes
===============================================================================
