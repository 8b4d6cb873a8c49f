------------------------------ MODULE Validation ------------------------------
(* kovert-core/src/validation.rs: which configurations the loader accepts.     *)
(*                                                                             *)
(* A configuration is a record like Config, its rules a sequence of records;   *)
(* triggers, conditions and actions are records with a field "type".  A path   *)
(* is the sequence of its components, an absolute one beginning with "/".      *)
EXTENDS ActionValidation, FiniteSets

MaxDepth == 16   \* of nested triggers and conditions

(* Names of one section are well formed and all different.                     *)
Distinct(names) ==
  /\ \A i \in DOMAIN names : names[i] \in Text.identifier
  /\ \A i, j \in DOMAIN names : names[i] = names[j] => i = j
Names(section) == [i \in DOMAIN section |-> section[i].name]

ValidDaemon(d) ==
  /\ IsAbsolute(d.socket_path) /\ IsAbsolute(d.state_path)
  /\ d.poll_interval > 0 /\ d.event_buffer >= 16
  /\ \A path \in d.allowed_executables : IsAbsolute(path)

ValidModes(modes) ==
  Distinct(Names(modes)) /\ Cardinality({i \in DOMAIN modes : modes[i].initial}) <= 1

ValidHotkey(h) ==
  /\ IsAbsolute(h.device) /\ h.within > 0
  /\ Len(h.sequence) \in 1..32 /\ \A i \in DOMAIN h.sequence : h.sequence[i] \in Text.key

-------------------------------------------------------------------------------
SimpleTrigger(t, hotkeys) ==
  /\ t.type = "file" => IsAbsolute(t.path)
  /\ t.type = "power" => t.battery_below = None \/ t.battery_below <= 100
  /\ t.type \in {"process", "service"} => t.name # None
  /\ t.type = "port" => t.port # None
  /\ t.type = "hotkey" => t.name \in hotkeys

(* A sequence may not be a step of a sequence; below any other composite form  *)
(* it is accepted.                                                             *)
RECURSIVE validate_trigger(_, _, _)
validate_trigger(t, depth, hotkeys) ==
  /\ depth <= MaxDepth
  /\ SimpleTrigger(t, hotkeys)
  /\ t.type \in {"all", "any"} =>
       /\ t.triggers # <<>>
       /\ \A i \in DOMAIN t.triggers : validate_trigger(t.triggers[i], depth + 1, hotkeys)
  /\ t.type = "not" => validate_trigger(t.trigger, depth + 1, hotkeys)
  /\ t.type = "sequence" =>
       /\ Len(t.steps) >= 2 /\ t.within > 0
       /\ \A i \in DOMAIN t.steps : /\ t.steps[i].type # "sequence"
                                    /\ validate_trigger(t.steps[i], depth + 1, hotkeys)

KnownSensor ==
  {"wifi", "network", "usb", "mounts", "processes", "services", "ports", "sessions", "power",
   "hotkeys", "filesystem", "integrity", "configuration", "binary", "polling", "time", "manual"}

(* Clock times are numbers; None stands for a text that is not one.            *)
SimpleCondition(c) ==
  /\ c.type = "time_window" => c.start # None /\ c.end # None
  /\ c.type \in {"path_exists", "mounted"} => IsAbsolute(c.path)
  /\ c.type = "power" => c.battery_below = None \/ c.battery_below <= 100
  /\ c.type = "sensor_healthy" => c.sensor \in KnownSensor

RECURSIVE validate_condition(_, _)
validate_condition(c, depth) ==
  /\ depth <= MaxDepth
  /\ SimpleCondition(c)
  /\ c.type \in {"all", "any"} =>
       /\ c.conditions # <<>>
       /\ \A i \in DOMAIN c.conditions : validate_condition(c.conditions[i], depth + 1)
  /\ c.type = "not" => validate_condition(c.condition, depth + 1)

ValidRule(r, c) ==
  /\ r.actions # <<>>
  /\ validate_trigger(r.trigger, 0, Members(c.hotkeys))
  /\ r.when # None => validate_condition(r.when, 0)
  /\ \A i \in DOMAIN r.actions : validate_action(r.actions[i], c)

validate_config(c) ==
  /\ c.version = 1 /\ ValidDaemon(c.daemon) /\ ValidModes(c.modes)
  /\ Distinct(Names(c.vaults)) /\ \A i \in DOMAIN c.vaults : ValidVault(c.vaults[i])
  /\ Distinct(Names(c.hotkeys)) /\ \A i \in DOMAIN c.hotkeys : ValidHotkey(c.hotkeys[i])
  /\ Distinct([i \in DOMAIN c.rules |-> c.rules[i].id])
  /\ \A i \in DOMAIN c.rules : ValidRule(c.rules[i], c)
===============================================================================
