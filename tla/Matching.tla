------------------------------- MODULE Matching -------------------------------
(* The matchers of kovert-core/src/engine.rs: which events a trigger matches,  *)
(* which snapshots a condition holds in, and which sensors a trigger uses.     *)
(*                                                                             *)
(* Triggers and conditions are records whose field "type" names the variant    *)
(* and whose other fields are the variant's; an optional field that is absent  *)
(* is None.  A path is the sequence of its components.                         *)
EXTENDS Snapshot, SequencesExt

CONSTANTS Lower(_),   \* ASCII lower case of an identifier
          DayLength,  \* timestamps per day
          FileExists  \* paths that exist when a condition looks at them

(* Option::is_none_or with equality, with case-insensitive equality, with <.   *)
Is(expected, actual) == expected = None \/ expected = actual

eq_optional_ci(expected, actual) ==
  expected = None \/ (actual # None /\ Lower(expected) = Lower(actual))

Below(limit, actual) == limit = None \/ (actual # None /\ actual < limit)

path_matches(configured, actual, recursive) ==
  IF recursive THEN IsPrefix(configured, actual) ELSE configured = actual

-------------------------------------------------------------------------------
WifiIs(t, w) == Is(t.connected, w.connected) /\ Is(t.ssid, w.ssid)
                /\ eq_optional_ci(t.bssid, w.bssid)
NetworkIs(t, n) == Is(t.online, n.online) /\ Is(t.vpn, n.vpn) /\ Is(t.interface, n.interface)
SessionIs(t, s) == Is(t.state, s.state) /\ Is(t.remote, s.remote) /\ Is(t.user, s.user)
PowerIs(t, p) == Is(t.on_ac, p.on_ac) /\ Is(t.lid_closed, p.lid_closed)
                 /\ Below(t.battery_below, p.battery_percent)

RECURSIVE TriggerMatches(_, _)
TriggerMatches(t, e) ==
  LET k == e.kind
      Variant(trigger, kind) == t.type = trigger /\ k.type = kind
  IN \/ Variant("tick", "tick")
     \/ /\ Variant("file", "file")
        /\ path_matches(t.path, k.path, t.recursive)
        /\ t.operations = {} \/ k.operation \in t.operations
     \/ Variant("wifi_changed", "wifi") /\ WifiIs(t, k)
     \/ Variant("network_changed", "network") /\ NetworkIs(t, k)
     \/ /\ Variant("usb", "usb") /\ Is(t.action, k.action) /\ Is(t.serial, k.serial)
        /\ eq_optional_ci(t.vendor_id, k.vendor_id)
        /\ eq_optional_ci(t.product_id, k.product_id)
     \/ Variant("mount", "mount") /\ Is(t.action, k.action) /\ Is(t.path, k.path)
     \/ Variant("process", "process") /\ Is(t.running, k.running) /\ Is(t.name, k.name)
     \/ Variant("service", "service") /\ Is(t.active, k.active) /\ Is(t.name, k.name)
     \/ /\ Variant("port", "port")
        /\ Is(t.port, k.port) /\ Is(t.open, k.open) /\ Is(t.protocol, k.protocol)
     \/ Variant("session", "session") /\ SessionIs(t, k)
     \/ Variant("power", "power") /\ PowerIs(t, k)
     \/ Variant("hotkey", "hotkey") /\ t.name = k.name
     \/ Variant("integrity_failure", "integrity") /\ ~k.valid /\ Is(t.component, k.component)
     \/ Variant("manual", "manual") /\ t.name = k.name
     \/ Variant("sensor_failure", "sensor_failure") /\ Is(t.sensor, k.sensor)
     \/ t.type = "all" /\ \A i \in DOMAIN t.triggers : TriggerMatches(t.triggers[i], e)
     \/ t.type = "any" /\ \E i \in DOMAIN t.triggers : TriggerMatches(t.triggers[i], e)
     \/ t.type = "not" /\ ~TriggerMatches(t.trigger, e)

-------------------------------------------------------------------------------
(* A window whose start is after its end runs over midnight.                   *)
InTimeWindow(c, now) ==
  LET time == now % DayLength
      weekday == (now \div DayLength) % 7
      inside == IF c.start <= c.end THEN time >= c.start /\ time <= c.end
                ELSE time >= c.start \/ time <= c.end
  IN /\ c.weekdays = {} \/ weekday \in c.weekdays
     /\ inside # c.outside

RECURSIVE ConditionMatches(_, _)
ConditionMatches(c, s) ==
  \/ c.type = "all" /\ \A i \in DOMAIN c.conditions : ConditionMatches(c.conditions[i], s)
  \/ c.type = "any" /\ \E i \in DOMAIN c.conditions : ConditionMatches(c.conditions[i], s)
  \/ c.type = "not" /\ ~ConditionMatches(c.condition, s)
  \/ c.type = "time_window" /\ InTimeWindow(c, s.now)
  \/ c.type = "wifi" /\ WifiIs(c, s.wifi)
  \/ c.type = "network" /\ NetworkIs(c, s.network)
  \/ c.type = "mode" /\ c.name = s.mode
  \/ c.type = "path_exists" /\ (c.path \in FileExists) = c.exists
  \/ c.type = "mounted" /\ (c.path \in s.mounts) = c.mounted
  \/ c.type = "process" /\ (c.name \in s.processes) = c.running
  \/ c.type = "service" /\ (c.name \in s.services) = c.active
  \/ c.type = "port" /\ (<<c.protocol, c.port>> \in s.ports) = c.open
  \/ c.type = "session" /\ SessionIs(c, s.session)
  \/ c.type = "power" /\ PowerIs(c, s.power)
  \/ c.type = "sensor_healthy" /\ (c.sensor \in s.sensor_health) = c.healthy

-------------------------------------------------------------------------------
(* The name under which the provider of a simple trigger reports a failure.    *)
SensorName ==
  [tick |-> "time", file |-> "filesystem", wifi_changed |-> "wifi",
   network_changed |-> "network", usb |-> "usb", mount |-> "mounts",
   process |-> "processes", service |-> "services", port |-> "ports",
   session |-> "sessions", power |-> "power", hotkey |-> "hotkeys",
   integrity_failure |-> "integrity", manual |-> "manual"]

RECURSIVE TriggerUsesSensor(_, _)
TriggerUsesSensor(t, sensor) ==
  \/ t.type \in DOMAIN SensorName /\ SensorName[t.type] = sensor
  \/ t.type = "sensor_failure" /\ Is(t.sensor, sensor)
  \/ t.type \in {"all", "any"} /\ \E i \in DOMAIN t.triggers :
                                     TriggerUsesSensor(t.triggers[i], sensor)
  \/ t.type = "sequence" /\ \E i \in DOMAIN t.steps : TriggerUsesSensor(t.steps[i], sensor)
  \/ t.type = "not" /\ TriggerUsesSensor(t.trigger, sensor)
===============================================================================
