------------------------------- MODULE Snapshot -------------------------------
(* Events and the latest-known host state of kovert-core/src/event.rs.         *)
(*                                                                             *)
(* An event is a record with a timestamp, the name of the source that sent it  *)
(* and a kind; the kind is a record whose field "type" names the variant of    *)
(* EventKind and whose other fields are the variant's.  The two maps of the    *)
(* source, sensor_health and services, are only ever read as                   *)
(* get(..).unwrap_or(false), so each is the set of the keys mapped to true.    *)
EXTENDS Integers

CONSTANT None    \* the absent value of an Option

(* The variants of EventKind.                                                  *)
EventTypes ==
  {"tick", "file", "wifi", "network", "usb", "mount", "process", "service", "port",
   "session", "power", "hotkey", "integrity", "manual", "sensor_failure"}

(* The groups of fields that one kind of event overwrites as a whole.  A group *)
(* holds the kind of the last such event.                                      *)
NoWifi == [type |-> "wifi", connected |-> FALSE, ssid |-> None, bssid |-> None]
NoNetwork == [type |-> "network", online |-> FALSE, interface |-> None, vpn |-> FALSE]
NoSession == [type |-> "session", state |-> None, user |-> None, remote |-> FALSE]
NoPower == [type |-> "power", on_ac |-> None, battery_percent |-> None, lid_closed |-> None]

DefaultSnapshot(now, mode) ==
  [now |-> now, mode |-> mode,
   wifi |-> NoWifi, network |-> NoNetwork, session |-> NoSession, power |-> NoPower,
   mounts |-> {}, processes |-> {}, services |-> {}, ports |-> {},
   sensor_health |-> {}]

(* insert when the flag holds, remove otherwise                                *)
Toggle(S, x, present) == IF present THEN S \cup {x} ELSE S \ {x}

apply(snapshot, event) ==
  LET k == event.kind
      s == [snapshot EXCEPT !.now = event.timestamp,
                            !.sensor_health = @ \cup {event.source}]
  IN CASE k.type = "wifi"    -> [s EXCEPT !.wifi = k]
       [] k.type = "network" -> [s EXCEPT !.network = k]
       [] k.type = "session" -> [s EXCEPT !.session = k]
       [] k.type = "power"   -> [s EXCEPT !.power = k]
       [] k.type = "mount"   -> [s EXCEPT !.mounts = Toggle(@, k.path, k.action # "removed")]
       [] k.type = "process" -> [s EXCEPT !.processes = Toggle(@, k.name, k.running)]
       [] k.type = "service" -> [s EXCEPT !.services = Toggle(@, k.name, k.active)]
       [] k.type = "port"    -> [s EXCEPT !.ports = Toggle(@, <<k.protocol, k.port>>, k.open)]
       [] k.type = "integrity" ->
            [s EXCEPT !.sensor_health = Toggle(@, k.component, k.valid)]
       [] k.type = "sensor_failure" -> [s EXCEPT !.sensor_health = @ \ {k.sensor}]
       [] k.type \in {"tick", "file", "usb", "hotkey", "manual"} -> s
===============================================================================
