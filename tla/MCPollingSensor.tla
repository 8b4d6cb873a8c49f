---------------------------- MODULE MCPollingSensor ----------------------------
(* Inputs with two states each, one device, path, name and port per set.       *)
EXTENDS PollingSensor

CONSTANTS Net, Device, Path, Name

Wifi(connected, ssid) ==
  [type |-> "wifi", connected |-> connected, ssid |-> ssid, bssid |-> None]
Session(state) == [type |-> "session", state |-> state, user |-> None, remote |-> FALSE]
Power(ac) == [type |-> "power", on_ac |-> ac, battery_percent |-> None, lid_closed |-> None]
Network(up) == [type |-> "network", online |-> up, interface |-> None, vpn |-> FALSE]

MCPorts == {<<"tcp", 22>>}
MCValue ==
  [i \in Inputs |->
    CASE i = "wifi" -> {Wifi(FALSE, None), Wifi(TRUE, Net)}
      [] i = "network" -> {Network(FALSE), Network(TRUE)}
      [] i = "power" -> {Power(FALSE), Power(TRUE)}
      [] i = "sessions" -> {Session("logged_out"), Session("unlocked")}
      [] i = "usb" -> SUBSET {Device}
      [] i = "mounts" -> SUBSET {Path}
      [] i \in {"processes", "services"} -> [{Name} -> BOOLEAN]
      [] i = "ports" -> SUBSET MCPorts
      [] i \in Files -> {"original", "altered"}]
===============================================================================
