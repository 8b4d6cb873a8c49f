---------------------------- MODULE MCPolicyEngine ----------------------------
(* Small instances of PolicyEngine with the matchers of the source.            *)
EXTENDS PolicyEngine, Matching

SameCase(x) == x

Manual(name) == [type |-> "manual", name |-> name]
AnyWifi == [type |-> "wifi_changed", ssid |-> None, bssid |-> None, connected |-> None]
Online == [type |-> "network", online |-> TRUE, interface |-> None, vpn |-> None]
Sequence(steps, within) == [type |-> "sequence", steps |-> steps, within |-> within]

LockVault == [type |-> "lock_vault", target |-> "v"]
UnlockVault == [type |-> "unlock_vault", target |-> "v"]
EnterMode(m) == [type |-> "set_mode", target |-> m]
Notify == [type |-> "notify"]

BaseRule ==
  [priority |-> 0, enabled |-> TRUE, once_per_boot |-> FALSE, cooldown |-> 0,
   sustain_for |-> 0, on_sensor_failure |-> "alert", trigger |-> AnyWifi,
   when |-> None, actions |-> <<Notify>>]

SequenceRule ==
  [BaseRule EXCEPT !.priority = 1, !.cooldown = 2,
     !.trigger = Sequence(<<Manual("a"), Manual("b")>>, 1),
     !.actions = <<UnlockVault, Notify>>]

SustainedRule ==
  [BaseRule EXCEPT !.sustain_for = 2, !.when = Online, !.on_sensor_failure = "fail_closed",
     !.actions = <<LockVault, Notify, EnterMode("high")>>]

OnceRule ==
  [BaseRule EXCEPT !.once_per_boot = TRUE, !.trigger = Manual("b"),
     !.actions = <<LockVault, EnterMode("low")>>]

ManualEvent(name) == <<"manual", Manual(name)>>
WifiEvent == <<"wifi", [NoWifi EXCEPT !.connected = TRUE]>>
NetworkEvent(online) == <<"network", [NoNetwork EXCEPT !.online = online]>>
WifiLost == <<"wifi", [type |-> "sensor_failure", sensor |-> "wifi"]>>

(* A sequence and a sustained rule that compete for a vault, over all orders   *)
(* of timestamps.                                                              *)
CoreKinds == {ManualEvent("a"), ManualEvent("b"), WifiEvent, WifiLost,
              NetworkEvent(TRUE), NetworkEvent(FALSE)}
CoreConfig == {(1 :> SequenceRule @@ 2 :> SustainedRule),
               (2 :> SustainedRule @@ 3 :> OnceRule),
               (3 :> [OnceRule EXCEPT !.sustain_for = 1, !.priority = 2])}
CoreTime == 0..3

(* Reloads that drop and add rules, shorten a sequence and disable a rule.     *)
LongerRule == [SequenceRule EXCEPT !.trigger.steps = <<Manual("a"), Manual("b"), Manual("b")>>]
ReloadKinds == {ManualEvent("a"), ManualEvent("b")}
ReloadConfig == {(1 :> LongerRule @@ 3 :> OnceRule),
                 (1 :> SequenceRule @@ 3 :> [OnceRule EXCEPT !.enabled = FALSE]),
                 (3 :> [OnceRule EXCEPT !.sustain_for = 1, !.priority = 2])}
ReloadTime == 0..2
===============================================================================
