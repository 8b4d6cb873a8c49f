------------------------------- MODULE MCDaemon -------------------------------
(* Small instances of Daemon with the matchers of the source.                  *)
EXTENDS Daemon, Matching

SameCase(x) == x

Manual(name) == [type |-> "manual", name |-> name]
AnyUsb == [type |-> "usb", action |-> None, vendor_id |-> None, product_id |-> None,
           serial |-> None]

EnterMode(m) == [type |-> "set_mode", target |-> m]
Notify == [type |-> "notify", target |-> "m"]

Rule(trigger, priority, actions) ==
  [priority |-> priority, enabled |-> TRUE, once_per_boot |-> FALSE, cooldown |-> 0,
   sustain_for |-> 0, on_sensor_failure |-> "alert", trigger |-> trigger,
   when |-> None, actions |-> actions]

Modes(initial, names) ==
  [i \in DOMAIN names |-> [name |-> names[i], initial |-> names[i] = initial]]

(* A rule that notifies twice and one that changes the mode.                   *)
LiveRules == (1 :> Rule(AnyUsb, 1, <<Notify, Notify>>)
           @@ 2 :> Rule(Manual("go"), 0, <<EnterMode("high")>>))
Live == [rules |-> LiveRules, modes |-> Modes("low", <<"low", "high">>), dry_run |-> FALSE]

Usb == <<"usb", [type |-> "usb", action |-> "added", vendor_id |-> None,
                 product_id |-> None, serial |-> None]>>
UsbEvents == {Usb}

AskTrigger == [type |-> "trigger", name |-> "go"]
AskMode(m) == [type |-> "set_mode", mode |-> m]
AskRecovery(b) == [type |-> "recovery", enabled |-> b]
AskReload == [type |-> "reload"]
AskSimulate == [type |-> "simulate", kind |-> Usb]
AskRead == [type |-> "read"]

AllRequests == {AskTrigger, AskMode("low"), AskMode("none"), AskRecovery(TRUE),
                AskRecovery(FALSE), AskReload, AskSimulate, AskRead}

(* Reloads between a live configuration and a dry run, whose sequence is       *)
(* shorter; the rule of the sequence runs the same notification twice.         *)
UsbOrGo == [type |-> "any", triggers |-> <<AnyUsb, Manual("go")>>]
Repeated(n) == [type |-> "sequence", steps |-> [i \in 1..n |-> UsbOrGo], within |-> 10]
LongSequence ==
  [Live EXCEPT !.rules = 1 :> Rule(Repeated(3), 1, <<Notify, Notify>>)
                      @@ 2 :> Rule(UsbOrGo, 0, <<EnterMode("high")>>)]
ShortRehearsal ==
  [LongSequence EXCEPT !.rules[1].trigger = Repeated(2), !.dry_run = TRUE]
SequenceFiles == {LongSequence, ShortRehearsal}

(* Configurations that differ in their modes.                                  *)
WithoutHigh == [Live EXCEPT !.modes = Modes("low", <<"low">>), !.rules = 1 :> LiveRules[1]]
ModeFiles == {Live, WithoutHigh}
ModeRequests == {AskMode("high"), AskMode("low"), AskReload}
NoEvents == {}
===============================================================================
