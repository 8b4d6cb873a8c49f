----------------------------- MODULE MCSensorHub ------------------------------
(* Small instances of SensorHub with the validation, the requirements and the  *)
(* matchers of the source.                                                     *)
EXTENDS SensorHub, Validation, Requirements

SameCase(x) == x
SmallText ==
  [identifier |-> {"a", "b"}, key |-> {"K"}, interface |-> {"eth0"}, unit |-> {"u"},
   description |-> {"k"}, digest |-> {"x"}, environment_key |-> {"V"}]

Dir == <<"/", "d">>
Deep == <<"/", "d", "e", "f">>
Other == <<"/", "g">>
Deeper == <<"/", "g", "e", "f">>

FileTrigger(path, recursive) ==
  [type |-> "file", path |-> path, operations |-> {}, recursive |-> recursive]
ProcessTrigger(name) == [type |-> "process", name |-> name, running |-> None]
PortTrigger(port) == [type |-> "port", port |-> port, open |-> None, protocol |-> None]
MountTrigger == [type |-> "mount", action |-> None, path |-> None]
HotkeyTrigger(name) == [type |-> "hotkey", name |-> name]
ManualTrigger == [type |-> "manual", name |-> "a"]
ProcessRuns == [type |-> "process", name |-> "sh", running |-> TRUE]
Healthy(sensor) == [type |-> "sensor_healthy", sensor |-> sensor, healthy |-> TRUE]

Lock == [type |-> "notify"]
Rule(id, trigger, when) == [id |-> id, trigger |-> trigger, when |-> when, actions |-> <<Lock>>]

Base ==
  [version |-> 1,
   daemon |-> [socket_path |-> <<"/", "s">>, state_path |-> <<"/", "t">>, poll_interval |-> 5,
               event_buffer |-> 16, allowed_executables |-> {}, managed_processes |-> {}],
   modes |-> <<>>, vaults |-> <<>>, hotkeys |-> <<>>, rules |-> <<>>]
With(rules) == [Base EXCEPT !.rules = rules]

(* Watches one tree, in a sequence, and a process in a condition.              *)
TreeConfig ==
  With(<<Rule("a", [type |-> "sequence", steps |-> <<FileTrigger(Dir, TRUE), PortTrigger(1)>>,
                    within |-> 1],
              [type |-> "not", condition |-> ProcessRuns])>>)
(* Watches two paths, one of which the second rule overrules the first on, and *)
(* has a hotkey.                                                               *)
TwoConfig ==
  [With(<<Rule("a", [type |-> "any", triggers |-> <<FileTrigger(Dir, TRUE), FileTrigger(Other, TRUE),
                                                 HotkeyTrigger("a")>>],
               None),
          Rule("b", [type |-> "all", triggers |-> <<FileTrigger(Other, FALSE), MountTrigger>>],
               Healthy("wifi"))>>)
     EXCEPT !.hotkeys = <<[name |-> "a", device |-> <<"/", "k">>, sequence |-> <<"K">>,
                           within |-> 1]>>]
(* Watches no file, and depends on the health of a sensor it has no use for.   *)
PlainConfig ==
  With(<<Rule("a", [type |-> "not", trigger |-> ProcessTrigger("sh")], Healthy("ports"))>>)
(* Do not validate: no name, no hotkey of that name.                           *)
NamelessConfig == With(<<Rule("a", ProcessTrigger(None), None)>>)
DanglingConfig == With(<<Rule("a", HotkeyTrigger("a"), None)>>)

Policy ==
  [tree |-> TreeConfig, two |-> TwoConfig, plain |-> PlainConfig,
   nameless |-> NamelessConfig, dangling |-> DanglingConfig]
Configurations == DOMAIN Policy
Valid == {c \in Configurations : validate_config(Policy[c])}
Required ==
  [tree |-> from_config(TreeConfig), two |-> from_config(TwoConfig),
   plain |-> from_config(PlainConfig), nameless |-> from_config(NamelessConfig),
   dangling |-> from_config(DanglingConfig)]
HotkeyCount == [c \in Configurations |-> Len(Policy[c].hotkeys)]

File(path) == <<"filesystem", [type |-> "file", path |-> path, operation |-> "modify"]>>
HostEvents ==
  {File(Deep), File(Other), File(Deeper),
   <<"processes", [type |-> "process", name |-> "sh", running |-> TRUE]>>,
   <<"processes", [type |-> "process", name |-> "cc", running |-> TRUE]>>,
   <<"ports", [type |-> "port", protocol |-> "udp", port |-> 1, open |-> TRUE]>>,
   <<"mounts", [type |-> "mount", action |-> "added", path |-> Dir]>>,
   <<"wifi", [NoWifi EXCEPT !.connected = TRUE]>>}
WantedEvents == [c \in Configurations |-> {k \in HostEvents : Wants(Policy[c], k)}]
MissedEvents == [c \in Configurations |-> {k \in WantedEvents[c] : Misses(Policy[c], k)}]
===============================================================================
