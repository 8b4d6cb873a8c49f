---------------------------- MODULE MCHotkeySensor ----------------------------
(* Small instances of HotkeySensor: a sequence that begins and ends with the   *)
(* same key, so that matches could overlap.                                    *)
EXTENDS HotkeySensor

Doubled == <<"CTRL", "X", "LEFTCTRL">>
===============================================================================
