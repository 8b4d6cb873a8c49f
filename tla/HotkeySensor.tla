----------------------------- MODULE HotkeySensor -----------------------------
(* kovert-sensors/src/hotkey.rs: the task that watches one input device for    *)
(* one sequence of keys, the device's queue before it and the event channel    *)
(* after it.                                                                   *)
(*                                                                             *)
(* The task dates a key when it reads it.  While it waits for the channel, the *)
(* keys that are pressed wait in the queue.                                    *)
EXTENDS Naturals, Sequences, FiniteSets

CONSTANTS
  Keys,         \* HotkeyConfig.sequence: names of keys
  Within,       \* HotkeyConfig.within
  Pressed,      \* codes of the keys that are pressed
  EventBuffer,  \* capacity of the event channel
  MaxPresses,   \* bounds: input events,
  MaxTime       \* the clock
-------------------------------------------------------------------------------
(* key_code, and the names validation.rs accepts.  A name stands for its       *)
(* trimmed upper-case form without the prefix KEY_.                            *)
KeyRow(first, names) == {<<names[i], first + i - 1>> : i \in DOMAIN names}

KeyTable ==
  KeyRow(1, <<"ESC", "1", "2", "3", "4", "5", "6", "7", "8", "9", "0">>)
  \cup KeyRow(16, <<"Q", "W", "E", "R", "T", "Y", "U", "I", "O", "P">>)
  \cup KeyRow(28, <<"ENTER", "LEFTCTRL", "A", "S", "D", "F", "G", "H", "J", "K", "L">>)
  \cup KeyRow(44, <<"Z", "X", "C", "V", "B", "N", "M">>)
  \cup KeyRow(56, <<"LEFTALT", "SPACE">>)
  \cup KeyRow(59, <<"F1", "F2", "F3", "F4", "F5", "F6", "F7", "F8", "F9", "F10">>)
  \cup KeyRow(87, <<"F11", "F12">>)
  \cup KeyRow(102, <<"HOME", "UP", "PAGEUP", "LEFT", "RIGHT", "END", "DOWN", "PAGEDOWN",
                     "INSERT", "DELETE">>)
  \cup {<<"CTRL", 29>>, <<"LEFTSHIFT", 42>>, <<"SHIFT", 42>>, <<"ALT", 56>>, <<"RIGHTCTRL", 97>>,
        <<"RIGHTALT", 100>>, <<"LEFTMETA", 125>>, <<"META", 125>>, <<"RIGHTMETA", 126>>}

key_code(name) == (CHOOSE row \in KeyTable : row[1] = name)[2]
Supported == {row[1] : row \in KeyTable}

valid_key_name ==
  {"A", "B", "C", "D", "E", "F", "G", "H", "I", "J", "K", "L", "M", "N", "O", "P", "Q", "R", "S",
   "T", "U", "V", "W", "X", "Y", "Z", "0", "1", "2", "3", "4", "5", "6", "7", "8", "9", "ESC",
   "ENTER", "LEFTCTRL", "CTRL", "LEFTSHIFT", "SHIFT", "LEFTALT", "ALT", "SPACE", "F1", "F2", "F3",
   "F4", "F5", "F6", "F7", "F8", "F9", "F10", "F11", "F12", "RIGHTCTRL", "RIGHTALT", "HOME", "UP",
   "PAGEUP", "LEFT", "RIGHT", "END", "DOWN", "PAGEDOWN", "INSERT", "DELETE", "LEFTMETA", "META",
   "RIGHTMETA"}

(* The two lists agree, so the sequence of a validated configuration has codes *)
(* and a hotkey can only fail to start on its device.                          *)
ASSUME KeyNamesAgree == valid_key_name = Supported

ASSUME HotkeyAssumption ==
  /\ Keys \in Seq(valid_key_name) /\ Keys # <<>> /\ Within \in Nat
  /\ Pressed \subseteq Nat \ {0} /\ EventBuffer \in Nat \ {0}
  /\ MaxPresses \in Nat /\ MaxTime \in Nat

sequence == [i \in DOMAIN Keys |-> key_code(Keys[i])]
Length == Len(Keys)
-------------------------------------------------------------------------------
VARIABLES
  clock,
  queue,     \* input events the task has not read: codes of keys pressed, 0 for others
  buffer,    \* of the task: [code, at]
  phase,     \* of the task: "reading", "sending", "failing", "ended", "aborted"
             \* between two events or "cut" off while it was sending one
  channel,   \* the event channel: "hotkey", "failure" or "other"
  presses,   \* history: the keys read so far, [code, at]
  marks,     \* history: the positions in presses at which the sequence was complete
  received   \* history: how many hotkey events and failures the runtime received

history == <<presses, marks, received>>
vars == <<clock, queue, buffer, phase, channel, history>>

Init ==
  /\ clock = 0 /\ queue = <<>> /\ buffer = <<>> /\ phase = "reading" /\ channel = <<>>
  /\ presses = <<>> /\ marks = {} /\ received = [e \in {"hotkey", "failure"} |-> 0]

Tick ==
  /\ clock < MaxTime /\ clock' = clock + 1
  /\ UNCHANGED <<queue, buffer, phase, channel, history>>

(* A key goes down, or another input event happens.                            *)
Press(code) ==
  /\ Len(presses) + Len(queue) < MaxPresses
  /\ queue' = Append(queue, code)
  /\ UNCHANGED <<clock, buffer, phase, channel, history>>

-------------------------------------------------------------------------------
First(S) == CHOOSE i \in S : \A j \in S : i <= j

(* Entries are taken from the front while there are too many, then while the   *)
(* front one is too old.                                                       *)
Trim(entries) ==
  LET n == Len(entries)
      kept == {i \in 1..(n + 1) : /\ n - i < Length
                                  /\ i <= n => clock - entries[i].at <= Within}
  IN SubSeq(entries, First(kept), n)

Codes(entries) == [i \in DOMAIN entries |-> entries[i].code]

(* The buffer is kept after a match.                                           *)
NextEventMutant ==
  LET press == [code |-> Head(queue), at |-> clock]
      entries == Trim(Append(buffer, press))
  IN
  /\ phase = "reading" /\ queue # <<>> /\ queue' = Tail(queue)
  /\ IF press.code = 0
     THEN UNCHANGED <<buffer, phase, presses, marks>>
     ELSE /\ presses' = Append(presses, press)
          /\ buffer' = entries
          /\ IF Codes(entries) = sequence
             THEN phase' = "sending" /\ marks' = marks \cup {Len(presses')}
             ELSE UNCHANGED <<phase, marks>>
  /\ UNCHANGED <<clock, channel, received>>

(* One round of the loop                                                       *)
NextEvent ==
  LET press == [code |-> Head(queue), at |-> clock]
      entries == Trim(Append(buffer, press))
  IN
  /\ phase = "reading" /\ queue # <<>> /\ queue' = Tail(queue)
  /\ IF press.code = 0
     THEN UNCHANGED <<buffer, phase, presses, marks>>
     ELSE /\ presses' = Append(presses, press)
          /\ IF Codes(entries) = sequence
             THEN buffer' = <<>> /\ phase' = "sending" /\ marks' = marks \cup {Len(presses')}
             ELSE buffer' = entries /\ UNCHANGED <<phase, marks>>
  /\ UNCHANGED <<clock, channel, received>>

Room == Len(channel) < EventBuffer

(* try_send: a match that finds the channel full is lost.                      *)
SendHotkeyMutantTry ==
  /\ phase = "sending"
  /\ channel' = IF Room THEN Append(channel, "hotkey") ELSE channel
  /\ phase' = "reading"
  /\ UNCHANGED <<clock, queue, buffer, history>>

SendHotkey ==
  /\ phase = "sending" /\ Room
  /\ channel' = Append(channel, "hotkey") /\ phase' = "reading"
  /\ UNCHANGED <<clock, queue, buffer, history>>

StreamError ==
  /\ phase = "reading" /\ phase' = "failing"
  /\ UNCHANGED <<clock, queue, buffer, channel, history>>

SendFailure ==
  /\ phase = "failing" /\ Room
  /\ channel' = Append(channel, "failure") /\ phase' = "ended"
  /\ UNCHANGED <<clock, queue, buffer, history>>

(* A reload replaces the task, wherever it waits.                              *)
Abort ==
  /\ phase \in {"reading", "sending", "failing"}
  /\ phase' = IF phase = "reading" THEN "aborted" ELSE "cut"
  /\ UNCHANGED <<clock, queue, buffer, channel, history>>

(* Other providers, and the runtime                                            *)
OtherEvent ==
  /\ Room /\ channel' = Append(channel, "other")
  /\ UNCHANGED <<clock, queue, buffer, phase, history>>

ReceiveEvent ==
  /\ channel # <<>> /\ channel' = Tail(channel)
  /\ received' = IF Head(channel) = "other" THEN received
                 ELSE [received EXCEPT ![Head(channel)] = @ + 1]
  /\ UNCHANGED <<clock, queue, buffer, phase, presses, marks>>

-------------------------------------------------------------------------------
Next ==
  \/ Tick \/ NextEvent \/ SendHotkey \/ StreamError \/ SendFailure \/ Abort
  \/ OtherEvent \/ ReceiveEvent
  \/ \E code \in Pressed \cup {0} : Press(code)

(* The runtime takes events, and the channel serves waiting senders in turn.   *)
(* Nothing is assumed of keys, devices and reloads.                            *)
Spec ==
  /\ Init /\ [][Next]_vars
  /\ WF_vars(NextEvent) /\ WF_vars(ReceiveEvent) /\ SF_vars(SendHotkey) /\ SF_vars(SendFailure)
-------------------------------------------------------------------------------
(* Values; the keys read are dated in order.                                   *)
TypeOK ==
  /\ clock \in 0..MaxTime /\ queue \in Seq(Pressed \cup {0})
  /\ presses \in Seq([code : Pressed, at : 0..clock])
  /\ \A i, j \in DOMAIN presses : i <= j => presses[i].at <= presses[j].at
  /\ buffer \in Seq([code : Pressed, at : 0..clock])
  /\ phase \in {"reading", "sending", "failing", "ended", "aborted", "cut"}
  /\ channel \in Seq({"hotkey", "failure", "other"}) /\ Len(channel) <= EventBuffer
  /\ marks \subseteq DOMAIN presses

(* The keys up to n complete the sequence: the last keys are those of the      *)
(* sequence, within the window, and none of them belongs to an earlier match.  *)
Completes(n) ==
  /\ n >= Length
  /\ \A i \in 1..Length : presses[n - Length + i].code = sequence[i]
  /\ presses[n].at - presses[n - Length + 1].at <= Within
  /\ \A m \in marks : m < n => m <= n - Length

(* spawn: the task reports the hotkey exactly at the keys that complete it; no *)
(* key counts for two matches, and no stray key before the sequence, nor one   *)
(* that has become too old, hides it.                                          *)
FiresExactly == \A n \in DOMAIN presses : n \in marks <=> Completes(n)

(* spawn: every match reaches the runtime, though the channel may be full when *)
(* it happens and others use it as well; and when the device fails, the        *)
(* runtime hears of it once, and the task does not end before.  A reload costs *)
(* at most the event that is being sent.                                       *)
EventsArrive ==
  /\ \A n \in 1..MaxPresses :
       (Cardinality(marks) >= n)
         ~> (received["hotkey"] >= n \/ (phase = "cut" /\ received["hotkey"] >= n - 1))
  /\ (phase \in {"failing", "ended"}) ~> (phase = "cut" \/ [](received["failure"] = 1))
===============================================================================
