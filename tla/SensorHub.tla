------------------------------ MODULE SensorHub -------------------------------
(* The providers of a configuration and their replacement by a reload          *)
(* (kovert-sensors/src/lib.rs and filesystem.rs, Runtime::reload, main).       *)
(*                                                                             *)
(* Every start of the hub has a number.  Its filesystem provider is a thread   *)
(* that adds the watches and an event loop of the library notify, which both   *)
(* serves the calls that add watches and runs the callback; the callback waits *)
(* while the event channel is full.  The hub waits for the thread; on a reload *)
(* the caller is the runtime, the channel's only receiver.                     *)
(*                                                                             *)
(* File events are numbered as they happen; 0 is any other event.              *)
EXTENDS Naturals, Sequences, FiniteSets

CONSTANTS
  Nil,
  Configuration,    \* what the configuration file may hold
  Accepted,         \* those validate_config accepts
  Requires,         \* SensorRequirements::from_config of each of them
  Hotkeys,          \* how many hotkeys each has
  Wanted,           \* the host events the rules of each could react to,
  Missed,           \* those of them that its requirements leave out
  Covers(_, _, _),  \* providers with these watches and probes report an event
  HostEvent,        \* what can happen on the host: <<source, kind>>
  EventBuffer,      \* capacity of the event channel
  MaxStarts,        \* bounds: starts of the hub,
  MaxTouches        \* file events and errors of watchers

Start == 1..MaxStarts

ASSUME HubAssumption ==
  /\ EventBuffer \in Nat \ {0} /\ MaxStarts \in Nat \ {0} /\ MaxTouches \in Nat
  /\ Accepted \subseteq Configuration /\ \A c \in Configuration : Wanted[c] \subseteq HostEvent
  /\ Hotkeys \in [Configuration -> Nat]
  /\ \A c \in Configuration :
       LET w == Requires[c].file_watches IN w = [path \in DOMAIN w |-> w[path]]
  /\ Nil \notin Configuration /\ Nil \notin Nat

VARIABLES
  file,      \* the configuration file
  config,    \* Runtime.config, Nil before the first start has succeeded
  current,   \* the start whose handles the runtime holds, Nil before
  phase,     \* of main and the runtime: "select", "starting" or "exited"
  started,   \* number of starts so far; in "starting" the one under way
  target,    \* per start: its configuration
  needs,     \* per start: the requirements and the number of hotkeys of that
  status,    \* per start: "none", "watching", "ready", "retired" (its thread was
             \* told to end), "leaked" (nobody holds its handle) or "stopped"
  watches,   \* per start: the watches added, from paths to recursive
  backlog,   \* per start: file events its event loop has not taken yet
  sending,   \* per start: what the callback is sending, Nil between calls
  probes,    \* per start: the probes of its polling task, {} when there is none
  channel,   \* the event channel
  touched,   \* history: the file events so far
  seenBy,    \* history: which start was current at each
  received   \* history: the events the runtime has received

hub == <<config, current, phase, started, target, needs>>
provider == <<status, watches, backlog, sending, probes>>
history == <<touched, seenBy, received>>
vars == <<file, hub, provider, channel, history>>

Needs(c) ==
  [file_watches |-> Requires[c].file_watches, probes |-> Requires[c].probes, hotkeys |-> Hotkeys[c]]
Paths == DOMAIN needs[started].file_watches
NoWatches == <<>>
Live == {"watching", "ready", "retired", "leaked"}

-------------------------------------------------------------------------------
Begin(s, c) ==
  /\ started' = s
  /\ phase' = "starting"
  /\ target' = [target EXCEPT ![s] = c]
  /\ needs' = [needs EXCEPT ![s] = Needs(c)]
  /\ status' = [status EXCEPT ![s] = "watching"]

(* A file that cannot be read, has the wrong owner or permissions or does not  *)
(* parse is one that is not accepted.                                          *)
load == file \in Accepted

(* main loads the file and starts the first providers.                         *)
Init ==
  /\ file \in Configuration /\ load
  /\ config = Nil /\ current = Nil /\ phase = "starting" /\ started = 1
  /\ target = [s \in Start |-> IF s = 1 THEN file ELSE Nil]
  /\ needs = [s \in Start |-> IF s = 1 THEN Needs(file) ELSE Nil]
  /\ status = [s \in Start |-> IF s = 1 THEN "watching" ELSE "none"]
  /\ watches = [s \in Start |-> NoWatches]
  /\ backlog = [s \in Start |-> <<>>]
  /\ sending = [s \in Start |-> Nil]
  /\ probes = [s \in Start |-> {}]
  /\ channel = <<>>
  /\ touched = <<>> /\ seenBy = <<>> /\ received = {}

EditFile ==
  /\ file' \in Configuration
  /\ UNCHANGED <<hub, provider, channel, history>>

(* The old providers are stopped first.                                        *)
ReloadMutant ==
  /\ phase = "select" /\ started < MaxStarts /\ load
  /\ started' = started + 1 /\ phase' = "starting"
  /\ target' = [target EXCEPT ![started + 1] = file]
  /\ needs' = [needs EXCEPT ![started + 1] = Needs(file)]
  /\ status' = [status EXCEPT ![started + 1] = "watching", ![current] = "retired"]
  /\ UNCHANGED <<file, config, current, watches, backlog, sending, probes, channel, history>>

(* A reload; a file that does not load is answered with an error.              *)
Reload ==
  /\ phase = "select" /\ started < MaxStarts /\ load
  /\ Begin(started + 1, file)
  /\ UNCHANGED <<file, config, current, watches, backlog, sending, probes, channel, history>>

-------------------------------------------------------------------------------
(* filesystem::spawn and notify                                                *)
Pending == Paths \ DOMAIN watches[started]

(* watch is served by the event loop, between two runs of the callback.        *)
AddWatch(path) ==
  /\ status[started] = "watching" /\ path \in Pending /\ sending[started] = Nil
  /\ watches' = [watches EXCEPT ![started] =
       [p \in DOMAIN @ \cup {path} |->
          IF p = path THEN needs[started].file_watches[path] ELSE @[p]]]
  /\ UNCHANGED <<file, hub, status, backlog, sending, probes, channel, history>>

(* The start fails: its thread ends; at the first start so does the process,   *)
(* at a reload the runtime goes on with what it has.                           *)
Abandoned(s) ==
  /\ phase' = IF config = Nil THEN "exited" ELSE "select"
  /\ UNCHANGED <<config, current, started, target, needs>>

AddWatchFails(path) ==
  /\ status[started] = "watching" /\ path \in Pending /\ sending[started] = Nil
  /\ status' = [status EXCEPT ![started] = "retired"]
  /\ Abandoned(started)
  /\ UNCHANGED <<file, watches, backlog, sending, probes, channel, history>>

(* The thread has returned or the watcher was dropped: the event loop ends     *)
(* after the callback, with what it has not taken.                             *)
StopWatcher(s) ==
  /\ status[s] = "retired" /\ sending[s] = Nil
  /\ status' = [status EXCEPT ![s] = "stopped"]
  /\ backlog' = [backlog EXCEPT ![s] = <<>>]
  /\ UNCHANGED <<file, hub, watches, sending, probes, channel, history>>

TakeEvent(s) ==
  /\ status[s] \in Live /\ sending[s] = Nil /\ backlog[s] # <<>>
  /\ sending' = [sending EXCEPT ![s] = Head(backlog[s])]
  /\ backlog' = [backlog EXCEPT ![s] = Tail(@)]
  /\ UNCHANGED <<file, hub, status, watches, probes, channel, history>>

Room == Len(channel) < EventBuffer

(* try_send: an event that finds the channel full is dropped.                  *)
SendEventMutant(s) ==
  /\ sending[s] # Nil
  /\ channel' = IF Room THEN Append(channel, sending[s]) ELSE channel
  /\ sending' = [sending EXCEPT ![s] = Nil]
  /\ UNCHANGED <<file, hub, status, watches, backlog, probes, history>>

(* blocking_send                                                               *)
SendEvent(s) ==
  /\ sending[s] # Nil /\ Room
  /\ channel' = Append(channel, sending[s])
  /\ sending' = [sending EXCEPT ![s] = Nil]
  /\ UNCHANGED <<file, hub, status, watches, backlog, probes, history>>

-------------------------------------------------------------------------------
(* The start waits until the callback has passed on what was reported.         *)
WatchedMutant ==
  phase = "starting" /\ Pending = {} /\ sending[started] = Nil /\ backlog[started] = <<>>

(* The rest of SensorHub::start, once all watches are added: the hotkeys, of   *)
(* which some may not open, then the polling task, which cannot start without  *)
(* the path of the executable.                                                 *)
Watched == phase = "starting" /\ Pending = {}

(* Each failure to open is offered to the channel and dropped when it is full. *)
HotkeysOpened ==
  \E failures \in 0..needs[started].hotkeys :
    channel' = SubSeq(channel \o [i \in 1..failures |-> 0], 1,
                      IF Len(channel) + failures < EventBuffer
                      THEN Len(channel) + failures ELSE EventBuffer)

Retire(s) == IF current # Nil /\ s = current THEN "retired" ELSE status[s]

(* The old handles are aborted, then everything is replaced.                   *)
StartSucceeds ==
  /\ Watched /\ HotkeysOpened
  /\ status' = [s \in Start |-> IF s = started THEN "ready" ELSE Retire(s)]
  /\ probes' = [s \in Start |-> IF s = started THEN needs[s].probes ELSE {}]
  /\ config' = target[started] /\ current' = started /\ phase' = "select"
  /\ UNCHANGED <<file, started, target, needs, watches, backlog, sending, history>>

(* The handles of this start are dropped, which does not end their tasks.      *)
StartFails ==
  /\ Watched /\ HotkeysOpened
  /\ status' = [status EXCEPT ![started] = "leaked"]
  /\ Abandoned(started)
  /\ UNCHANGED <<file, watches, backlog, sending, probes, history>>

-------------------------------------------------------------------------------
(* The host: a file event reaches every watcher that reports it.               *)
HostTouches(k) ==
  /\ Len(touched) < MaxTouches /\ k[2].type = "file"
  /\ touched' = Append(touched, k) /\ seenBy' = Append(seenBy, current)
  /\ backlog' = [s \in Start |->
       IF status[s] \in Live /\ Covers(watches[s], {}, k)
       THEN Append(backlog[s], Len(touched')) ELSE backlog[s]]
  /\ UNCHANGED <<file, hub, status, watches, sending, probes, channel, received>>

(* The library reports an error through the callback, which sends a failure of *)
(* the sensor.                                                                 *)
WatcherError(s) ==
  /\ status[s] \in Live /\ watches[s] # NoWatches
  /\ sending[s] = Nil /\ Len(touched) < MaxTouches
  /\ sending' = [sending EXCEPT ![s] = 0]
  /\ touched' = Append(touched, Nil) /\ seenBy' = Append(seenBy, Nil)
  /\ UNCHANGED <<file, hub, status, watches, backlog, probes, channel, received>>

(* Any other provider sends something.                                         *)
OtherEvent ==
  /\ current # Nil /\ Room
  /\ channel' = Append(channel, 0)
  /\ UNCHANGED <<file, hub, provider, history>>

ReceiveEvent ==
  /\ phase = "select" /\ channel # <<>>
  /\ channel' = Tail(channel)
  /\ received' = received \cup {Head(channel)}
  /\ UNCHANGED <<file, hub, provider, touched, seenBy>>

-------------------------------------------------------------------------------
StartStep ==
  \/ \E path \in Paths : AddWatch(path) \/ AddWatchFails(path)
  \/ StartSucceeds \/ StartFails

Process ==
  \/ Reload \/ StartStep \/ ReceiveEvent \/ OtherEvent
  \/ \E k \in HostEvent : HostTouches(k)
  \/ \E s \in Start : TakeEvent(s) \/ SendEvent(s) \/ StopWatcher(s) \/ WatcherError(s)

Next == EditFile \/ (phase # "exited" /\ Process)

(* Threads that can go on do; the channel serves waiting senders in turn, so a *)
(* sender that finds room again and again is not passed over for ever.  Nothing *)
(* is assumed of the host, the file, the other providers or reload requests.   *)
Spec ==
  /\ Init /\ [][Next]_vars
  /\ WF_vars(StartStep) /\ WF_vars(ReceiveEvent)
  /\ \A s \in Start : WF_vars(TakeEvent(s)) /\ SF_vars(SendEvent(s)) /\ WF_vars(StopWatcher(s))
-------------------------------------------------------------------------------
(* The providers the runtime holds are ready and were started for the          *)
(* configuration it runs, a start under way has only watches it was asked for, *)
(* and the channel keeps to its capacity.                                      *)
TypeOK ==
  /\ file \in Configuration /\ config \in Configuration \cup {Nil}
  /\ phase \in {"select", "starting", "exited"} /\ started \in Start
  /\ current \in Start \cup {Nil} /\ (current = Nil <=> config = Nil)
  /\ current # Nil => target[current] = config /\ status[current] = "ready"
  /\ phase = "starting" => /\ status[started] = "watching" /\ target[started] \in Accepted
                           /\ DOMAIN watches[started] \subseteq Paths
  /\ \A s \in Start : status[s] = "ready" => s = current
  /\ Len(channel) <= EventBuffer

(* SensorHub::start, from_config, validate_config and reload: what the rules   *)
(* of the running configuration could react to is reported by a provider that  *)
(* was not told to end, also while a reload is under way and after one has     *)
(* failed.  Two things that validate_config accepts are known to be missed and *)
(* excepted: the health of a sensor no rule tells what to look at, and files   *)
(* deep below a path that a later rule watches without its subdirectories.     *)
NeverBlind ==
  config # Nil =>
    \A k \in Wanted[config] \ Missed[config] :
      \E s \in Start : status[s] = "ready" /\ Covers(watches[s], probes[s], k)

(* filesystem::spawn: as long as the runtime comes back to its loop, it        *)
(* receives every event on a watched file, unless the providers that saw it    *)
(* are replaced first; a full channel delays events and loses none.            *)
Delivered ==
  []<>(phase = "select") =>
    \A n \in 1..MaxTouches :
      (n \in DOMAIN touched /\ seenBy[n] # Nil /\ Covers(watches[seenBy[n]], {}, touched[n]))
        ~> (n \in received \/ (n \in DOMAIN touched /\ current # seenBy[n]))

(* filesystem::spawn: a start with at most one watched path comes to an end,   *)
(* with success or an error, however busy files and channel are.               *)
OnePathStarts ==
  (phase = "starting" /\ Cardinality(Paths) <= 1) ~> (phase # "starting")

(* reload: the new providers are started, or the start fails, and the runtime  *)
(* goes on.                                                                    *)
ReloadReturns == (phase = "starting") ~> (phase # "starting")
===============================================================================
