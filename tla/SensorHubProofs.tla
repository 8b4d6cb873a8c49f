--------------------------- MODULE SensorHubProofs ----------------------------
(* Proofs about SensorHub, for every set of configurations and watches, any    *)
(* capacity of the channel, and any number of starts and file events.          *)
EXTENDS SensorHub, TLAPS

Status == {"none", "watching", "ready", "retired", "leaked", "stopped"}

Shape ==
  /\ file \in Configuration /\ config \in Configuration \cup {Nil}
  /\ phase \in {"select", "starting", "exited"}
  /\ started \in Start /\ current \in Start \cup {Nil}
  /\ DOMAIN target = Start /\ DOMAIN needs = Start
  /\ DOMAIN watches = Start /\ DOMAIN probes = Start
  /\ status \in [Start -> Status]

(* One start is under way at a time and one is held; starts to come are        *)
(* untouched, and every other was made for an accepted configuration.          *)
Starts ==
  /\ \A s \in Start : s > started => status[s] = "none" /\ watches[s] = NoWatches
  /\ \A s \in Start : s <= started => target[s] \in Accepted /\ needs[s] = Needs(target[s])
  /\ \A s \in Start : status[s] = "watching" => s = started /\ phase = "starting"
  /\ phase = "starting" => status[started] = "watching"
  /\ \A s \in Start : status[s] = "ready" => s = current

PartOf(f, g) ==
  /\ f = [p \in DOMAIN f |-> f[p]]
  /\ DOMAIN f \subseteq DOMAIN g /\ \A p \in DOMAIN f : f[p] = g[p]

(* The watches of the start under way are ones it was asked for.               *)
Asked == phase = "starting" => PartOf(watches[started], needs[started].file_watches)

(* The start that is held has all watches and probes its configuration needs.  *)
Held ==
  /\ current = Nil <=> config = Nil
  /\ current # Nil =>
       /\ current <= started /\ status[current] = "ready" /\ target[current] = config
       /\ watches[current] = needs[current].file_watches
       /\ probes[current] = needs[current].probes

(* File events on their way                                                    *)
Flow ==
  /\ backlog \in [Start -> Seq(Nat)] /\ sending \in [Start -> Nat \cup {Nil}]
  /\ channel \in Seq(Nat) /\ Len(channel) <= EventBuffer
  /\ touched \in Seq(HostEvent \cup {Nil})

HubInv == Shape /\ Starts /\ Asked /\ Held
-------------------------------------------------------------------------------
LEMMA ConstantFacts ==
  /\ EventBuffer \in Nat /\ EventBuffer > 0 /\ MaxStarts \in Nat /\ MaxStarts > 0
  /\ Start \subseteq Nat /\ Nil \notin Start /\ Nil \notin Configuration /\ Nil \notin Nat
  /\ Accepted \subseteq Configuration /\ 1 \in Start
BY HubAssumption DEF Start

LEMMA HubStarts == Init => HubInv
<1> SUFFICES ASSUME Init PROVE HubInv
  OBVIOUS
<1>1. Shape
  BY ConstantFacts DEF Init, load, Shape, Status
<1>2. Starts
  <2>1. ASSUME NEW s \in Start PROVE s <= 1 <=> s = 1
    BY DEF Start
  <2>2. QED
    BY <2>1, ConstantFacts DEF Init, load, Starts
<1>3. Asked
  BY ConstantFacts DEF Init, load, Asked, PartOf, NoWatches
<1>4. Held
  BY DEF Init, load, Held
<1>5. QED
  BY <1>1, <1>2, <1>3, <1>4 DEF HubInv

(* Steps of the event loops, the channel and the host leave the hub alone.     *)
LEMMA HubUntouched ==
  ASSUME HubInv, UNCHANGED <<hub, watches, probes, status>>, file' \in Configuration
  PROVE  HubInv'
<1>1. Shape'
  BY DEF HubInv, Shape, hub
<1>2. Starts'
  BY DEF HubInv, Starts, hub
<1>3. Asked'
  BY DEF HubInv, Asked, hub
<1>4. Held'
  BY DEF HubInv, Held, hub
<1>5. QED
  BY <1>1, <1>2, <1>3, <1>4 DEF HubInv

LEMMA ReloadHub == ASSUME HubInv, Reload PROVE HubInv'
<1> PICK n : n = started + 1
  OBVIOUS
<1>1. n \in Start /\ started \in Nat /\ n > started
  BY HubAssumption DEF HubInv, Shape, Reload, load, Start
<1>2. /\ file \in Accepted /\ started' = n /\ phase' = "starting" /\ phase = "select"
      /\ target' = [target EXCEPT ![n] = file] /\ needs' = [needs EXCEPT ![n] = Needs(file)]
      /\ status' = [status EXCEPT ![n] = "watching"]
      /\ UNCHANGED <<file, config, current, watches, probes>>
  BY DEF Reload, load, Begin
<1>3. /\ target'[n] = file /\ needs'[n] = Needs(file) /\ status'[n] = "watching"
      /\ \A s \in Start \ {n} : target'[s] = target[s] /\ needs'[s] = needs[s] /\ status'[s] = status[s]
  BY <1>1, <1>2 DEF HubInv, Shape
<1>4. status[n] = "none" /\ watches[n] = NoWatches
  BY <1>1 DEF HubInv, Starts
<1>5. Shape'
  BY <1>1, <1>2 DEF HubInv, Shape, Status
<1>6. Starts'
  <2>1. \A s \in Start : (s > n => s > started) /\ (s <= n => s <= started \/ s = n) /\ (s > n => s # n)
    BY <1>1, ConstantFacts
  <2>2. QED
    BY <1>1, <1>2, <1>3, <1>4, <2>1 DEF HubInv, Starts
<1>7. Asked'
  BY <1>1, <1>2, <1>3, <1>4 DEF Asked, PartOf, NoWatches
<1>8. Held'
  <2>1. current # Nil => current # n /\ current \in Start /\ current <= n
    <3>1. current # Nil => current \in Start /\ current <= started
      BY DEF HubInv, Held, Shape
    <3>2. current # Nil => current \in Nat
      BY <3>1, ConstantFacts
    <3>3. n \in Nat
      BY <1>1, ConstantFacts
    <3>4. QED
      BY <1>1, <3>1, <3>2, <3>3
  <2>2. QED
    BY <1>2, <1>3, <2>1 DEF HubInv, Held
<1>9. QED
  BY <1>5, <1>6, <1>7, <1>8 DEF HubInv

LEMMA AddWatchHub == ASSUME HubInv, NEW path, AddWatch(path) PROVE HubInv'
<1> PICK w, g : w = watches[started] /\ g = needs[started].file_watches
  OBVIOUS
<1> PICK v : v = [p \in DOMAIN w \cup {path} |-> IF p = path THEN g[path] ELSE w[p]]
  OBVIOUS
<1>1. /\ status[started] = "watching" /\ path \in DOMAIN g
      /\ watches' = [watches EXCEPT ![started] = v]
      /\ UNCHANGED <<file, hub, status, probes>>
  BY DEF AddWatch, Pending, Paths
<1>2. phase = "starting" /\ started \in Start /\ PartOf(w, g)
  BY <1>1 DEF HubInv, Starts, Shape, Asked
<1>3. watches'[started] = v /\ \A s \in Start \ {started} : watches'[s] = watches[s]
  BY <1>1, <1>2 DEF HubInv, Shape
<1>4. Shape'
  BY <1>1 DEF HubInv, Shape, hub
<1>5. Starts'
  <2>1. \A s \in Start : s > started => s # started
    BY ConstantFacts
  <2>2. QED
    BY <1>1, <1>2, <1>3, <2>1 DEF HubInv, Starts, hub
<1>6. Asked'
  <2>1. PartOf(v, g)
    BY <1>1, <1>2 DEF PartOf
  <2>2. QED
    BY <1>1, <1>3, <2>1 DEF Asked, hub
<1>7. Held'
  <2>1. current # Nil => current # started /\ current \in Start
    BY <1>1 DEF HubInv, Held, Shape
  <2>2. QED
    BY <1>1, <1>3, <2>1 DEF HubInv, Held, hub
<1>8. QED
  BY <1>4, <1>5, <1>6, <1>7 DEF HubInv

(* A start that fails, or a watcher that stops, was not the one held.          *)
LEMMA EndsHub ==
  ASSUME HubInv, NEW s \in Start, NEW to \in {"retired", "leaked", "stopped"},
         status[s] # "ready", status[s] # "none", status' = [status EXCEPT ![s] = to],
         UNCHANGED <<file, watches, probes, config, current, started, target, needs>>,
         phase' \in {"select", "starting", "exited"},
         \/ phase' = phase /\ status[s] # "watching"
         \/ phase' # "starting" /\ s = started
  PROVE  HubInv'
<1>1. status'[s] = to /\ \A t \in Start \ {s} : status'[t] = status[t]
  BY DEF HubInv, Shape
<1>2. Shape'
  BY DEF HubInv, Shape, Status
<1>3. Starts'
  <2>1. \A t \in Start : t > started => t # s
    BY DEF HubInv, Starts
  <2>2. \A t \in Start : status'[t] = "watching" => t # s /\ t = started /\ phase' = "starting"
    BY <1>1 DEF HubInv, Starts
  <2>3. phase' = "starting" => phase = "starting" /\ started # s
    BY DEF HubInv, Starts
  <2>4. started \in Start
    BY DEF HubInv, Shape
  <2>5. QED
    BY <1>1, <2>1, <2>2, <2>3, <2>4 DEF HubInv, Starts
<1>4. Asked'
  BY DEF HubInv, Asked, Starts
<1>5. Held'
  BY <1>1 DEF HubInv, Held, Shape
<1>6. QED
  BY <1>2, <1>3, <1>4, <1>5 DEF HubInv

LEMMA SucceedsHub == ASSUME HubInv, StartSucceeds PROVE HubInv'
<1> PICK n : n = started
  OBVIOUS
<1>1. /\ phase = "starting" /\ Pending = {}
      /\ status' = [s \in Start |-> IF s = started THEN "ready" ELSE Retire(s)]
      /\ probes' = [s \in Start |-> IF s = started THEN needs[s].probes ELSE {}]
      /\ config' = target[started] /\ current' = started /\ phase' = "select"
      /\ UNCHANGED <<file, started, target, needs, watches>>
  BY DEF StartSucceeds, Watched
<1>2. /\ n \in Start /\ status[n] = "watching" /\ target[n] \in Accepted
      /\ needs[n] = Needs(target[n]) /\ target[n] # Nil /\ n # Nil
  BY <1>1, ConstantFacts DEF HubInv, Shape, Starts
<1>3. /\ status'[n] = "ready" /\ probes'[n] = needs[n].probes
      /\ \A s \in Start \ {n} : status'[s] = IF s = current THEN "retired" ELSE status[s]
  BY <1>1, <1>2, ConstantFacts DEF Retire
<1>4. \A s \in Start \ {n} : status'[s] \in Status /\ status'[s] # "ready" /\ status'[s] # "watching"
  BY <1>1, <1>3 DEF HubInv, Starts, Shape, Status
<1>5. watches[n] = needs[n].file_watches
  <2>1. PartOf(watches[n], needs[n].file_watches)
    BY <1>1 DEF HubInv, Asked
  <2>2. DOMAIN needs[n].file_watches = DOMAIN watches[n]
    BY <1>1, <2>1 DEF Pending, Paths, PartOf
  <2>3. PICK g : g = needs[n].file_watches
    OBVIOUS
  <2>4. g = [p \in DOMAIN g |-> g[p]]
    <3>1. g = Requires[target[n]].file_watches
      BY <1>2, <2>3 DEF Needs
    <3>2. QED
      BY <1>2, <3>1, HubAssumption
  <2>5. QED
    BY <2>1, <2>2, <2>3, <2>4 DEF PartOf
<1>6. Shape'
  BY <1>1, <1>2, <1>3, <1>4, ConstantFacts DEF HubInv, Shape, Status
<1>7. Starts'
  <2>1. \A s \in Start : s > n => s # n /\ s # current
    BY <1>2, ConstantFacts DEF HubInv, Held, Starts, Shape
  <2>2. QED
    BY <1>1, <1>2, <1>3, <1>4, <2>1 DEF HubInv, Starts
<1>8. Asked'
  BY <1>1 DEF Asked
<1>9. Held'
  <2>1. n <= n
    BY <1>2, ConstantFacts
  <2>2. QED
    BY <1>1, <1>2, <1>3, <1>5, <2>1 DEF Held
<1>10. QED
  BY <1>6, <1>7, <1>8, <1>9 DEF HubInv

LEMMA FailsHub ==
  ASSUME HubInv, NEW path, AddWatchFails(path) \/ StartFails
  PROVE  HubInv'
<1>1. PICK to \in {"retired", "leaked"} : status' = [status EXCEPT ![started] = to]
  BY DEF AddWatchFails, StartFails
<1>2. started \in Start /\ status[started] = "watching"
  BY DEF AddWatchFails, StartFails, Watched, HubInv, Shape, Starts
<1>3. /\ UNCHANGED <<file, watches, probes, config, current, started, target, needs>>
      /\ phase' \in {"exited", "select"}
  BY DEF AddWatchFails, StartFails, Abandoned
<1>4. QED
  BY <1>1, <1>2, <1>3, EndsHub

LEMMA StopHub == ASSUME HubInv, NEW s \in Start, StopWatcher(s) PROVE HubInv'
<1>1. /\ status[s] = "retired" /\ status' = [status EXCEPT ![s] = "stopped"]
      /\ UNCHANGED <<file, hub, watches, probes>>
  BY DEF StopWatcher
<1>2. UNCHANGED <<config, current, phase, started, target, needs>> /\ phase \in {"select", "starting", "exited"}
  BY <1>1 DEF hub, HubInv, Shape
<1>3. QED
  BY <1>1, <1>2, EndsHub

LEMMA StepHub == HubInv /\ [Next]_vars => HubInv'
<1> SUFFICES ASSUME HubInv, [Next]_vars PROVE HubInv'
  OBVIOUS
<1>1. file \in Configuration
  BY DEF HubInv, Shape
<1>2. CASE UNCHANGED vars \/ EditFile
  BY <1>1, <1>2, HubUntouched DEF vars, EditFile, provider
<1>3. CASE Reload
  BY <1>3, ReloadHub
<1>4. CASE StartStep
  BY <1>4, AddWatchHub, FailsHub, SucceedsHub DEF StartStep
<1>5. CASE ReceiveEvent \/ OtherEvent \/ \E k \in HostEvent : HostTouches(k)
  BY <1>1, <1>5, HubUntouched DEF ReceiveEvent, OtherEvent, HostTouches, provider
<1>6. ASSUME NEW s \in Start, TakeEvent(s) \/ SendEvent(s) \/ StopWatcher(s) \/ WatcherError(s)
      PROVE  HubInv'
  BY <1>1, <1>6, HubUntouched, StopHub DEF TakeEvent, SendEvent, WatcherError
<1>7. QED
  BY <1>2, <1>3, <1>4, <1>5, <1>6 DEF Next, Process

(* SensorHub::start and Runtime::reload: starts follow one another, a start    *)
(* has the watches and probes it was asked for as far as it has come, and the  *)
(* one the runtime holds is complete and is that of the configuration in force.*)
THEOREM HubInvariant == Spec => []HubInv
BY HubStarts, StepHub, PTL DEF Spec
-------------------------------------------------------------------------------
(* The running configuration has providers that were not told to end, and they *)
(* have all the watches and probes that from_config derives from its rules.    *)
Served ==
  config # Nil =>
    \E s \in Start : /\ status[s] = "ready"
                     /\ watches[s] = Requires[config].file_watches
                     /\ probes[s] = Requires[config].probes

(* SensorHub::start and Runtime::reload: the runtime is never without a single *)
(* watch or probe that from_config asks for on behalf of the configuration in  *)
(* force: not during a start, not after a failed reload, not after any number  *)
(* of them.  What from_config asks for is another matter (NeverBlind).         *)
THEOREM RuntimeIsServed == Spec => []Served
<1>1. HubInv => Served
  <2> SUFFICES ASSUME HubInv, config # Nil
               PROVE  \E s \in Start : /\ status[s] = "ready"
                                       /\ watches[s] = Requires[config].file_watches
                                       /\ probes[s] = Requires[config].probes
    BY DEF Served
  <2>1. /\ current \in Start /\ current <= started /\ status[current] = "ready"
        /\ target[current] = config /\ watches[current] = needs[current].file_watches
        /\ probes[current] = needs[current].probes
    BY DEF HubInv, Shape, Held
  <2>2. needs[current] = Needs(config)
    BY <2>1 DEF HubInv, Starts
  <2>3. QED
    BY <2>1, <2>2 DEF Needs
<1>2. QED
  BY <1>1, HubInvariant, PTL
-------------------------------------------------------------------------------
(* Sequences of event numbers                                                  *)
In(n, q) == \E i \in 1..Len(q) : q[i] = n

LEMMA AppendedIn ==
  ASSUME NEW q \in Seq(Nat), NEW x \in Nat
  PROVE  /\ Append(q, x) \in Seq(Nat) /\ Len(Append(q, x)) = Len(q) + 1
         /\ In(x, Append(q, x)) /\ \A n : In(n, q) => In(n, Append(q, x))
<1>1. PICK r : r = Append(q, x)
  OBVIOUS
<1>2. /\ r \in Seq(Nat) /\ Len(q) \in Nat /\ Len(r) = Len(q) + 1 /\ r[Len(q) + 1] = x
      /\ \A i \in 1..Len(q) : r[i] = q[i]
  BY <1>1
<1>3. Len(r) \in 1..Len(r) /\ r[Len(r)] = x
  BY <1>2
<1>4. \A i \in 1..Len(q) : i \in 1..Len(r) /\ r[i] = q[i]
  BY <1>2
<1>5. QED
  BY <1>1, <1>2, <1>3, <1>4 DEF In

LEMMA HeadIn ==
  ASSUME NEW q \in Seq(Nat), q # <<>>
  PROVE  /\ Head(q) \in Nat /\ Tail(q) \in Seq(Nat) /\ Len(Tail(q)) <= Len(q)
         /\ \A n : In(n, q) => n = Head(q) \/ In(n, Tail(q))
<1>1. Head(q) \in Nat /\ Tail(q) \in Seq(Nat) /\ Len(Tail(q)) = Len(q) - 1 /\ Len(q) \in Nat \ {0}
  OBVIOUS
<1>2. ASSUME NEW n, NEW i \in 1..Len(q), q[i] = n PROVE n = Head(q) \/ In(n, Tail(q))
  <2>1. CASE i = 1
    BY <1>2, <2>1
  <2>2. CASE i # 1
    <3>1. i - 1 \in 1..Len(Tail(q)) /\ Tail(q)[i - 1] = q[i]
      BY <1>1, <2>2
    <3>2. QED
      BY <1>2, <3>1 DEF In
  <2>3. QED
    BY <2>1, <2>2
<1>3. QED
  BY <1>1, <1>2 DEF In

(* The failures of hotkeys go behind what the channel holds.                   *)
LEMMA HotkeysKeep ==
  ASSUME HubInv, Flow, HotkeysOpened
  PROVE  /\ channel' \in Seq(Nat) /\ Len(channel') <= EventBuffer
         /\ \A n : In(n, channel) => In(n, channel')
<1>1. needs[started] = Needs(target[started]) /\ target[started] \in Configuration
  BY ConstantFacts DEF HubInv, Shape, Starts
<1>2. needs[started].hotkeys \in Nat
  BY <1>1, HubAssumption DEF Needs
<1>3. PICK f \in 0..needs[started].hotkeys :
        channel' = SubSeq(channel \o [i \in 1..f |-> 0], 1,
                          IF Len(channel) + f < EventBuffer THEN Len(channel) + f ELSE EventBuffer)
  BY DEF HotkeysOpened
<1>4. PICK z : z = channel \o [i \in 1..f |-> 0]
  OBVIOUS
<1>5. PICK m : m = IF Len(channel) + f < EventBuffer THEN Len(channel) + f ELSE EventBuffer
  OBVIOUS
<1>6. /\ channel \in Seq(Nat) /\ Len(channel) \in Nat /\ Len(channel) <= EventBuffer
      /\ EventBuffer \in Nat /\ f \in Nat
  BY <1>2, ConstantFacts DEF Flow
<1>7. [i \in 1..f |-> 0] \in Seq(Nat) /\ Len([i \in 1..f |-> 0]) = f
  BY <1>6
<1>8. z \in Seq(Nat) /\ Len(z) = Len(channel) + f /\ \A i \in 1..Len(channel) : z[i] = channel[i]
  BY <1>4, <1>6, <1>7
<1>9. m \in Nat /\ m <= EventBuffer /\ m <= Len(z) /\ Len(channel) <= m
  BY <1>5, <1>6, <1>8
<1>10. channel' = SubSeq(z, 1, m)
  BY <1>3, <1>4, <1>5
<1>11. channel' \in Seq(Nat) /\ Len(channel') = m /\ \A i \in 1..m : channel'[i] = z[i]
  BY <1>8, <1>9, <1>10
<1>12. \A i \in 1..Len(channel) : i \in 1..Len(channel') /\ channel'[i] = channel[i]
  BY <1>6, <1>8, <1>9, <1>11
<1>13. QED
  BY <1>9, <1>11, <1>12 DEF In
-------------------------------------------------------------------------------
(* Every file event was seen with the providers held at the time, if any.      *)
Seen ==
  /\ seenBy \in Seq(Start \cup {Nil}) /\ Len(seenBy) = Len(touched)
  /\ \A n \in 1..Len(touched) :
       seenBy[n] # Nil => status[seenBy[n]] \notin {"none", "watching"}

OnWay(n) ==
  n \in received \/ In(n, channel) \/ sending[current] = n \/ In(n, backlog[current])

(* filesystem::spawn: a file event that the providers the runtime holds are    *)
(* watching for is in the backlog of the event loop, in the callback, in the   *)
(* channel or received; a full channel loses none.                             *)
EventsKept ==
  \A n \in 1..Len(touched) :
    (seenBy[n] # Nil /\ current = seenBy[n] /\ Covers(watches[current], {}, touched[n])) => OnWay(n)

FlowInv == Flow /\ Seen /\ EventsKept

LEMMA FlowStarts == Init => FlowInv
<1> SUFFICES ASSUME Init PROVE FlowInv
  OBVIOUS
<1>1. Flow
  BY ConstantFacts DEF Init, load, Flow
<1>2. Seen /\ EventsKept
  BY DEF Init, load, Seen, EventsKept
<1>3. QED
  BY <1>1, <1>2 DEF FlowInv

(* No event enters or leaves, the providers that are held stay, and no start   *)
(* that was seen turns into a new one.                                         *)
LEMMA FlowUntouched ==
  ASSUME HubInv, FlowInv, UNCHANGED <<current, channel, sending, backlog, history>>,
         current # Nil => watches'[current] = watches[current],
         \A s \in Start : status[s] \notin {"none", "watching"} => status'[s] \notin {"none", "watching"}
  PROVE  FlowInv'
<1>1. Flow'
  BY DEF FlowInv, Flow, history
<1>2. Seen'
  BY DEF FlowInv, Seen, history
<1>3. EventsKept'
  BY DEF FlowInv, EventsKept, OnWay, history
<1>4. QED
  BY <1>1, <1>2, <1>3 DEF FlowInv

(* Events move on, and none of the held providers falls off.                   *)
LEMMA FlowMoves ==
  ASSUME HubInv, FlowInv, Flow', UNCHANGED <<current, touched, seenBy>>,
         current # Nil => watches'[current] = watches[current],
         \A s \in Start : status[s] \notin {"none", "watching"} => status'[s] \notin {"none", "watching"},
         current # Nil => \A n \in 1..Len(touched) : OnWay(n) => OnWay(n)'
  PROVE  FlowInv'
<1>1. Seen'
  BY DEF FlowInv, Seen
<1>2. EventsKept'
  BY DEF FlowInv, EventsKept
<1>3. QED
  BY <1>1, <1>2 DEF FlowInv

LEMMA TakeFlow == ASSUME HubInv, FlowInv, NEW s \in Start, TakeEvent(s) PROVE FlowInv'
<1> PICK q : q = backlog[s]
  OBVIOUS
<1>1. /\ sending[s] = Nil /\ q # <<>> /\ sending' = [sending EXCEPT ![s] = Head(q)]
      /\ backlog' = [backlog EXCEPT ![s] = Tail(q)] /\ q \in Seq(Nat)
      /\ UNCHANGED <<hub, status, watches, channel, history>>
  BY DEF TakeEvent, FlowInv, Flow
<1>2. Head(q) \in Nat /\ Tail(q) \in Seq(Nat) /\ \A n : In(n, q) => n = Head(q) \/ In(n, Tail(q))
  BY <1>1, HeadIn
<1>3. Flow'
  BY <1>1, <1>2 DEF FlowInv, Flow, history
<1>4. /\ sending'[s] = Head(q) /\ backlog'[s] = Tail(q)
      /\ \A t \in Start \ {s} : sending'[t] = sending[t] /\ backlog'[t] = backlog[t]
  BY <1>1 DEF FlowInv, Flow
<1>5. UNCHANGED <<current, touched, seenBy, received, channel>>
  BY <1>1 DEF hub, history
<1>6. ASSUME current # Nil, NEW n \in 1..Len(touched), OnWay(n) PROVE OnWay(n)'
  <2>1. n # Nil
    BY ConstantFacts
  <2>2. current \in Start
    BY <1>6 DEF HubInv, Shape
  <2>3. CASE current = s
    BY <1>1, <1>2, <1>4, <1>5, <1>6, <2>1, <2>3 DEF OnWay
  <2>4. CASE current # s
    BY <1>4, <1>5, <1>6, <2>2, <2>4 DEF OnWay
  <2>5. QED
    BY <2>3, <2>4
<1>7. QED
  BY <1>1, <1>3, <1>5, <1>6, FlowMoves

LEMMA SendFlow == ASSUME HubInv, FlowInv, NEW s \in Start, SendEvent(s) PROVE FlowInv'
<1> PICK x : x = sending[s]
  OBVIOUS
<1>1. /\ x # Nil /\ Room /\ channel' = Append(channel, x) /\ sending' = [sending EXCEPT ![s] = Nil]
      /\ UNCHANGED <<hub, status, watches, backlog, history>>
  BY DEF SendEvent
<1>2. x \in Nat /\ channel \in Seq(Nat)
  BY <1>1 DEF FlowInv, Flow
<1>3. /\ channel' \in Seq(Nat) /\ Len(channel') = Len(channel) + 1
      /\ In(x, channel') /\ \A n : In(n, channel) => In(n, channel')
  BY <1>1, <1>2, AppendedIn
<1>4. Len(channel') <= EventBuffer
  BY <1>1, <1>2, <1>3, ConstantFacts DEF Room
<1>5. Flow'
  BY <1>1, <1>3, <1>4 DEF FlowInv, Flow, history
<1>6. sending'[s] = Nil /\ \A t \in Start \ {s} : sending'[t] = sending[t]
  BY <1>1 DEF FlowInv, Flow
<1>7. UNCHANGED <<current, touched, seenBy, received, backlog>>
  BY <1>1 DEF hub, history
<1>8. ASSUME current # Nil, NEW n \in 1..Len(touched), OnWay(n) PROVE OnWay(n)'
  <2>1. current \in Start
    BY <1>8 DEF HubInv, Shape
  <2>2. CASE current = s
    BY <1>3, <1>7, <1>8, <2>2 DEF OnWay
  <2>3. CASE current # s
    BY <1>3, <1>6, <1>7, <1>8, <2>1, <2>3 DEF OnWay
  <2>4. QED
    BY <2>2, <2>3
<1>9. QED
  BY <1>1, <1>5, <1>7, <1>8, FlowMoves

LEMMA StopFlow == ASSUME HubInv, FlowInv, NEW s \in Start, StopWatcher(s) PROVE FlowInv'
<1>1. /\ status[s] = "retired" /\ status' = [status EXCEPT ![s] = "stopped"]
      /\ backlog' = [backlog EXCEPT ![s] = <<>>] /\ UNCHANGED <<hub, watches, sending, channel, history>>
  BY DEF StopWatcher
<1>2. UNCHANGED <<current, touched, seenBy, received>>
  BY <1>1 DEF hub, history
<1>3. Flow'
  BY <1>1 DEF FlowInv, Flow, history
<1>4. \A t \in Start \ {s} : backlog'[t] = backlog[t]
  BY <1>1 DEF FlowInv, Flow
<1>5. \A t \in Start : status[t] \notin {"none", "watching"} => status'[t] \notin {"none", "watching"}
  BY <1>1 DEF HubInv, Shape
<1>6. current # Nil => current \in Start \ {s}
  BY <1>1 DEF HubInv, Shape, Held
<1>7. current # Nil => \A n \in 1..Len(touched) : OnWay(n) => OnWay(n)'
  BY <1>1, <1>2, <1>4, <1>6 DEF OnWay
<1>8. QED
  BY <1>1, <1>2, <1>3, <1>5, <1>7, FlowMoves

(* The channel takes more in at its end.                                       *)
LEMMA ChannelGrows ==
  ASSUME HubInv, FlowInv, UNCHANGED <<current, sending, backlog, history>>,
         current # Nil => watches'[current] = watches[current],
         \A s \in Start : status[s] \notin {"none", "watching"} => status'[s] \notin {"none", "watching"},
         channel' \in Seq(Nat), Len(channel') <= EventBuffer,
         \A n : In(n, channel) => In(n, channel')
  PROVE  FlowInv'
<1>1. UNCHANGED <<touched, seenBy, received>>
  BY DEF history
<1>2. Flow'
  BY <1>1 DEF FlowInv, Flow
<1>3. \A n \in 1..Len(touched) : OnWay(n) => OnWay(n)'
  BY <1>1 DEF OnWay
<1>4. QED
  BY <1>1, <1>2, <1>3, FlowMoves

LEMMA OtherFlow == ASSUME HubInv, FlowInv, OtherEvent PROVE FlowInv'
<1>1. Room /\ channel' = Append(channel, 0) /\ UNCHANGED <<hub, provider, history>>
  BY DEF OtherEvent
<1>2. channel \in Seq(Nat)
  BY DEF FlowInv, Flow
<1>3. /\ channel' \in Seq(Nat) /\ Len(channel') = Len(channel) + 1
      /\ \A n : In(n, channel) => In(n, channel')
  BY <1>1, <1>2, AppendedIn
<1>4. Len(channel') <= EventBuffer
  BY <1>1, <1>2, <1>3, ConstantFacts DEF Room
<1>5. UNCHANGED <<current, sending, backlog, watches, status>>
  BY <1>1 DEF hub, provider
<1>6. QED
  BY <1>1, <1>3, <1>4, <1>5, ChannelGrows

LEMMA ReceiveFlow == ASSUME HubInv, FlowInv, ReceiveEvent PROVE FlowInv'
<1>1. /\ channel # <<>> /\ channel' = Tail(channel) /\ received' = received \cup {Head(channel)}
      /\ UNCHANGED <<hub, provider, touched, seenBy>>
  BY DEF ReceiveEvent
<1>2. UNCHANGED <<current, sending, backlog, watches, status>>
  BY <1>1 DEF hub, provider
<1>3. channel \in Seq(Nat) /\ Len(channel) <= EventBuffer
  BY DEF FlowInv, Flow
<1>4. /\ channel' \in Seq(Nat) /\ Len(channel') <= Len(channel)
      /\ \A n : In(n, channel) => n = Head(channel) \/ In(n, channel')
  BY <1>1, <1>3, HeadIn
<1>5. Len(channel') <= EventBuffer
  BY <1>3, <1>4, ConstantFacts
<1>6. Flow'
  BY <1>1, <1>2, <1>4, <1>5 DEF FlowInv, Flow
<1>7. \A n \in 1..Len(touched) : OnWay(n) => OnWay(n)'
  BY <1>1, <1>2, <1>4 DEF OnWay
<1>8. QED
  BY <1>1, <1>2, <1>6, <1>7, FlowMoves

LEMMA StartFlow ==
  ASSUME HubInv, FlowInv, NEW path, AddWatch(path) \/ AddWatchFails(path) \/ StartFails
  PROVE  FlowInv'
<1>1. started \in Start /\ status[started] = "watching"
  BY DEF AddWatch, AddWatchFails, StartFails, Watched, HubInv, Shape, Starts
<1>2. current # Nil => current \in Start /\ current # started
  BY <1>1 DEF HubInv, Shape, Held
<1>3. UNCHANGED <<current, sending, backlog, history>>
  BY DEF AddWatch, AddWatchFails, StartFails, Abandoned, hub
<1>4. current # Nil => watches'[current] = watches[current]
  BY <1>2 DEF AddWatch, AddWatchFails, StartFails, HubInv, Shape
<1>5. \A s \in Start : status[s] \notin {"none", "watching"} => status'[s] \notin {"none", "watching"}
  BY <1>1 DEF AddWatch, AddWatchFails, StartFails, HubInv, Shape
<1>6. CASE UNCHANGED channel
  BY <1>3, <1>4, <1>5, <1>6, FlowUntouched
<1>7. CASE StartFails
  <2>1. HotkeysOpened
    BY <1>7 DEF StartFails
  <2>2. channel' \in Seq(Nat) /\ Len(channel') <= EventBuffer /\ \A n : In(n, channel) => In(n, channel')
    BY <2>1, HotkeysKeep DEF FlowInv
  <2>3. QED
    BY <1>3, <1>4, <1>5, <2>2, ChannelGrows
<1>8. QED
  BY <1>6, <1>7 DEF AddWatch, AddWatchFails

LEMMA ReloadFlow == ASSUME HubInv, FlowInv, Reload PROVE FlowInv'
<1> PICK n : n = started + 1
  OBVIOUS
<1>1. n \in Start /\ n > started
  BY HubAssumption DEF HubInv, Shape, Reload, load, Start
<1>2. status[n] = "none"
  BY <1>1 DEF HubInv, Starts
<1>3. status' = [status EXCEPT ![n] = "watching"] /\ UNCHANGED <<current, watches, channel, sending, backlog, history>>
  BY DEF Reload, load, Begin
<1>4. \A s \in Start : status[s] \notin {"none", "watching"} => status'[s] \notin {"none", "watching"}
  BY <1>1, <1>2, <1>3 DEF HubInv, Shape
<1>5. QED
  BY <1>3, <1>4, FlowUntouched

(* Nothing has been seen with the providers that are taken over.               *)
LEMMA SucceedsFlow == ASSUME HubInv, FlowInv, StartSucceeds PROVE FlowInv'
<1>1. /\ phase = "starting" /\ HotkeysOpened /\ current' = started
      /\ status' = [s \in Start |-> IF s = started THEN "ready" ELSE Retire(s)]
      /\ UNCHANGED <<sending, backlog, history>>
  BY DEF StartSucceeds, Watched
<1>2. started \in Start /\ status[started] = "watching"
  BY <1>1 DEF HubInv, Shape, Starts
<1>3. channel' \in Seq(Nat) /\ Len(channel') <= EventBuffer
  BY <1>1, HotkeysKeep DEF FlowInv
<1>4. UNCHANGED <<touched, seenBy, received>>
  BY <1>1 DEF history
<1>5. Flow'
  BY <1>1, <1>3, <1>4 DEF FlowInv, Flow
<1>6. \A s \in Start : status[s] \notin {"none", "watching"} => status'[s] \notin {"none", "watching"}
  BY <1>1 DEF Retire
<1>7. \A n \in 1..Len(touched) : seenBy[n] \in Start \cup {Nil}
  BY DEF FlowInv, Seen
<1>8. Seen'
  BY <1>4, <1>6, <1>7 DEF FlowInv, Seen
<1>9. EventsKept'
  <2>1. \A n \in 1..Len(touched) : seenBy[n] # Nil => seenBy[n] # started
    BY <1>2 DEF FlowInv, Seen
  <2>2. QED
    BY <1>1, <1>4, <2>1 DEF EventsKept
<1>10. QED
  BY <1>5, <1>8, <1>9 DEF FlowInv

(* One more file event or error has happened.                                  *)
LEMMA HistoryGrows ==
  ASSUME FlowInv, NEW k \in HostEvent \cup {Nil}, NEW by \in Start \cup {Nil},
         touched' = Append(touched, k), seenBy' = Append(seenBy, by)
  PROVE  /\ touched' \in Seq(HostEvent \cup {Nil}) /\ seenBy' \in Seq(Start \cup {Nil})
         /\ Len(touched) \in Nat /\ Len(touched') = Len(touched) + 1 /\ Len(seenBy') = Len(touched')
         /\ \A n \in 1..Len(touched) : touched'[n] = touched[n] /\ seenBy'[n] = seenBy[n]
         /\ touched'[Len(touched')] = k /\ seenBy'[Len(touched')] = by
         /\ \A n \in 1..Len(touched') : n \in 1..Len(touched) \/ n = Len(touched')
<1>1. touched \in Seq(HostEvent \cup {Nil}) /\ seenBy \in Seq(Start \cup {Nil}) /\ Len(seenBy) = Len(touched)
  BY DEF FlowInv, Flow, Seen
<1>2. /\ touched' \in Seq(HostEvent \cup {Nil}) /\ Len(touched) \in Nat
      /\ Len(touched') = Len(touched) + 1 /\ touched'[Len(touched) + 1] = k
      /\ \A n \in 1..Len(touched) : touched'[n] = touched[n]
  BY <1>1
<1>3. /\ seenBy' \in Seq(Start \cup {Nil}) /\ Len(seenBy') = Len(seenBy) + 1
      /\ seenBy'[Len(seenBy) + 1] = by /\ \A n \in 1..Len(seenBy) : seenBy'[n] = seenBy[n]
  BY <1>1
<1>4. QED
  BY <1>1, <1>2, <1>3

LEMMA TouchFlow == ASSUME HubInv, FlowInv, NEW k \in HostEvent, HostTouches(k) PROVE FlowInv'
<1> PICK m : m = Len(touched')
  OBVIOUS
<1>1. /\ touched' = Append(touched, k) /\ seenBy' = Append(seenBy, current)
      /\ backlog' = [s \in Start |-> IF status[s] \in Live /\ Covers(watches[s], {}, k)
                                     THEN Append(backlog[s], m) ELSE backlog[s]]
      /\ UNCHANGED <<status, watches, sending, channel, received, current>>
  BY DEF HostTouches, hub
<1>2. current \in Start \cup {Nil}
  BY DEF HubInv, Shape
<1>3. /\ touched' \in Seq(HostEvent \cup {Nil}) /\ seenBy' \in Seq(Start \cup {Nil})
      /\ Len(touched) \in Nat /\ m = Len(touched) + 1 /\ Len(seenBy') = m
      /\ \A n \in 1..Len(touched) : touched'[n] = touched[n] /\ seenBy'[n] = seenBy[n]
      /\ touched'[m] = k /\ seenBy'[m] = current
      /\ \A n \in 1..m : n \in 1..Len(touched) \/ n = m
  BY <1>1, <1>2, HistoryGrows
<1>4. ASSUME NEW s \in Start
      PROVE  /\ backlog'[s] \in Seq(Nat) /\ \A n : In(n, backlog[s]) => In(n, backlog'[s])
             /\ status[s] \in Live /\ Covers(watches[s], {}, k) => In(m, backlog'[s])
  <2>1. backlog[s] \in Seq(Nat) /\ m \in Nat
    BY <1>3 DEF FlowInv, Flow
  <2>2. PICK q : q = backlog[s]
    OBVIOUS
  <2>3. Append(q, m) \in Seq(Nat) /\ In(m, Append(q, m)) /\ \A n : In(n, q) => In(n, Append(q, m))
    BY <2>1, <2>2, AppendedIn
  <2>4. CASE status[s] \in Live /\ Covers(watches[s], {}, k)
    <3>1. backlog'[s] = Append(q, m)
      BY <1>1, <2>2, <2>4
    <3>2. QED
      BY <2>2, <2>3, <3>1
  <2>5. CASE ~(status[s] \in Live /\ Covers(watches[s], {}, k))
    <3>1. backlog'[s] = q
      BY <1>1, <2>2, <2>5
    <3>2. QED
      BY <2>1, <2>2, <2>5, <3>1
  <2>6. QED
    BY <2>4, <2>5
<1>5. Flow'
  <2>1. backlog' \in [Start -> Seq(Nat)]
    BY <1>1, <1>4
  <2>2. QED
    BY <1>1, <1>3, <2>1 DEF FlowInv, Flow
<1>6. current # Nil => status[current] = "ready" /\ status[current] \in Live /\ current \in Start
  BY <1>2 DEF HubInv, Held, Live
<1>7. Seen'
  <2>1. \A n \in 1..m : seenBy'[n] # Nil => status[seenBy'[n]] \notin {"none", "watching"}
    BY <1>3, <1>6 DEF FlowInv, Seen
  <2>2. QED
    BY <1>1, <1>3, <2>1 DEF Seen
<1>8. EventsKept'
  <2> SUFFICES ASSUME NEW n \in 1..m, seenBy'[n] # Nil, current = seenBy'[n],
                      Covers(watches[current], {}, touched'[n])
               PROVE  OnWay(n)'
    BY <1>1 DEF EventsKept
  <2>1. current \in Start /\ status[current] \in Live
    BY <1>6
  <2>2. CASE n = m
    BY <1>1, <1>3, <1>4, <2>1, <2>2 DEF OnWay
  <2>3. CASE n \in 1..Len(touched)
    <3>1. OnWay(n)
      BY <1>3, <2>3 DEF FlowInv, EventsKept
    <3>2. QED
      BY <1>1, <1>4, <2>1, <3>1 DEF OnWay
  <2>4. QED
    BY <1>3, <2>2, <2>3
<1>9. QED
  BY <1>5, <1>7, <1>8 DEF FlowInv

LEMMA ErrorFlow == ASSUME HubInv, FlowInv, NEW s \in Start, WatcherError(s) PROVE FlowInv'
<1> PICK m : m = Len(touched')
  OBVIOUS
<1>1. /\ sending[s] = Nil /\ sending' = [sending EXCEPT ![s] = 0]
      /\ touched' = Append(touched, Nil) /\ seenBy' = Append(seenBy, Nil)
      /\ UNCHANGED <<status, watches, backlog, channel, received, current>>
  BY DEF WatcherError, hub
<1>2. /\ touched' \in Seq(HostEvent \cup {Nil}) /\ seenBy' \in Seq(Start \cup {Nil})
      /\ Len(seenBy') = m /\ seenBy'[m] = Nil
      /\ \A n \in 1..Len(touched) : touched'[n] = touched[n] /\ seenBy'[n] = seenBy[n]
      /\ \A n \in 1..m : n \in 1..Len(touched) \/ n = m
  BY <1>1, HistoryGrows
<1>3. Flow'
  BY <1>1, <1>2 DEF FlowInv, Flow
<1>4. Seen'
  BY <1>1, <1>2 DEF FlowInv, Seen
<1>5. EventsKept'
  <2> SUFFICES ASSUME NEW n \in 1..m, seenBy'[n] # Nil, current = seenBy'[n],
                      Covers(watches[current], {}, touched'[n])
               PROVE  OnWay(n)'
    BY <1>1 DEF EventsKept
  <2>1. n \in 1..Len(touched)
    BY <1>2
  <2>2. OnWay(n)
    BY <1>2, <2>1 DEF FlowInv, EventsKept
  <2>3. n # Nil
    BY ConstantFacts
  <2>4. current \in Start
    BY <1>2, <2>1 DEF HubInv, Shape
  <2>5. sending[current] = n => sending'[current] = n
    BY <1>1, <2>3, <2>4 DEF FlowInv, Flow
  <2>6. QED
    BY <1>1, <2>2, <2>5 DEF OnWay
<1>6. QED
  BY <1>3, <1>4, <1>5 DEF FlowInv

LEMMA StepFlow == HubInv /\ FlowInv /\ [Next]_vars => FlowInv'
<1> SUFFICES ASSUME HubInv, FlowInv, [Next]_vars PROVE FlowInv'
  OBVIOUS
<1>1. CASE UNCHANGED vars \/ EditFile
  BY <1>1, FlowUntouched DEF vars, EditFile, hub, provider
<1>2. CASE Reload \/ StartStep
  BY <1>2, ReloadFlow, StartFlow, SucceedsFlow DEF StartStep
<1>3. CASE ReceiveEvent \/ OtherEvent \/ \E k \in HostEvent : HostTouches(k)
  BY <1>3, ReceiveFlow, OtherFlow, TouchFlow
<1>4. ASSUME NEW s \in Start, TakeEvent(s) \/ SendEvent(s) \/ StopWatcher(s) \/ WatcherError(s)
      PROVE  FlowInv'
  BY <1>4, TakeFlow, SendFlow, StopFlow, ErrorFlow
<1>5. QED
  BY <1>1, <1>2, <1>3, <1>4 DEF Next, Process

(* blocking_send and the one event loop of a watcher: an event on a file that  *)
(* the running configuration watches is never lost between the watcher and     *)
(* the runtime, however full the channel is and whatever reloads are tried.    *)
THEOREM EventsNeverLost == Spec => []EventsKept
<1>1. FlowInv => EventsKept
  BY DEF FlowInv
<1>2. QED
  BY <1>1, FlowStarts, StepFlow, HubInvariant, PTL DEF Spec

(* Runtime::reload, SensorHub::start and the bounded channel: what TypeOK says *)
(* of the providers held, of the start under way and of the channel.           *)
THEOREM TypeCorrect == Spec => []TypeOK
<1>1. HubInv /\ FlowInv => TypeOK
  <2> SUFFICES ASSUME HubInv, FlowInv PROVE TypeOK
    OBVIOUS
  <2>1. started \in Start /\ started <= started
    BY ConstantFacts DEF HubInv, Shape
  <2>2. phase = "starting" => target[started] \in Accepted /\ DOMAIN watches[started] \subseteq Paths
    BY <2>1 DEF HubInv, Starts, Asked, PartOf, Paths
  <2>3. QED
    BY <2>1, <2>2 DEF HubInv, Shape, Starts, Held, FlowInv, Flow, TypeOK
<1>2. QED
  BY <1>1, FlowStarts, StepFlow, HubInvariant, PTL DEF Spec
===============================================================================
