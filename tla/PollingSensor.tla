----------------------------- MODULE PollingSensor -----------------------------
(* The polling provider of kovert-sensors/src/polling.rs between the host it   *)
(* looks at and the snapshot the engine builds from its events.                *)
(*                                                                             *)
(* host[i] is the state of one input: what a probe returns, or the contents of *)
(* one of the two files whose integrity is watched.  A Wi-Fi, network, power   *)
(* or session state is the kind of the event that reports it; devices, mounts  *)
(* and open ports are sets; processes and services are functions from the      *)
(* required names to BOOLEAN.  A digest stands for the contents it is of.      *)
EXTENDS Snapshot, Integers, Sequences, FiniteSets, Functions

CONSTANTS
  Required,      \* the SensorRequirements of the configuration, as a set
  Value,         \* [input -> its possible states]
  RequiredPorts, \* requirements.ports
  Buffer,        \* capacity of the event channel
  MaxDisturbances \* bound on the changes of the host, the failed reads, the lost
                  \* cycles, the lost events and the reloads together

Files == {"configuration", "binary"}
Inputs == (Required \ {"integrity"}) \cup (IF "integrity" \in Required THEN Files ELSE {})
Probes ==
  {"wifi", "network", "usb", "mounts", "processes", "services", "ports", "sessions", "power"}
(* Those whose value is reported as a whole                                    *)
Singles == {"wifi", "network", "power", "sessions"}
(* probe_ports skips what it cannot read and never fails                       *)
Fallible == Inputs \ {"ports"}

(* The functions that give every input one of its states, chosen as pairs of   *)
(* an input and a state.                                                       *)
(* Contents of files are only compared, so a file starts with any one of them. *)
HostStates ==
  LET First(i) == IF i \in Files THEN {CHOOSE v \in Value[i] : TRUE} ELSE Value[i]
      Pairs == [Inputs -> UNION {{i} \X First(i) : i \in Inputs}]
  IN {[i \in Inputs |-> c[i][2]] : c \in {c \in Pairs : \A i \in Inputs : c[i][1] = i}}

ASSUME InputAssumption ==
  Required \subseteq Probes \cup {"integrity"} /\ Inputs = DOMAIN Value

(* The types that the probes return, and the names and ports they look for.    *)
KindType(i) == IF i = "sessions" THEN "session" ELSE i
ASSUME ValueAssumption ==
  /\ \A i \in Inputs : Value[i] # {}
  /\ \A i \in Inputs \cap Singles : \A v \in Value[i] : v.type = KindType(i)
  /\ "sessions" \in Inputs =>
       \A v \in Value["sessions"] :
         v = [type |-> v.type, state |-> v.state, user |-> v.user, remote |-> v.remote]
  /\ \A i \in Inputs \cap {"usb", "mounts"} : \A v \in Value[i] : IsFiniteSet(v)
  /\ \A i \in Inputs \cap {"processes", "services"} : \A v \in Value[i] :
       IsFiniteSet(DOMAIN v) /\ \A name \in DOMAIN v : v[name] \in BOOLEAN
  /\ "ports" \in Inputs => \A v \in Value["ports"] : v \subseteq RequiredPorts
  /\ IsFiniteSet(RequiredPorts) /\ \A p \in RequiredPorts : p = <<p[1], p[2]>>
ASSUME BoundAssumption == Buffer \in Nat \ {0} /\ MaxDisturbances \in Nat

VARIABLES
  host,      \* [Inputs -> state]
  poll,      \* PollState
  phase,     \* where the polling task is: "tick", "cycle" or "send"
  out,       \* the events of the last cycle that are still to be sent
  retired,   \* what a poller aborted in the middle of its sends may still send
  queue,     \* the event channel
  snapshot,  \* SystemSnapshot of the engine
  down,      \* history: the sensors that failed in the last cycle
  baseline,  \* history: contents of each file when this poller first read it
  alarms,    \* history: the files whose change has reached the engine
  restarted, \* history: the poller is not the first one
  gaps,      \* history: what has come between poller and engine: "late" when an
             \* aborted poller has sent something, "lost" when the runtime has
             \* dropped an event
  disturbances

vars == <<host, poll, phase, out, retired, queue, snapshot, down, baseline, alarms,
          restarted, gaps, disturbances>>

Event(source, kind) == [timestamp |-> 0, source |-> source, kind |-> kind]
Failure(sensor) == Event(sensor, [type |-> "sensor_failure", sensor |-> sensor])

(* Nothing is known of an input: an empty collection, or no value.             *)
Unknown(i) == CASE i \in {"usb", "mounts", "ports"} -> {}
                [] i \in {"processes", "services"} -> <<>>
                [] OTHER -> None
DefaultPollState ==
  [initialized |-> FALSE, known |-> [i \in Inputs |-> Unknown(i)], failed |-> {}]

-------------------------------------------------------------------------------
(* What a successful probe adds to the events of the cycle.                    *)

(* wifi, network and power: the whole value when it is not the known one       *)
ReportValue(i, first, old, new) ==
  IF first \/ old # new THEN <<Event(i, new)>> ELSE <<>>

(* The elements of a finite set in one fixed order, standing for that of the   *)
(* B-trees of PollState                                                        *)
InSomeOrder(S) == CHOOSE f \in [1..Cardinality(S) -> S] : IsInjective(f)

(* One event for each element of a set                                         *)
ForEach(event) ==
  LET elements == InSomeOrder(DOMAIN event)
  IN [n \in 1..Cardinality(DOMAIN event) |-> event[elements[n]]]

SetKind(i, x, action) ==
  IF i = "usb" THEN [type |-> "usb", action |-> action, device |-> x]
  ELSE [type |-> "mount", action |-> action, path |-> x]

(* usb and mounts: what has come, then what has gone                           *)
ReportSet(i, first, old, new) ==
  LET known == IF first THEN {} ELSE old
  IN ForEach([x \in new \ known |-> Event(i, SetKind(i, x, "added"))])
     \o ForEach([x \in known \ new |-> Event(i, SetKind(i, x, "removed"))])

NameKind(i, name, on) ==
  IF i = "processes" THEN [type |-> "process", name |-> name, running |-> on]
  ELSE [type |-> "service", name |-> name, active |-> on]

(* processes and services: every name whose state is not the known one         *)
ReportMap(i, first, old, new) ==
  LET changed == {n \in DOMAIN new : first \/ n \notin DOMAIN old \/ old[n] # new[n]}
  IN ForEach([n \in changed |-> Event(i, NameKind(i, n, new[n]))])

PortKind(p, open) == [type |-> "port", protocol |-> p[1], port |-> p[2], open |-> open]
(* A port that closes is not reported.                                         *)
ReportPortsMutant(first, old, new) ==
  LET ports == IF first THEN RequiredPorts ELSE new \ old
  IN ForEach([p \in ports |-> Event("ports", PortKind(p, p \in new))])

(* ports: all the required ones at first, then those that opened or closed     *)
ReportPorts(first, old, new) ==
  LET ports == IF first THEN RequiredPorts ELSE (new \ old) \cup (old \ new)
  IN ForEach([p \in ports |-> Event("ports", PortKind(p, p \in new))])

(* sessions: a login is announced before the state of the session              *)
ReportSession(first, old, new) ==
  LET LoggedOut(s) == s.state = "logged_out"
      login == ~LoggedOut(new) /\ (first \/ (old # None /\ LoggedOut(old)))
  IN IF ~first /\ old = new THEN <<>>
     ELSE (IF login THEN <<Event("sessions", [new EXCEPT !.state = "logged_in"])>> ELSE <<>>)
          \o <<Event("sessions", new)>>

(* check_integrity, for a file that could be read                              *)
ReportIntegrity(file, old, new) ==
  IF old # None /\ old # new
  THEN <<Event("integrity", [type |-> "integrity", component |-> file, valid |-> FALSE])>>
  ELSE <<>>

Report(i, first, old, new) ==
  CASE i \in {"wifi", "network", "power"} -> ReportValue(i, first, old, new)
    [] i \in {"usb", "mounts"} -> ReportSet(i, first, old, new)
    [] i \in {"processes", "services"} -> ReportMap(i, first, old, new)
    [] i = "ports"     -> ReportPorts(first, old, new)
    [] i = "sessions"  -> ReportSession(first, old, new)
    [] i \in Files     -> ReportIntegrity(i, old, new)

(* Every failure is reported.                                                  *)
ReportFailureMutant(i, p) == <<Failure(i)>>

(* probe_value reports a failure unless it is already known; check_integrity   *)
(* reports every one.                                                          *)
ReportFailure(i, p) ==
  IF i \in Files THEN <<Failure("integrity")>>
  ELSE IF i \in p.failed THEN <<>> ELSE <<Failure(i)>>

(* The events of a cycle in which the inputs in failing cannot be read.        *)
InputEvents(i, p, failing) ==
  CASE i \notin Inputs -> <<>>
    [] i \in failing   -> ReportFailure(i, p)
    [] OTHER           -> Report(i, ~p.initialized, p.known[i], host[i])
CycleEvents(p, failing) ==
  LET Of(i) == InputEvents(i, p, failing)
  IN Of("wifi") \o Of("network") \o Of("usb") \o Of("mounts") \o Of("processes") \o Of("services")
     \o Of("ports") \o Of("sessions") \o Of("power") \o Of("configuration") \o Of("binary")

(* A file that cannot be read loses its digest.                                *)
CycleStateMutantForget(p, failing) ==
  [initialized |-> TRUE,
   known |-> [i \in Inputs |-> IF i \notin failing THEN host[i]
                               ELSE IF i \in Files THEN None ELSE p.known[i]],
   failed |-> failing \ Files]

(* A probe that works again stays marked as failed.                           *)
CycleStateMutantStuck(p, failing) ==
  [initialized |-> TRUE,
   known |-> [i \in Inputs |-> IF i \in failing THEN p.known[i] ELSE host[i]],
   failed |-> p.failed \cup (failing \ Files)]

(* The state a cycle leaves: a failed probe keeps what was known.              *)
CycleState(p, failing) ==
  [initialized |-> TRUE,
   known |-> [i \in Inputs |-> IF i \in failing THEN p.known[i] ELSE host[i]],
   failed |-> failing \ Files]

-------------------------------------------------------------------------------
Init ==
  /\ host \in HostStates
  /\ poll = DefaultPollState
  /\ phase = "tick"
  /\ out = <<>> /\ retired = <<>> /\ queue = <<>>
  /\ snapshot = DefaultSnapshot(0, "normal")
  /\ down = {} /\ alarms = {}
  /\ baseline = [f \in Inputs \cap Files |-> None]
  /\ restarted = FALSE /\ gaps = {} /\ disturbances = 0

Disturb(n) == disturbances' = disturbances + n /\ disturbances' <= MaxDisturbances

(* One event too many fits.                                                    *)
RoomMutant == Len(queue) <= Buffer

Room == Len(queue) < Buffer

PhaseAfter(events) == IF events = <<>> THEN "tick" ELSE "send"

(* The ticker fires; the tick is sent before anything is probed.               *)
Tick ==
  /\ phase = "tick" /\ Room
  /\ queue' = Append(queue, Event("time", [type |-> "tick"]))
  /\ phase' = "cycle"
  /\ UNCHANGED <<host, poll, out, retired, snapshot, down, baseline, alarms,
                 restarted, gaps, disturbances>>

(* A probe that failed once is not tried again.                                *)
CycleMutant(failing) ==
  LET unread == failing \cup poll.failed IN
  /\ phase = "cycle"
  /\ Disturb(Cardinality(failing))
  /\ out' = CycleEvents(poll, unread)
  /\ poll' = CycleState(poll, unread)
  /\ phase' = PhaseAfter(out')
  /\ down' = {IF i \in Files THEN "integrity" ELSE i : i \in unread}
  /\ UNCHANGED <<host, retired, queue, snapshot, baseline, alarms, restarted, gaps>>

(* poll_cycle in its blocking task.  Every input is read once, so reading them *)
(* together loses no interleaving with the host.                               *)
Cycle(failing) ==
  /\ phase = "cycle"
  /\ Disturb(Cardinality(failing))
  /\ out' = CycleEvents(poll, failing)
  /\ poll' = CycleState(poll, failing)
  /\ phase' = PhaseAfter(out')
  /\ down' = {IF i \in Files THEN "integrity" ELSE i : i \in failing}
  /\ baseline' = [f \in DOMAIN baseline |->
       IF baseline[f] = None /\ f \notin failing THEN host[f] ELSE baseline[f]]
  /\ UNCHANGED <<host, retired, queue, snapshot, alarms, restarted, gaps>>

(* A poller that starts from nothing.                                          *)
Fresh ==
  /\ poll' = DefaultPollState
  /\ down' = {}
  /\ baseline' = [f \in DOMAIN baseline |-> None]
  /\ restarted' = TRUE

(* The blocking task ends abnormally and takes the state along.                *)
CycleLost ==
  /\ phase = "cycle" /\ Disturb(1)
  /\ out' = <<Failure("polling")>>
  /\ phase' = "send"
  /\ Fresh
  /\ UNCHANGED <<host, retired, queue, snapshot, alarms, gaps>>

Send ==
  /\ phase = "send" /\ Room
  /\ queue' = Append(queue, Head(out))
  /\ out' = Tail(out)
  /\ phase' = PhaseAfter(out')
  /\ UNCHANGED <<host, poll, retired, snapshot, down, baseline, alarms,
                 restarted, gaps, disturbances>>

(* Runtime::reload starts a new poller and aborts the old one.  A task that is *)
(* running when it is aborted goes on until it next has to wait: one that is   *)
(* between two sends may send more of its events.  The engine keeps its        *)
(* snapshot and the channel its events.                                        *)
Reload ==
  /\ Disturb(1) /\ retired = <<>>
  /\ retired' = out
  /\ out' = <<>>
  /\ phase' = "tick"
  /\ Fresh
  /\ UNCHANGED <<host, queue, snapshot, alarms, gaps>>

RetiredSend ==
  /\ retired # <<>> /\ Room
  /\ queue' = Append(queue, Head(retired))
  /\ retired' = Tail(retired)
  /\ gaps' = gaps \cup {"late"}
  /\ UNCHANGED <<host, poll, phase, out, snapshot, down, baseline, alarms,
                 restarted, disturbances>>

RetiredEnd ==
  /\ retired # <<>>
  /\ retired' = <<>>
  /\ UNCHANGED <<host, poll, phase, out, queue, snapshot, down, baseline, alarms,
                 restarted, gaps, disturbances>>

(* The runtime receives an event, records it and hands it to the engine.       *)
Receive ==
  /\ queue # <<>>
  /\ snapshot' = apply(snapshot, Head(queue))
  /\ queue' = Tail(queue)
  /\ alarms' = alarms \cup (IF Head(queue).kind.type = "integrity"
                            THEN {Head(queue).kind.component} ELSE {})
  /\ UNCHANGED <<host, poll, phase, out, retired, down, baseline,
                 restarted, gaps, disturbances>>

(* The store cannot record the event: it is dropped before the engine sees it, *)
(* and the runtime goes on.                                                    *)
ReceiveFails ==
  /\ queue # <<>> /\ Disturb(1)
  /\ queue' = Tail(queue)
  /\ gaps' = gaps \cup {"lost"}
  /\ UNCHANGED <<host, poll, phase, out, retired, snapshot, down, baseline, alarms, restarted>>

HostChanges(i) ==
  /\ Disturb(1)
  /\ \E v \in Value[i] \ {host[i]} : host' = [host EXCEPT ![i] = v]
  /\ UNCHANGED <<poll, phase, out, retired, queue, snapshot, down, baseline, alarms,
                 restarted, gaps>>

Poller ==
  \/ Tick
  \/ \E failing \in SUBSET Fallible : Cycle(failing)
  \/ CycleLost
  \/ Send

Next ==
  \/ Poller
  \/ Receive \/ ReceiveFails
  \/ RetiredSend
  \/ RetiredEnd
  \/ Reload
  \/ \E i \in Inputs : HostChanges(i)

(* The poller's task is never abandoned and the runtime's loop receives; an    *)
(* aborted task ends.                                                          *)
Spec == Init /\ [][Next]_vars /\ WF_vars(Poller) /\ WF_vars(Receive) /\ WF_vars(RetiredEnd)

-------------------------------------------------------------------------------
(* What the snapshot s says about the required inputs is what known says of    *)
(* those of which something is known.                                          *)
Same(i, group, known) == i \in Inputs => known[i] \in {None, group}
SameNames(i, true, known) ==
  i \in Inputs => \A n \in DOMAIN known[i] : known[i][n] = (n \in true)

MirrorsMounts(s, known) == "mounts" \in Inputs => s.mounts = known["mounts"]
Mirrors(s, known) ==
  /\ Same("wifi", s.wifi, known) /\ Same("network", s.network, known)
  /\ Same("power", s.power, known) /\ Same("sessions", s.session, known)
  /\ SameNames("processes", s.processes, known) /\ SameNames("services", s.services, known)
  /\ "ports" \in Inputs => s.ports = known["ports"]
  /\ restarted \/ MirrorsMounts(s, known)

(* Everything the poller reported has reached the engine, nothing was dropped  *)
(* on the way, and nothing that an aborted poller sent late is mixed into it.  *)
Delivered ==
  phase = "tick" /\ poll.initialized /\ queue = <<>> /\ retired = <<>> /\ gaps = {}

(* The pieces of PollState keep their types, only required probes are marked   *)
(* as failed, and the channel never holds more than its capacity.              *)
TypeOK ==
  /\ \A i \in Inputs : host[i] \in Value[i] /\ poll.known[i] \in Value[i] \cup {Unknown(i)}
  /\ poll.initialized \in BOOLEAN
  /\ poll.failed \subseteq Fallible \ Files
  /\ phase \in {"tick", "cycle", "send"} /\ (phase = "send" <=> out # <<>>)
  /\ Len(queue) <= Buffer
  /\ alarms \subseteq Files
  /\ disturbances \in 0..MaxDisturbances

(* poll_cycle sends differences only, so nothing repairs a missed one: once    *)
(* its events are delivered, the engine's snapshot holds what the poller       *)
(* believes, after any mixture of changes and failed probes, and after a lost  *)
(* cycle or a reload too, except for mounts.                                   *)
SnapshotMirrors == Delivered => Mirrors(snapshot, poll.known)

(* A probe that failed in the last cycle is shown as unhealthy once the events *)
(* are delivered, also when it failed, recovered and failed again.             *)
FailuresShow == Delivered => down \cap Fallible \cap snapshot.sensor_health = {}

(* In phase "cycle" out is empty: what out' holds, the step has reported.      *)
ReportsOnce(sensors) ==
  phase = "cycle" => \A s \in down \cap sensors : Failure(s) \notin Range(out')

(* A cycle reports the failure of a probe only if the probe did not fail in    *)
(* the cycle before (probe_value).                                             *)
ProbeFailureOnce == [][ReportsOnce(Fallible)]_vars

(* When the host no longer changes, and probes no longer fail, the engine's    *)
(* snapshot comes to show the host and stays so (mounts only if the poller was *)
(* never replaced).                                                            *)
Converges == <>[](gaps # {} \/ Mirrors(snapshot, host))

(* The same for the mounts, also when the poller was replaced.                 *)
MountsConverge == <>[](gaps # {} \/ MirrorsMounts(snapshot, host))

(* A watched file that has changed since the poller first read it is reported, *)
(* unless it is restored in time, also when it cannot be read in between       *)
(* (check_integrity keeps the last digest); it is reported once, to a runtime  *)
(* that must not drop it.                                                      *)
TamperNoticed ==
  \A f \in Inputs \cap Files :
    (baseline[f] # None /\ host[f] # baseline[f])
      ~> (f \in alarms \/ host[f] = baseline[f] \/ "lost" \in gaps)
===============================================================================
