---------------------------- MODULE ControlServer -----------------------------
(* The control socket: clients (kovert-cli), the accept loop and one task per  *)
(* connection (server.rs), the control channel and the runtime's end of it     *)
(* (runtime.rs), and main's handling of the end of either.                     *)
(*                                                                             *)
(* A client is one call.  A message is told apart by what the server makes of  *)
(* it.  Time is not kept: a time limit may expire at any step.  The order of   *)
(* connections waiting to be accepted is not kept.                             *)
EXTENDS Naturals, Sequences, FiniteSets

CONSTANTS Client,
          None,
          MaxClients,      \* MAX_CLIENTS
          ControlBuffer,   \* capacity of the control channel
          MaxStops         \* bound: how often the process ends

Message == {"request", "version", "oversized", "malformed"}

ASSUME ServerAssumption ==
  /\ IsFiniteSet(Client)
  /\ MaxClients \in Nat /\ ControlBuffer \in Nat \ {0}
  /\ None \notin Client \cup Message \cup {"ok", "error", "rejected", "unknown", "unusable",
                                         "closed", "timeout", "unreachable"}

VARIABLES process,    \* "down", "running" or "stopping" (shutdown was signalled)
          listening,  \* serve is in its loop
          runtime,    \* run is in its loop
          socket,     \* the path: "absent", "bound", "stale" or "foreign"
          permits,    \* what the semaphore has left
          conn,       \* per client: the connection, see below
          response,   \* per client: what its task has to write
          control,    \* the control channel
          handling,   \* whose request handle_control works on
          client,     \* per client: "idle", "connected", "waiting" or "left"
          message,    \* per client: what it sends
          reply,      \* per client: what the call returned
          applied,    \* history: requests handed to handle_control
          outcome,    \* history: what handle_control made of them
          stops

daemon == <<process, listening, runtime, socket>>
server == <<permits, conn, response>>
channel == <<control, handling>>
clients == <<client, message, reply>>
history == <<applied, outcome>>
vars == <<daemon, server, channel, clients, history, stops>>

(* A connection is queued until accepted, served by a task in one of the Busy  *)
(* phases, and ends "answered" (a response can be read) or "closed".           *)
Busy == {"reading", "sending", "awaiting", "writing"}
Ended == {"answered", "closed"}

Init ==
  /\ process = "down" /\ listening = FALSE /\ runtime = FALSE
  /\ socket \in {"absent", "stale", "foreign"}
  /\ permits = MaxClients
  /\ conn = [c \in Client |-> "none"]
  /\ response = [c \in Client |-> None]
  /\ control = <<>> /\ handling = None
  /\ client = [c \in Client |-> "idle"]
  /\ message = [c \in Client |-> None]
  /\ reply = [c \in Client |-> None]
  /\ applied = <<>> /\ outcome = [c \in Client |-> None]
  /\ stops = 0

-------------------------------------------------------------------------------
(* The client: send_inner under its time limit.                                *)
Leaves(c, r) ==
  /\ client' = [client EXCEPT ![c] = "left"]
  /\ reply' = [reply EXCEPT ![c] = r]

Connect(c) ==
  /\ client[c] = "idle" /\ listening
  /\ client' = [client EXCEPT ![c] = "connected"]
  /\ conn' = [conn EXCEPT ![c] = "queued"]
  /\ \E m \in Message : message' = [message EXCEPT ![c] = m]
  /\ UNCHANGED <<daemon, permits, response, channel, reply, history, stops>>

ConnectFails(c) ==
  /\ client[c] = "idle" /\ ~listening
  /\ Leaves(c, "unreachable")
  /\ UNCHANGED <<daemon, server, channel, message, history, stops>>

Write(c) ==
  /\ client[c] = "connected" /\ conn[c] \notin Ended
  /\ client' = [client EXCEPT ![c] = "waiting"]
  /\ UNCHANGED <<daemon, server, channel, message, reply, history, stops>>

(* The connection has ended.  A response may be too large or of another        *)
(* version; a write to a closed connection fails.                              *)
Receive(c) ==
  /\ conn[c] \in Ended
  /\ \/ /\ client[c] = "waiting" /\ conn[c] = "answered"
        /\ \E r \in {response[c], "unusable"} : Leaves(c, r)
     \/ /\ client[c] = "connected" \/ (client[c] = "waiting" /\ conn[c] = "closed")
        /\ Leaves(c, "closed")
  /\ UNCHANGED <<daemon, server, channel, message, history, stops>>

(* The time limit, or the end of the client: what was not written never comes. *)
GiveUp(c) ==
  /\ client[c] \in {"connected", "waiting"}
  /\ Leaves(c, "timeout")
  /\ message' = IF client[c] = "connected" THEN [message EXCEPT ![c] = "malformed"]
                ELSE message
  /\ UNCHANGED <<daemon, server, channel, history, stops>>

-------------------------------------------------------------------------------
(* serve and handle_connection                                                 *)
Goto(c, phase) == conn' = [conn EXCEPT ![c] = phase] /\ UNCHANGED permits

(* The permit comes back only with an answer.                                  *)
EndMutant(c, how) ==
  /\ conn' = [conn EXCEPT ![c] = how]
  /\ permits' = IF how = "answered" THEN permits + 1 ELSE permits

(* The task ends and drops its permit and its half of the connection.          *)
End(c, how) == conn' = [conn EXCEPT ![c] = how] /\ permits' = permits + 1

(* Without a permit the connection is dropped.                                 *)
Accept(c) ==
  /\ listening /\ conn[c] = "queued"
  /\ IF permits > 0
     THEN conn' = [conn EXCEPT ![c] = "reading"] /\ permits' = permits - 1
     ELSE Goto(c, "closed")
  /\ UNCHANGED <<daemon, response, channel, clients, history, stops>>

(* The refusal of a version does not return.                                   *)
ReadRequestMutant(c) ==
  /\ conn[c] = "reading" /\ client[c] # "connected"
  /\ IF message[c] = "malformed" THEN End(c, "closed") ELSE Goto(c, "sending")
  /\ response' = IF message[c] = "version" THEN [response EXCEPT ![c] = "error"]
                 ELSE response
  /\ UNCHANGED <<daemon, channel, clients, history, stops>>

(* read_to_end needs the client's end of input, or one byte more than the      *)
(* limit.                                                                      *)
ReadRequest(c) ==
  /\ conn[c] = "reading"
  /\ client[c] # "connected" \/ message[c] = "oversized"
  /\ \/ /\ message[c] = "malformed"
        /\ End(c, "closed") /\ UNCHANGED response
     \/ /\ message[c] \in {"oversized", "version"}
        /\ Goto(c, "writing") /\ response' = [response EXCEPT ![c] = "error"]
     \/ /\ message[c] = "request"
        /\ Goto(c, "sending") /\ UNCHANGED response
  /\ UNCHANGED <<daemon, channel, clients, history, stops>>

Send(c) ==
  /\ conn[c] = "sending"
  /\ \/ /\ runtime /\ Len(control) < ControlBuffer
        /\ control' = Append(control, c)
        /\ Goto(c, "awaiting")
     \/ /\ ~runtime
        /\ End(c, "closed") /\ UNCHANGED control
  /\ UNCHANGED <<daemon, response, handling, clients, history, stops>>

InChannel(c) == \E i \in DOMAIN control : control[i] = c

(* The oneshot channel has an answer, or its sender was dropped.               *)
AwaitResponse(c) ==
  /\ conn[c] = "awaiting"
  /\ \/ response[c] # None /\ Goto(c, "writing")
     \/ response[c] = None /\ handling # c /\ ~InChannel(c) /\ End(c, "closed")
  /\ UNCHANGED <<daemon, response, channel, clients, history, stops>>

write_response(c) ==
  /\ conn[c] = "writing"
  /\ End(c, IF client[c] = "left" THEN "closed" ELSE "answered")
  /\ UNCHANGED <<daemon, response, channel, clients, history, stops>>

(* The time limit covers the runtime's answer only.                            *)
TimeOutMutantSilent(c) ==
  /\ conn[c] = "awaiting"
  /\ End(c, "closed")
  /\ UNCHANGED <<daemon, response, channel, clients, history, stops>>

(* CLIENT_TIMEOUT: the task is dropped wherever it is.  A request that is in   *)
(* the channel stays there.                                                    *)
TimeOut(c) ==
  /\ conn[c] \in Busy
  /\ End(c, "closed")
  /\ UNCHANGED <<daemon, response, channel, clients, history, stops>>

-------------------------------------------------------------------------------
(* The runtime's branch for control messages.  It may be busy with an event    *)
(* between any two of these steps.                                             *)
Take ==
  /\ runtime /\ handling = None /\ control # <<>>
  /\ handling' = Head(control) /\ control' = Tail(control)
  /\ applied' = Append(applied, Head(control))
  /\ UNCHANGED <<daemon, server, clients, outcome, stops>>

(* A response nobody waits for is dropped.                                     *)
Answer(ok) ==
  /\ handling # None
  /\ outcome' = [outcome EXCEPT ![handling] = ok]
  /\ response' = IF conn[handling] = "awaiting" THEN [response EXCEPT ![handling] = ok]
                 ELSE response
  /\ handling' = None
  /\ UNCHANGED <<daemon, permits, conn, control, clients, applied, stops>>

-------------------------------------------------------------------------------
(* main                                                                        *)
prepare_socket == socket # "foreign"

Start ==
  /\ process = "down" /\ prepare_socket
  /\ process' = "running" /\ listening' = TRUE /\ runtime' = TRUE /\ socket' = "bound"
  /\ UNCHANGED <<server, channel, clients, history, stops>>

Cut(c) == IF conn[c] \in Busy \cup {"queued"} THEN "closed" ELSE conn[c]

(* All tasks and channels go with the process; the next has a new semaphore.   *)
Gone ==
  /\ process' = "down" /\ listening' = FALSE /\ runtime' = FALSE
  /\ conn' = [c \in Client |-> Cut(c)] /\ permits' = MaxClients
  /\ control' = <<>> /\ handling' = None
  /\ UNCHANGED <<response, clients, history>>

(* A crash, an error of accept or of the runtime: main returns at once, and    *)
(* the socket stays.                                                           *)
Stop ==
  /\ process # "down" /\ stops < MaxStops /\ stops' = stops + 1
  /\ Gone
  /\ socket' = IF socket = "bound" THEN "stale" ELSE socket

Shutdown ==
  /\ process = "running" /\ stops < MaxStops /\ stops' = stops + 1
  /\ process' = "stopping"
  /\ UNCHANGED <<listening, runtime, socket, server, channel, clients, history>>

(* run leaves its loop between two requests; what is in the channel is lost.   *)
RuntimeEnds ==
  /\ process = "stopping" /\ runtime /\ handling = None
  /\ runtime' = FALSE /\ control' = <<>>
  /\ UNCHANGED <<process, listening, socket, server, handling, clients, history, stops>>

(* serve leaves its loop only when main has dropped the sender.                *)
ServeEndsMutantDeaf ==
  /\ process = "down" /\ listening
  /\ listening' = FALSE /\ socket' = "absent"
  /\ UNCHANGED <<process, runtime, server, channel, clients, history, stops>>

ServeEnds ==
  /\ process = "stopping" /\ listening
  /\ listening' = FALSE /\ socket' = "absent"
  /\ conn' = [c \in Client |-> IF conn[c] = "queued" THEN "closed" ELSE conn[c]]
  /\ UNCHANGED <<process, runtime, permits, response, channel, clients, history, stops>>

(* main waits for the runtime, then for the server; connections are cut off.   *)
Exit ==
  /\ process = "stopping" /\ ~runtime /\ ~listening
  /\ Gone
  /\ UNCHANGED <<socket, stops>>

-------------------------------------------------------------------------------
handle_connection(c) ==
  ReadRequest(c) \/ Send(c) \/ AwaitResponse(c) \/ write_response(c) \/ TimeOut(c)

send(c) == Connect(c) \/ ConnectFails(c) \/ Write(c) \/ Receive(c) \/ GiveUp(c)

Ends == RuntimeEnds \/ ServeEnds \/ Exit

Next ==
  \/ \E c \in Client : send(c) \/ Accept(c) \/ handle_connection(c)
  \/ Take \/ \E ok \in {"ok", "error"} : Answer(ok)
  \/ Start \/ Stop \/ Shutdown \/ Ends

(* Tasks that can go on do, and time limits expire: the scheduler and the      *)
(* clock see to it.  Nothing is assumed of when a request is done, of when a   *)
(* client writes or gives up, or of starts and stops.                          *)
Spec ==
  /\ Init /\ [][Next]_vars
  /\ \A c \in Client : WF_vars(Accept(c)) /\ WF_vars(handle_connection(c))
                       /\ WF_vars(Receive(c))
  /\ WF_vars(Take) /\ WF_vars(Ends)
-------------------------------------------------------------------------------
Active == {c \in Client : conn[c] \in Busy}

(* The daemon's flags agree with each other, a stopped process serves nobody,  *)
(* and the channel keeps to its capacity.                                      *)
TypeOK ==
  /\ process \in {"down", "running", "stopping"}
  /\ process = "down" => ~listening /\ ~runtime /\ Active = {}
  /\ process = "running" => listening /\ runtime
  /\ listening <=> socket = "bound"
  /\ permits \in 0..MaxClients
  /\ conn \in [Client -> {"none", "queued"} \cup Busy \cup Ended]
  /\ response \in [Client -> {None, "ok", "error"}]
  /\ control \in Seq(Client) /\ Len(control) <= ControlBuffer
  /\ handling \in Client \cup {None}
  /\ ~runtime => control = <<>> /\ handling = None
  /\ client \in [Client -> {"idle", "connected", "waiting", "left"}]
  /\ message \in [Client -> Message \cup {None}]
  /\ applied \in Seq(Client) /\ outcome \in [Client -> {None, "ok", "error"}]

(* serve: however connections end, every permit is either free or held by one  *)
(* task, so that refused clients are refused for a full house only.            *)
PermitsConserved == permits + Cardinality(Active) = MaxClients

Called(c) == CASE client[c] = "idle" -> "idle"
               [] client[c] = "left" -> "closed"
               [] OTHER -> "open"

Told(c) == CASE reply[c] = None -> None
             [] reply[c] = "ok" -> "ok"
             [] reply[c] = "unreachable" -> "rejected"
             [] reply[c] = "error" -> IF outcome[c] = None THEN "rejected" ELSE "error"
             [] OTHER -> "unknown"

Service == INSTANCE ControlService
             WITH call <- [c \in Client |-> Called(c)],
                  reply <- [c \in Client |-> Told(c)]

(* handle_connection, send: through time limits on both sides, lost answers,   *)
(* refused connections, shutdowns and restarts, a request is handled at most   *)
(* once, an answer is that of the client's own request, and a client that was  *)
(* refused by the protocol never has its request handled.                      *)
ImplementsService == Service!Spec

(* timeout(CLIENT_TIMEOUT, ..): silent clients, a full channel or a runtime    *)
(* that never answers do not keep a permit for ever.                           *)
PermitsReturn == []<>(permits = MaxClients)

(* main: after a signal the process ends, if the runtime is not kept for ever  *)
(* by one request, whatever the clients do.                                    *)
ShutdownEnds == []<>(handling = None) => ((process = "stopping") ~> (process = "down"))
===============================================================================
