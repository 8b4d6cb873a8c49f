------------------------- MODULE ControlServerProofs --------------------------
(* Proofs about ControlServer, for any number of clients, permits and slots of *)
(* the channel and any number of restarts: no permit is lost, and the server   *)
(* implements ControlService.                                                  *)
EXTENDS ControlServer, FiniteSetTheorems, TLAPS

Fresh == {"none", "queued", "reading", "sending"}
Replies == {None, "ok", "error", "unusable", "closed", "timeout", "unreachable"}
IsApplied(c) == \E i \in DOMAIN applied : applied[i] = c

(* One client's request: not handed over before it was read; handed over once; *)
(* what its connection has to say is what handle_control made of it, or a      *)
(* refusal of a request that never gets there.                                 *)
Fits(c) ==
  /\ conn[c] \in Fresh => ~InChannel(c) /\ ~IsApplied(c) /\ response[c] = None
  /\ conn[c] \in {"writing", "answered"} => response[c] # None
  /\ InChannel(c) => ~IsApplied(c) /\ response[c] = None
  /\ IsApplied(c) => response[c] \in {None, outcome[c]}
  /\ outcome[c] # None \/ response[c] = "ok" => IsApplied(c)
  /\ reply[c] \in Replies /\ (client[c] = "left" <=> reply[c] # None)
  /\ client[c] = "idle" => conn[c] = "none"
  /\ conn[c] = "none" => client[c] \in {"idle", "left"}
  /\ reply[c] \in {"ok", "error"} => conn[c] = "answered" /\ response[c] = reply[c]
  /\ reply[c] = "unreachable" => conn[c] = "none"

(* A request is in the channel once, and the one that is handled has left it.  *)
Orderly ==
  /\ \A i, j \in DOMAIN control : control[i] = control[j] => i = j
  /\ handling # None => IsApplied(handling) /\ outcome[handling] = None

IInv ==
  /\ TypeOK /\ reply \in [Client -> Replies]
  /\ PermitsConserved /\ Orderly /\ \A c \in Client : Fits(c)

LEMMA NoneIsNoWord ==
  /\ None # "ok" /\ None # "error" /\ None # "unusable" /\ None # "closed"
  /\ None # "timeout" /\ None # "unreachable" /\ None # "rejected" /\ None # "unknown"
BY ServerAssumption

LEMMA StartsRight == Init => IInv
<1> SUFFICES ASSUME Init PROVE IInv
  OBVIOUS
<1>1. Active = {}
  BY DEF Init, Active, Busy
<1>2. TypeOK
  BY <1>1, ServerAssumption DEF Init, TypeOK
<1>3. reply \in [Client -> Replies]
  BY DEF Init, Replies
<1>4. PermitsConserved
  BY <1>1, FS_EmptySet, ServerAssumption DEF PermitsConserved, Init
<1>5. Orderly
  BY DEF Init, Orderly
<1>6. ASSUME NEW c \in Client PROVE Fits(c)
  <2>1. ~InChannel(c) /\ ~IsApplied(c)
    BY DEF Init, InChannel, IsApplied
  <2>2. QED
    BY <2>1, NoneIsNoWord DEF Init, Fits, Replies, Fresh
<1>7. QED
  BY <1>2, <1>3, <1>4, <1>5, <1>6 DEF IInv

-------------------------------------------------------------------------------
(* What a step leaves alone                                                    *)
LEMMA FitsStays ==
  ASSUME NEW c, Fits(c), conn'[c] = conn[c], response'[c] = response[c],
         outcome'[c] = outcome[c], reply'[c] = reply[c], client'[c] = client[c],
         InChannel(c)' => InChannel(c), IsApplied(c)' <=> IsApplied(c)
  PROVE  Fits(c)'
BY DEF Fits

LEMMA OrderlyStays ==
  ASSUME Orderly, UNCHANGED <<control, handling, applied, outcome>>
  PROVE  Orderly'
BY DEF Orderly, IsApplied

LEMMA ChannelStays ==
  ASSUME NEW c, UNCHANGED <<control, applied>>
  PROVE  (InChannel(c)' <=> InChannel(c)) /\ (IsApplied(c)' <=> IsApplied(c))
BY DEF InChannel, IsApplied

LEMMA ActiveIsFinite == IsFiniteSet(Active) /\ Cardinality(Active) \in Nat
<1>1. Active \subseteq Client
  BY DEF Active
<1>2. QED
  BY <1>1, ServerAssumption, FS_Subset, FS_CardinalityType

(* The steps of a connection that keep, take and return a permit.              *)
LEMMA PermitsStay ==
  ASSUME IInv, UNCHANGED permits, Active' = Active
  PROVE  PermitsConserved'
BY DEF IInv, PermitsConserved

LEMMA GotoStep ==
  ASSUME IInv, NEW d \in Client, NEW to \in Fresh \cup Busy \cup Ended, Goto(d, to),
         conn[d] \in Busy <=> to \in Busy
  PROVE  /\ PermitsConserved' /\ UNCHANGED permits /\ Active' = Active
         /\ conn' \in [Client -> {"none", "queued"} \cup Busy \cup Ended]
         /\ conn'[d] = to /\ \A c \in Client \ {d} : conn'[c] = conn[c]
<1>1. conn \in [Client -> {"none", "queued"} \cup Busy \cup Ended]
  BY DEF IInv, TypeOK
<1>2. /\ conn' \in [Client -> {"none", "queued"} \cup Busy \cup Ended]
      /\ conn'[d] = to /\ \A c \in Client \ {d} : conn'[c] = conn[c]
  BY <1>1 DEF Goto, Fresh, Busy
<1>3. Active' = Active
  BY <1>2 DEF Active
<1>4. QED
  BY <1>2, <1>3, PermitsStay DEF Goto

LEMMA EndStep ==
  ASSUME IInv, NEW d \in Client, NEW how \in Ended, End(d, how), conn[d] \in Busy
  PROVE  /\ PermitsConserved' /\ permits' \in 0..MaxClients /\ Active' \subseteq Active
         /\ conn' \in [Client -> {"none", "queued"} \cup Busy \cup Ended]
         /\ conn'[d] = how /\ \A c \in Client \ {d} : conn'[c] = conn[c]
<1>1. /\ conn \in [Client -> {"none", "queued"} \cup Busy \cup Ended]
      /\ permits \in Nat /\ permits + Cardinality(Active) = MaxClients
  BY ServerAssumption DEF IInv, TypeOK, PermitsConserved
<1>2. /\ conn' \in [Client -> {"none", "queued"} \cup Busy \cup Ended]
      /\ conn'[d] = how /\ \A c \in Client \ {d} : conn'[c] = conn[c]
      /\ permits' = permits + 1
  BY <1>1 DEF End
<1>3. Active' = Active \ {d} /\ d \in Active
  BY <1>2 DEF Active, Busy, Ended
<1>4. Cardinality(Active') = Cardinality(Active) - 1 /\ Cardinality(Active') \in Nat
  BY <1>3, ActiveIsFinite, FS_RemoveElement, FS_CardinalityType
<1>5. permits' + Cardinality(Active') = MaxClients /\ permits' \in 0..MaxClients
  BY <1>1, <1>2, <1>4, ActiveIsFinite, ServerAssumption
<1>6. QED
  BY <1>2, <1>3, <1>5 DEF PermitsConserved

-------------------------------------------------------------------------------
(* The client                                                                  *)
LEMMA ConnectStep == ASSUME IInv, NEW d \in Client, Connect(d) PROVE IInv'
<1>1. /\ UNCHANGED <<process, listening, runtime, socket, permits, response, control, handling,
                     reply, applied, outcome>>
      /\ client[d] = "idle" /\ listening
      /\ client' = [client EXCEPT ![d] = "connected"]
      /\ conn' = [conn EXCEPT ![d] = "queued"]
  BY DEF Connect, daemon, channel, history
<1>2. conn[d] = "none"
  BY <1>1 DEF IInv, Fits
<1>3. Goto(d, "queued") /\ "queued" \notin Busy /\ conn[d] \notin Busy
  BY <1>1, <1>2 DEF Goto, Busy
<1>4. /\ PermitsConserved' /\ Active' = Active
      /\ conn' \in [Client -> {"none", "queued"} \cup Busy \cup Ended]
      /\ conn'[d] = "queued" /\ \A c \in Client \ {d} : conn'[c] = conn[c]
  BY <1>3, GotoStep DEF Fresh
<1>5. /\ client' \in [Client -> {"idle", "connected", "waiting", "left"}]
      /\ client'[d] = "connected" /\ \A c \in Client \ {d} : client'[c] = client[c]
  BY <1>1 DEF IInv, TypeOK
<1>6. message' \in [Client -> Message \cup {None}]
  BY DEF Connect, IInv, TypeOK
<1>7. TypeOK' /\ reply' \in [Client -> Replies]
  BY <1>1, <1>4, <1>5, <1>6 DEF IInv, TypeOK
<1>8. Orderly'
  BY <1>1, OrderlyStays DEF IInv
<1>9. ASSUME NEW c \in Client PROVE Fits(c)'
  <2>1. Fits(c) /\ (InChannel(c)' <=> InChannel(c)) /\ (IsApplied(c)' <=> IsApplied(c))
    BY <1>1, ChannelStays DEF IInv
  <2>2. CASE c = d
    BY <1>1, <1>2, <1>4, <1>5, <2>1, <2>2, NoneIsNoWord DEF Fits, Fresh
  <2>3. CASE c # d
    BY <1>1, <1>4, <1>5, <2>1, <2>3, FitsStays
  <2>4. QED
    BY <2>2, <2>3
<1>10. QED
  BY <1>4, <1>7, <1>8, <1>9 DEF IInv

(* A step of a client that touches only the client.                            *)
LEMMA ClientStep ==
  ASSUME IInv, NEW d \in Client,
         UNCHANGED <<process, listening, runtime, socket, permits, conn, response, control,
                     handling, applied, outcome>>,
         message' \in [Client -> Message \cup {None}],
         NEW to \in {"waiting", "left"}, client' = [client EXCEPT ![d] = to],
         NEW r \in Replies, reply' = [reply EXCEPT ![d] = r],
         to = "left" <=> r # None,
         r \in {"ok", "error"} => conn[d] = "answered" /\ response[d] = r,
         r = "unreachable" <=> conn[d] = "none"
  PROVE  IInv'
<1>1. Active' = Active
  BY DEF Active
<1>2. /\ client' \in [Client -> {"idle", "connected", "waiting", "left"}]
      /\ client'[d] = to /\ \A c \in Client \ {d} : client'[c] = client[c]
  BY DEF IInv, TypeOK
<1>3. /\ reply' \in [Client -> Replies]
      /\ reply'[d] = r /\ \A c \in Client \ {d} : reply'[c] = reply[c]
  BY DEF IInv
<1>4. TypeOK' /\ PermitsConserved' /\ Orderly'
  BY <1>1, <1>2, PermitsStay, OrderlyStays DEF IInv, TypeOK
<1>5. ASSUME NEW c \in Client PROVE Fits(c)'
  <2>1. Fits(c) /\ (InChannel(c)' <=> InChannel(c)) /\ (IsApplied(c)' <=> IsApplied(c))
    BY ChannelStays DEF IInv
  <2>2. CASE c = d
    BY <1>2, <1>3, <2>1, <2>2, NoneIsNoWord DEF Fits
  <2>3. CASE c # d
    BY <1>2, <1>3, <2>1, <2>3, FitsStays
  <2>4. QED
    BY <2>2, <2>3
<1>6. QED
  BY <1>3, <1>4, <1>5 DEF IInv

LEMMA ConnectFailsStep == ASSUME IInv, NEW d \in Client, ConnectFails(d) PROVE IInv'
<1>1. conn[d] = "none" /\ message \in [Client -> Message \cup {None}]
  BY DEF IInv, Fits, TypeOK, ConnectFails
<1>2. QED
  BY <1>1, ClientStep, NoneIsNoWord
  DEF ConnectFails, Leaves, Replies, daemon, server, channel, history

LEMMA WriteStep == ASSUME IInv, NEW d \in Client, Write(d) PROVE IInv'
<1>1. /\ UNCHANGED <<process, listening, runtime, socket, permits, conn, response, control,
                     handling, message, reply, applied, outcome>>
      /\ client[d] = "connected" /\ client' = [client EXCEPT ![d] = "waiting"]
  BY DEF Write, daemon, server, channel, history
<1>2. /\ conn[d] # "none" /\ reply[d] = None /\ reply \in [Client -> Replies]
      /\ message \in [Client -> Message \cup {None}]
  BY <1>1 DEF IInv, Fits, TypeOK
<1>3. reply' = [reply EXCEPT ![d] = None]
  BY <1>1, <1>2
<1>4. QED
  BY <1>1, <1>2, <1>3, ClientStep, NoneIsNoWord DEF Replies

LEMMA ReceiveStep == ASSUME IInv, NEW d \in Client, Receive(d) PROVE IInv'
<1>1. /\ UNCHANGED <<process, listening, runtime, socket, permits, conn, response, control,
                     handling, message, applied, outcome>>
      /\ message \in [Client -> Message \cup {None}] /\ conn[d] # "none"
  BY DEF Receive, daemon, server, channel, history, Ended, IInv, TypeOK
<1>2. PICK r : /\ Leaves(d, r)
               /\ r \in {"unusable", "closed"} \/ (r = response[d] /\ conn[d] = "answered")
  BY DEF Receive
<1>3. conn[d] = "answered" => response[d] \in {"ok", "error"}
  BY DEF IInv, Fits, TypeOK
<1>4. r \in Replies /\ r # None /\ r # "unreachable"
      /\ (r \in {"ok", "error"} => conn[d] = "answered" /\ response[d] = r)
  BY <1>2, <1>3, NoneIsNoWord DEF Replies
<1>5. client' = [client EXCEPT ![d] = "left"] /\ reply' = [reply EXCEPT ![d] = r]
  BY <1>2 DEF Leaves
<1>6. QED
  BY <1>1, <1>4, <1>5, ClientStep

LEMMA GiveUpStep == ASSUME IInv, NEW d \in Client, GiveUp(d) PROVE IInv'
<1>1. /\ UNCHANGED <<process, listening, runtime, socket, permits, conn, response, control,
                     handling, applied, outcome>>
      /\ client' = [client EXCEPT ![d] = "left"] /\ reply' = [reply EXCEPT ![d] = "timeout"]
      /\ client[d] \in {"connected", "waiting"}
  BY DEF GiveUp, Leaves, daemon, server, channel, history
<1>2. message' \in [Client -> Message \cup {None}]
  BY DEF GiveUp, IInv, TypeOK, Message
<1>3. conn[d] # "none"
  BY <1>1 DEF IInv, Fits
<1>4. QED
  BY <1>1, <1>2, <1>3, ClientStep, NoneIsNoWord DEF Replies

-------------------------------------------------------------------------------
(* The accept loop and the tasks.  A step of one task, but for its hand-over:  *)
LEMMA ConnStep ==
  ASSUME IInv, NEW d \in Client, NEW to \in Fresh \cup Busy \cup Ended,
         UNCHANGED <<process, listening, runtime, socket, control, handling, client, message,
                     reply, applied, outcome>>,
         PermitsConserved', permits' \in 0..MaxClients, listening \/ Active' \subseteq Active,
         conn' \in [Client -> {"none", "queued"} \cup Busy \cup Ended],
         conn'[d] = to, \A c \in Client \ {d} : conn'[c] = conn[c],
         NEW r \in {None, "ok", "error"}, response' = [response EXCEPT ![d] = r],
         conn[d] \notin {"none", "answered"}, to # "none",
         to \in Fresh => conn[d] \in Fresh /\ r = None,
         to \in {"writing", "answered"} => r # None,
         r = response[d] \/ (conn[d] \in Fresh /\ r # "ok")
  PROVE  IInv'
<1>1. /\ response' \in [Client -> {None, "ok", "error"}]
      /\ response'[d] = r /\ \A c \in Client \ {d} : response'[c] = response[c]
  BY DEF IInv, TypeOK
<1>2. TypeOK' /\ reply' \in [Client -> Replies]
  BY <1>1 DEF IInv, TypeOK
<1>3. Orderly'
  BY OrderlyStays DEF IInv
<1>4. ASSUME NEW c \in Client PROVE Fits(c)'
  <2>1. Fits(c) /\ (InChannel(c)' <=> InChannel(c)) /\ (IsApplied(c)' <=> IsApplied(c))
    BY ChannelStays DEF IInv
  <2>2. CASE c = d
    BY <1>1, <2>1, <2>2 DEF Fits
  <2>3. CASE c # d
    BY <1>1, <2>1, <2>3, FitsStays
  <2>4. QED
    BY <2>2, <2>3
<1>5. QED
  BY <1>2, <1>3, <1>4 DEF IInv

(* The same for a response that stays.                                         *)
LEMMA QuietStep ==
  ASSUME IInv, NEW d \in Client, NEW to \in Fresh \cup Busy \cup Ended,
         UNCHANGED <<process, listening, runtime, socket, control, handling, client, message,
                     reply, applied, outcome, response>>,
         PermitsConserved', permits' \in 0..MaxClients, listening \/ Active' \subseteq Active,
         conn' \in [Client -> {"none", "queued"} \cup Busy \cup Ended],
         conn'[d] = to, \A c \in Client \ {d} : conn'[c] = conn[c],
         conn[d] \notin {"none", "answered"}, to # "none",
         to \in Fresh => conn[d] \in Fresh,
         to \in {"writing", "answered"} => response[d] # None
  PROVE  IInv'
<1>1. response \in [Client -> {None, "ok", "error"}]
  BY DEF IInv, TypeOK
<1>2. response' = [response EXCEPT ![d] = response[d]] /\ response[d] \in {None, "ok", "error"}
  BY <1>1
<1>3. conn[d] \in Fresh => response[d] = None
  BY DEF IInv, Fits
<1>4. QED
  BY <1>2, <1>3, ConnStep

LEMMA AcceptStep == ASSUME IInv, NEW d \in Client, Accept(d) PROVE IInv'
<1> USE DEF Fresh, Busy, Ended
<1>1. /\ UNCHANGED <<process, listening, runtime, socket, control, handling, client, message,
                     reply, applied, outcome, response>>
      /\ listening /\ conn[d] = "queued"
  BY DEF Accept, daemon, channel, clients, history
<1>2. CASE permits > 0
  <2>1. conn' = [conn EXCEPT ![d] = "reading"] /\ permits' = permits - 1
    BY <1>2 DEF Accept
  <2>2. /\ conn \in [Client -> {"none", "queued"} \cup Busy \cup Ended]
        /\ permits \in 0..MaxClients /\ permits + Cardinality(Active) = MaxClients
    BY DEF IInv, TypeOK, PermitsConserved
  <2>3. /\ conn' \in [Client -> {"none", "queued"} \cup Busy \cup Ended]
        /\ conn'[d] = "reading" /\ \A c \in Client \ {d} : conn'[c] = conn[c]
    BY <2>1, <2>2
  <2>4. Active' = Active \cup {d} /\ d \notin Active
    BY <1>1, <2>3 DEF Active
  <2>5. Cardinality(Active') = Cardinality(Active) + 1
    BY <2>4, ActiveIsFinite, FS_AddElement
  <2>6. permits' + Cardinality(Active') = MaxClients /\ permits' \in 0..MaxClients
    BY <1>2, <2>1, <2>2, <2>5, ActiveIsFinite, ServerAssumption
  <2>7. PermitsConserved'
    BY <2>6 DEF PermitsConserved
  <2>8. QED
    BY <1>1, <2>3, <2>6, <2>7, QuietStep
<1>3. CASE ~(permits > 0)
  <2>1. Goto(d, "closed")
    BY <1>3 DEF Accept
  <2>2. permits \in 0..MaxClients
    BY DEF IInv, TypeOK
  <2>3. QED
    BY <1>1, <2>1, <2>2, GotoStep, QuietStep
<1>4. QED
  BY <1>2, <1>3

(* The ways a task ends, and its ways on without an answer.                    *)
LEMMA EndsQuietly ==
  ASSUME IInv, NEW d \in Client, NEW how \in Ended, End(d, how), conn[d] \in Busy,
         UNCHANGED <<process, listening, runtime, socket, control, handling, client, message,
                     reply, applied, outcome, response>>,
         how = "answered" => response[d] # None
  PROVE  IInv'
<1> USE DEF Fresh, Busy, Ended
<1>1. QED
  BY EndStep, QuietStep

LEMMA GoesOn ==
  ASSUME IInv, NEW d \in Client, NEW to \in Busy, Goto(d, to), conn[d] \in Busy,
         UNCHANGED <<process, listening, runtime, socket, control, handling, client, message,
                     reply, applied, outcome, response>>,
         to = "writing" => response[d] # None,
         to \in Fresh => conn[d] \in Fresh
  PROVE  IInv'
<1> USE DEF Fresh, Busy, Ended
<1>1. permits \in 0..MaxClients
  BY DEF IInv, TypeOK
<1>2. QED
  BY <1>1, GotoStep, QuietStep

LEMMA ReadRequestStep == ASSUME IInv, NEW d \in Client, ReadRequest(d) PROVE IInv'
<1> USE DEF Fresh, Busy, Ended
<1>1. /\ UNCHANGED <<process, listening, runtime, socket, control, handling, client, message,
                     reply, applied, outcome>>
      /\ conn[d] = "reading"
  BY DEF ReadRequest, daemon, channel, clients, history
<1>2. CASE End(d, "closed") /\ UNCHANGED response
  BY <1>1, <1>2, EndsQuietly
<1>3. CASE Goto(d, "writing") /\ response' = [response EXCEPT ![d] = "error"]
  <2>1. permits \in 0..MaxClients
    BY DEF IInv, TypeOK
  <2>2. QED
    BY <1>1, <1>3, <2>1, GotoStep, ConnStep, NoneIsNoWord
<1>4. CASE Goto(d, "sending") /\ UNCHANGED response
  BY <1>1, <1>4, GoesOn
<1>5. QED
  BY <1>2, <1>3, <1>4 DEF ReadRequest

LEMMA SendStep == ASSUME IInv, NEW d \in Client, Send(d) PROVE IInv'
<1> USE DEF Fresh, Busy, Ended
<1>1. /\ UNCHANGED <<process, listening, runtime, socket, handling, client, message,
                     reply, applied, outcome, response>>
      /\ conn[d] = "sending"
  BY DEF Send, daemon, clients, history
<1>2. CASE End(d, "closed") /\ UNCHANGED control
  BY <1>1, <1>2, EndsQuietly
<1>3. CASE /\ runtime /\ Len(control) < ControlBuffer
           /\ control' = Append(control, d) /\ Goto(d, "awaiting")
  <2>1. /\ PermitsConserved' /\ UNCHANGED permits /\ Active' = Active
        /\ conn' \in [Client -> {"none", "queued"} \cup Busy \cup Ended]
        /\ conn'[d] = "awaiting" /\ \A c \in Client \ {d} : conn'[c] = conn[c]
    BY <1>1, <1>3, GotoStep
  <2>2. control \in Seq(Client) /\ control' \in Seq(Client) /\ Len(control') <= ControlBuffer
    BY <1>3, ServerAssumption DEF IInv, TypeOK
  <2>3. TypeOK' /\ reply' \in [Client -> Replies]
    BY <1>1, <1>3, <2>1, <2>2 DEF IInv, TypeOK
  <2>4. /\ Len(control') = Len(control) + 1 /\ control'[Len(control')] = d
        /\ \A i \in 1..Len(control) : control'[i] = control[i]
        /\ Len(control) \in Nat /\ DOMAIN control = 1..Len(control)
        /\ DOMAIN control' = 1..(Len(control) + 1)
    BY <1>3, <2>2
  <2>5. ~InChannel(d) /\ ~IsApplied(d) /\ response[d] = None
    BY <1>1 DEF IInv, Fits
  <2>6. \A c \in Client \ {d} : InChannel(c)' => InChannel(c)
    BY <2>4 DEF InChannel
  <2>7. \A c \in Client : IsApplied(c)' <=> IsApplied(c)
    BY <1>1 DEF IsApplied
  <2>8. Orderly'
    <3>1. \A i \in 1..Len(control) : control[i] # d
      BY <2>4, <2>5 DEF InChannel
    <3>2. ASSUME NEW i \in DOMAIN control', NEW j \in DOMAIN control', control'[i] = control'[j]
          PROVE  i = j
      BY <2>4, <3>1, <3>2 DEF IInv, Orderly
    <3>3. handling' # None => IsApplied(handling)' /\ outcome'[handling'] = None
      BY <1>1 DEF IInv, Orderly, IsApplied
    <3>4. QED
      BY <3>2, <3>3 DEF Orderly
  <2>9. ASSUME NEW c \in Client PROVE Fits(c)'
    <3>1. Fits(c)
      BY DEF IInv
    <3>2. CASE c = d
      BY <1>1, <2>1, <2>5, <2>7, <3>1, <3>2 DEF Fits
    <3>3. CASE c # d
      BY <1>1, <2>1, <2>6, <2>7, <3>1, <3>3, FitsStays
    <3>4. QED
      BY <3>2, <3>3
  <2>10. QED
    BY <2>1, <2>3, <2>8, <2>9 DEF IInv
<1>4. QED
  BY <1>2, <1>3 DEF Send

LEMMA OtherTaskSteps ==
  ASSUME IInv, NEW d \in Client, AwaitResponse(d) \/ write_response(d) \/ TimeOut(d)
  PROVE  IInv'
<1> USE DEF Fresh, Busy, Ended
<1>1. UNCHANGED <<process, listening, runtime, socket, control, handling, client, message,
                  reply, applied, outcome, response>>
  BY DEF AwaitResponse, write_response, TimeOut, daemon, channel, clients, history
<1>2. CASE AwaitResponse(d)
  BY <1>1, <1>2, GoesOn, EndsQuietly DEF AwaitResponse
<1>3. CASE write_response(d)
  <2>1. conn[d] = "writing" /\ response[d] # None
    BY <1>3 DEF write_response, IInv, Fits
  <2>2. PICK how \in {"closed", "answered"} : End(d, how)
    BY <1>3 DEF write_response
  <2>3. QED
    BY <1>1, <2>1, <2>2, EndsQuietly
<1>4. CASE TimeOut(d)
  BY <1>1, <1>4, EndsQuietly DEF TimeOut
<1>5. QED
  BY <1>2, <1>3, <1>4

-------------------------------------------------------------------------------
(* The runtime                                                                 *)
LEMMA TakeStep == ASSUME IInv, Take PROVE IInv'
<1>0. PICK d \in Client : d = Head(control)
  BY DEF Take, IInv, TypeOK
<1>1. /\ UNCHANGED <<process, listening, runtime, socket, permits, conn, response, client,
                     message, reply, outcome>>
      /\ runtime /\ handling = None /\ control # <<>>
      /\ handling' = d /\ control' = Tail(control) /\ applied' = Append(applied, d)
  BY <1>0 DEF Take, daemon, server, clients
<1>2. control \in Seq(Client) /\ applied \in Seq(Client) /\ Len(control) <= ControlBuffer
  BY DEF IInv, TypeOK
<1>3. /\ d \in Client /\ d = control[1] /\ 1 \in DOMAIN control
      /\ control' \in Seq(Client) /\ Len(control') <= ControlBuffer
      /\ applied' \in Seq(Client)
  BY <1>0, <1>1, <1>2, ServerAssumption
<1>4. Active' = Active
  BY <1>1 DEF Active
<1>5. TypeOK' /\ reply' \in [Client -> Replies]
  BY <1>1, <1>3, <1>4 DEF IInv, TypeOK
<1>6. PermitsConserved'
  BY <1>1, <1>4, PermitsStay
<1>7. \A i \in DOMAIN control' : i + 1 \in DOMAIN control /\ control'[i] = control[i + 1] /\ i # 0
  BY <1>1, <1>2
<1>8. InChannel(d) /\ ~InChannel(d)' /\ \A c \in Client : InChannel(c)' => InChannel(c)
  <2>1. InChannel(d)
    BY <1>3 DEF InChannel
  <2>2. ASSUME NEW i \in DOMAIN control', control'[i] = d PROVE FALSE
    <3>1. i + 1 = 1
      BY <1>3, <1>7, <2>2 DEF IInv, Orderly
    <3>2. i \in Nat
      BY <1>3
    <3>3. QED
      BY <1>7, <3>1, <3>2
  <2>3. \A c \in Client : InChannel(c)' => InChannel(c)
    BY <1>7 DEF InChannel
  <2>4. QED
    BY <2>1, <2>2, <2>3 DEF InChannel
<1>9. IsApplied(d)' /\ \A c \in Client \ {d} : IsApplied(c)' <=> IsApplied(c)
  <2>1. /\ Len(applied) \in Nat /\ DOMAIN applied = 1..Len(applied)
        /\ DOMAIN applied' = 1..(Len(applied) + 1) /\ applied'[Len(applied) + 1] = d
        /\ \A i \in 1..Len(applied) : applied'[i] = applied[i]
    BY <1>1, <1>2, <1>3
  <2>2. QED
    BY <2>1 DEF IsApplied
<1>10. ~IsApplied(d) /\ response[d] = None /\ outcome[d] = None /\ conn[d] \notin Fresh
  BY <1>3, <1>8 DEF IInv, Fits
<1>11. Orderly'
  <2>1. ASSUME NEW i \in DOMAIN control', NEW j \in DOMAIN control', control'[i] = control'[j]
        PROVE  i = j
    <3>1. i + 1 = j + 1
      BY <1>7, <2>1 DEF IInv, Orderly
    <3>2. i \in Nat /\ j \in Nat
      BY <1>3
    <3>3. QED
      BY <3>1, <3>2
  <2>2. handling' = d /\ IsApplied(d)' /\ outcome'[d] = None
    BY <1>1, <1>9, <1>10
  <2>3. IsApplied(handling)'
    BY <2>2 DEF IsApplied
  <2>4. QED
    BY <2>1, <2>2, <2>3 DEF Orderly
<1>12. ASSUME NEW c \in Client PROVE Fits(c)'
  <2>1. Fits(c)
    BY DEF IInv
  <2>2. CASE c = d
    BY <1>1, <1>8, <1>9, <1>10, <2>1, <2>2 DEF Fits
  <2>3. CASE c # d
    BY <1>1, <1>8, <1>9, <2>1, <2>3, FitsStays
  <2>4. QED
    BY <2>2, <2>3
<1>13. QED
  BY <1>5, <1>6, <1>11, <1>12 DEF IInv

LEMMA AnswerStep == ASSUME IInv, NEW ok \in {"ok", "error"}, Answer(ok) PROVE IInv'
<1> DEFINE d == handling
<1>1. /\ UNCHANGED <<process, listening, runtime, socket, permits, conn, control, client,
                     message, reply, applied>>
      /\ d # None /\ outcome' = [outcome EXCEPT ![d] = ok] /\ handling' = None
      /\ response' = IF conn[d] = "awaiting" THEN [response EXCEPT ![d] = ok] ELSE response
  BY DEF Answer, daemon, clients
<1>2. /\ d \in Client /\ outcome \in [Client -> {None, "ok", "error"}]
      /\ response \in [Client -> {None, "ok", "error"}]
  BY <1>1 DEF IInv, TypeOK
<1>3. IsApplied(d) /\ outcome[d] = None /\ response[d] = None /\ conn[d] \notin Fresh
      /\ ~InChannel(d)
  BY <1>1, <1>2 DEF IInv, Orderly, Fits
<1>4. /\ outcome' \in [Client -> {None, "ok", "error"}] /\ outcome'[d] = ok
      /\ response' \in [Client -> {None, "ok", "error"}] /\ response'[d] \in {None, ok}
      /\ \A c \in Client \ {d} : outcome'[c] = outcome[c] /\ response'[c] = response[c]
  BY <1>1, <1>2, <1>3
<1>5. Active' = Active
  BY <1>1 DEF Active
<1>6. TypeOK' /\ reply' \in [Client -> Replies]
  BY <1>1, <1>4, <1>5 DEF IInv, TypeOK
<1>7. PermitsConserved' /\ Orderly'
  BY <1>1, <1>5, PermitsStay DEF IInv, Orderly
<1>8. ASSUME NEW c \in Client PROVE Fits(c)'
  <2>1. Fits(c) /\ (InChannel(c)' <=> InChannel(c)) /\ (IsApplied(c)' <=> IsApplied(c))
    BY <1>1, ChannelStays DEF IInv
  <2>2. CASE c = d
    <3>1. conn[d] \notin {"writing", "answered"}
      BY <1>3, <2>1, <2>2 DEF Fits
    <3>2. QED
      BY <1>1, <1>3, <1>4, <2>1, <2>2, <3>1, NoneIsNoWord DEF Fits
  <2>3. CASE c # d
    BY <1>1, <1>4, <2>1, <2>3, FitsStays
  <2>4. QED
    BY <2>2, <2>3
<1>9. QED
  BY <1>6, <1>7, <1>8 DEF IInv

-------------------------------------------------------------------------------
(* main                                                                        *)
LEMMA StartStep == ASSUME IInv, Start \/ Shutdown PROVE IInv'
<1>1. UNCHANGED <<permits, conn, response, control, handling, client, message, reply, applied,
                  outcome>>
  BY DEF Start, Shutdown, server, channel, clients, history
<1>2. Active' = Active
  BY <1>1 DEF Active
<1>3. TypeOK' /\ reply' \in [Client -> Replies]
  BY <1>1, <1>2 DEF IInv, TypeOK, Start, Shutdown
<1>4. PermitsConserved' /\ Orderly'
  BY <1>1, <1>2, PermitsStay, OrderlyStays DEF IInv
<1>5. ASSUME NEW c \in Client PROVE Fits(c)'
  BY <1>1, ChannelStays, FitsStays DEF IInv
<1>6. QED
  BY <1>3, <1>4, <1>5 DEF IInv

LEMMA GoneStep ==
  ASSUME IInv, Gone, process # "down",
         (socket' = IF socket = "bound" THEN "stale" ELSE socket) \/ (~listening /\ UNCHANGED socket)
  PROVE  IInv'
<1> USE DEF Fresh, Busy, Ended
<1>1. /\ UNCHANGED <<response, client, message, reply, applied, outcome>>
      /\ conn' = [c \in Client |-> Cut(c)] /\ permits' = MaxClients
      /\ control' = <<>> /\ handling' = None
      /\ process' = "down" /\ listening' = FALSE /\ runtime' = FALSE
  BY DEF Gone, clients, history
<1>2. conn \in [Client -> {"none", "queued"} \cup Busy \cup Ended]
  BY DEF IInv, TypeOK
<1>3. \A c \in Client : conn'[c] = IF conn[c] \in Busy \cup {"queued"} THEN "closed" ELSE conn[c]
  BY <1>1 DEF Cut
<1>4. Active' = {} /\ conn' \in [Client -> {"none", "queued"} \cup Busy \cup Ended]
  BY <1>1, <1>2, <1>3 DEF Active, Cut
<1>5. socket' # "bound"
  BY DEF IInv, TypeOK
<1>6. TypeOK' /\ reply' \in [Client -> Replies]
  BY <1>1, <1>4, <1>5, ServerAssumption DEF IInv, TypeOK
<1>7. PermitsConserved'
  BY <1>1, <1>4, FS_EmptySet, ServerAssumption DEF PermitsConserved
<1>8. Orderly'
  BY <1>1 DEF Orderly
<1>9. ASSUME NEW c \in Client PROVE Fits(c)'
  <2>1. Fits(c) /\ ~InChannel(c)' /\ (IsApplied(c)' <=> IsApplied(c))
    BY <1>1 DEF IInv, InChannel, IsApplied
  <2>2. QED
    BY <1>1, <1>2, <1>3, <2>1 DEF Fits
<1>10. QED
  BY <1>6, <1>7, <1>8, <1>9 DEF IInv

LEMMA RuntimeEndsStep == ASSUME IInv, RuntimeEnds PROVE IInv'
<1>1. /\ UNCHANGED <<process, listening, socket, permits, conn, response, handling, client,
                     message, reply, applied, outcome>>
      /\ process = "stopping" /\ handling = None /\ runtime' = FALSE /\ control' = <<>>
  BY DEF RuntimeEnds, server, clients, history
<1>2. Active' = Active
  BY <1>1 DEF Active
<1>3. TypeOK' /\ reply' \in [Client -> Replies]
  BY <1>1, <1>2, ServerAssumption DEF IInv, TypeOK
<1>4. PermitsConserved' /\ Orderly'
  BY <1>1, <1>2, PermitsStay DEF Orderly
<1>5. ASSUME NEW c \in Client PROVE Fits(c)'
  <2>1. Fits(c) /\ ~InChannel(c)' /\ (IsApplied(c)' <=> IsApplied(c))
    BY <1>1 DEF IInv, InChannel, IsApplied
  <2>2. QED
    BY <1>1, <2>1, FitsStays
<1>6. QED
  BY <1>3, <1>4, <1>5 DEF IInv

LEMMA ServeEndsStep == ASSUME IInv, ServeEnds PROVE IInv'
<1> USE DEF Fresh, Busy, Ended
<1>1. /\ UNCHANGED <<process, runtime, permits, response, control, handling, client,
                     message, reply, applied, outcome>>
      /\ process = "stopping" /\ listening' = FALSE /\ socket' = "absent"
      /\ conn' = [c \in Client |-> IF conn[c] = "queued" THEN "closed" ELSE conn[c]]
  BY DEF ServeEnds, channel, clients, history
<1>2. conn \in [Client -> {"none", "queued"} \cup Busy \cup Ended]
  BY DEF IInv, TypeOK
<1>3. \A c \in Client : conn'[c] = IF conn[c] = "queued" THEN "closed" ELSE conn[c]
  BY <1>1
<1>4. Active' = Active /\ conn' \in [Client -> {"none", "queued"} \cup Busy \cup Ended]
  BY <1>1, <1>2, <1>3 DEF Active
<1>5. TypeOK' /\ reply' \in [Client -> Replies]
  BY <1>1, <1>4 DEF IInv, TypeOK
<1>6. PermitsConserved' /\ Orderly'
  BY <1>1, <1>4, PermitsStay, OrderlyStays DEF IInv
<1>7. ASSUME NEW c \in Client PROVE Fits(c)'
  <2>1. Fits(c) /\ (InChannel(c)' <=> InChannel(c)) /\ (IsApplied(c)' <=> IsApplied(c))
    BY <1>1, ChannelStays DEF IInv
  <2>2. QED
    BY <1>1, <1>3, <2>1 DEF Fits
<1>8. QED
  BY <1>5, <1>6, <1>7 DEF IInv

LEMMA StutterStep == ASSUME IInv, UNCHANGED vars PROVE IInv'
<1>1. UNCHANGED <<process, listening, runtime, socket, permits, conn, response, control, handling,
                  client, message, reply, applied, outcome>>
  BY DEF vars, daemon, server, channel, clients, history
<1>2. Active' = Active
  BY <1>1 DEF Active
<1>3. TypeOK' /\ reply' \in [Client -> Replies] /\ PermitsConserved' /\ Orderly'
  BY <1>1, <1>2, PermitsStay, OrderlyStays DEF IInv, TypeOK
<1>4. ASSUME NEW c \in Client PROVE Fits(c)'
  BY <1>1, ChannelStays, FitsStays DEF IInv
<1>5. QED
  BY <1>3, <1>4 DEF IInv

-------------------------------------------------------------------------------
(* The inductive invariant holds in every reachable state.                     *)
THEOREM Invariance == Spec => []IInv
<1>1. IInv /\ [Next]_vars => IInv'
  <2> SUFFICES ASSUME IInv, [Next]_vars PROVE IInv'
    OBVIOUS
  <2>1. ASSUME NEW c \in Client, send(c) PROVE IInv'
    BY <2>1, ConnectStep, ConnectFailsStep, WriteStep, ReceiveStep, GiveUpStep DEF send
  <2>2. ASSUME NEW c \in Client, Accept(c) \/ handle_connection(c) PROVE IInv'
    BY <2>2, AcceptStep, ReadRequestStep, SendStep, OtherTaskSteps DEF handle_connection
  <2>3. CASE Take \/ \E ok \in {"ok", "error"} : Answer(ok)
    BY <2>3, TakeStep, AnswerStep
  <2>4. CASE Start \/ Shutdown
    BY <2>4, StartStep
  <2>5. CASE Stop
    BY <2>5, GoneStep DEF Stop
  <2>6. CASE Exit
    BY <2>6, GoneStep DEF Exit
  <2>7. CASE RuntimeEnds \/ ServeEnds
    BY <2>7, RuntimeEndsStep, ServeEndsStep
  <2>8. CASE UNCHANGED vars
    BY <2>8, StutterStep
  <2>9. QED
    BY <2>1, <2>2, <2>3, <2>4, <2>5, <2>6, <2>7, <2>8 DEF Next, Ends
<1>2. QED
  BY StartsRight, <1>1, PTL DEF Spec

(* The daemon's flags agree, a stopped process serves nobody, and the channel  *)
(* keeps to its capacity.                                                      *)
THEOREM TypeCorrect == Spec => []TypeOK
<1>1. IInv => TypeOK
  BY DEF IInv
<1>2. QED
  BY Invariance, <1>1, PTL

(* However connections end, every permit is free or held by one task.          *)
THEOREM PermitsSafe == Spec => []PermitsConserved
<1>1. IInv => PermitsConserved
  BY DEF IInv
<1>2. QED
  BY Invariance, <1>1, PTL

-------------------------------------------------------------------------------
(* The refinement of ControlService                                            *)
Calls == [c \in Client |-> Called(c)]
Tolds == [c \in Client |-> Told(c)]

LEMMA ServiceStarts == Init => Service!Init
<1> SUFFICES ASSUME Init PROVE Service!Init
  OBVIOUS
<1>1. ASSUME NEW c \in Client PROVE Called(c) = "idle" /\ Told(c) = None
  BY NoneIsNoWord DEF Init, Called, Told
<1>2. QED
  BY <1>1 DEF Init, Service!Init

LEMMA CalledStays ==
  ASSUME NEW c, client'[c] = client[c] PROVE Called(c)' = Called(c)
BY DEF Called

LEMMA ToldStays ==
  ASSUME NEW c, reply'[c] = reply[c], outcome'[c] = outcome[c] PROVE Told(c)' = Told(c)
BY DEF Told

LEMMA CallsChange ==
  ASSUME NEW d \in Client, NEW v, Called(d)' = v,
         \A c \in Client \ {d} : client'[c] = client[c]
  PROVE  Calls' = [Calls EXCEPT ![d] = v]
<1>1. \A c \in Client \ {d} : Called(c)' = Called(c)
  BY CalledStays
<1>2. QED
  BY <1>1 DEF Calls

LEMMA ToldsChange ==
  ASSUME NEW d \in Client, NEW v, Told(d)' = v,
         \A c \in Client \ {d} : reply'[c] = reply[c] /\ outcome'[c] = outcome[c]
  PROVE  Tolds' = [Tolds EXCEPT ![d] = v]
<1>1. \A c \in Client \ {d} : Told(c)' = Told(c)
  BY ToldStays
<1>2. QED
  BY <1>1 DEF Tolds

LEMMA CallsStay ==
  ASSUME \A c \in Client : client'[c] = client[c] PROVE Calls' = Calls
<1>1. \A c \in Client : Called(c)' = Called(c)
  BY CalledStays
<1>2. QED
  BY <1>1 DEF Calls

LEMMA ToldsStay ==
  ASSUME \A c \in Client : reply'[c] = reply[c] /\ outcome'[c] = outcome[c]
  PROVE  Tolds' = Tolds
<1>1. \A c \in Client : Told(c)' = Told(c)
  BY ToldStays
<1>2. QED
  BY <1>1 DEF Tolds

(* Connections and the process change nothing a client can see.                *)
LEMMA HiddenStep ==
  ASSUME UNCHANGED <<client, reply, applied, outcome>> PROVE UNCHANGED Service!vars
<1>1. Calls' = Calls /\ Tolds' = Tolds
  BY CallsStay, ToldsStay
<1>2. QED
  BY <1>1 DEF Calls, Tolds, Service!vars

LEMMA ConnectCalls == ASSUME IInv, NEW d \in Client, Connect(d) PROVE Service!Call(d)
<1>1. /\ client[d] = "idle" /\ client' = [client EXCEPT ![d] = "connected"]
      /\ UNCHANGED <<reply, applied, outcome>>
      /\ client \in [Client -> {"idle", "connected", "waiting", "left"}]
  BY DEF Connect, history, IInv, TypeOK
<1>2. Called(d) = "idle" /\ Called(d)' = "open"
  BY <1>1 DEF Called
<1>3. Calls' = [Calls EXCEPT ![d] = "open"] /\ Tolds' = Tolds
  BY <1>1, <1>2, CallsChange, ToldsStay
<1>4. QED
  BY <1>1, <1>2, <1>3 DEF Service!Call, Calls, Tolds

(* A client leaves with something: what that means to the service.             *)
LEMMA LeavesReturns ==
  ASSUME IInv, NEW d \in Client, NEW r, Leaves(d, r), UNCHANGED <<applied, outcome>>,
         client[d] # "left", NEW v, Told(d)' = v
  PROVE  Service!Return(d, v)
<1>1. /\ client' = [client EXCEPT ![d] = "left"] /\ reply' = [reply EXCEPT ![d] = r]
      /\ client \in [Client -> {"idle", "connected", "waiting", "left"}]
      /\ reply \in [Client -> Replies]
  BY DEF Leaves, IInv, TypeOK
<1>2. Called(d) # "closed" /\ Called(d)' = "closed"
  BY <1>1 DEF Called
<1>3. Calls' = [Calls EXCEPT ![d] = "closed"] /\ Tolds' = [Tolds EXCEPT ![d] = v]
  BY <1>1, <1>2, CallsChange, ToldsChange
<1>4. QED
  BY <1>2, <1>3 DEF Service!Return, Calls, Tolds

LEMMA LeavesSaying ==
  ASSUME IInv, NEW d \in Client, NEW r, Leaves(d, r)
  PROVE  reply'[d] = r
BY DEF Leaves, IInv

LEMMA ConnectFailsRejects ==
  ASSUME IInv, NEW d \in Client, ConnectFails(d) PROVE Service!Reject(d)
<1>1. /\ client[d] = "idle" /\ Leaves(d, "unreachable") /\ UNCHANGED <<applied, outcome>>
  BY DEF ConnectFails, history
<1>2. Told(d)' = "rejected"
  BY <1>1, LeavesSaying, NoneIsNoWord DEF Told
<1>3. ~Service!IsApplied(d)
  BY <1>1 DEF IInv, Fits, Fresh, IsApplied, Service!IsApplied
<1>4. QED
  BY <1>1, <1>2, <1>3, LeavesReturns DEF Service!Reject

LEMMA LosesReply ==
  ASSUME IInv, NEW d \in Client, NEW r \in {"unusable", "closed", "timeout"}, Leaves(d, r),
         UNCHANGED <<applied, outcome>>, client[d] \in {"connected", "waiting"}
  PROVE  Service!Lose(d)
<1>1. Told(d)' = "unknown"
  BY LeavesSaying, NoneIsNoWord DEF Told
<1>2. Called(d) = "open"
  BY DEF Called
<1>3. QED
  BY <1>1, <1>2, LeavesReturns DEF Service!Lose

LEMMA ReceiveReturns ==
  ASSUME IInv, NEW d \in Client, Receive(d)
  PROVE  Service!Answer(d) \/ Service!Reject(d) \/ Service!Lose(d)
<1>1. conn[d] \in Ended /\ UNCHANGED <<applied, outcome>> /\ client[d] \in {"connected", "waiting"}
  BY DEF Receive, history
<1>2. CASE Leaves(d, "unusable") \/ Leaves(d, "closed")
  BY <1>1, <1>2, LosesReply
<1>3. CASE Leaves(d, response[d]) /\ conn[d] = "answered"
  <2>1. response[d] \in {"ok", "error"} /\ outcome[d] \in {None, "ok", "error"} /\ Fits(d)
    BY <1>3 DEF IInv, TypeOK, Fits
  <2>2. reply'[d] = response[d]
    BY <1>3, LeavesSaying
  <2>3. CASE IsApplied(d)
    <3>1. outcome[d] = response[d]
      BY <2>1, <2>3, NoneIsNoWord DEF Fits
    <3>2. Told(d)' = outcome[d]
      BY <1>1, <2>1, <2>2, <3>1, NoneIsNoWord DEF Told
    <3>3. Called(d) = "open" /\ outcome[d] # None
      BY <1>1, <2>1, <3>1, NoneIsNoWord DEF Called
    <3>4. QED
      BY <1>1, <1>3, <3>2, <3>3, LeavesReturns DEF Service!Answer
  <2>4. CASE ~IsApplied(d)
    <3>1. outcome[d] = None
      BY <2>1, <2>4 DEF Fits
    <3>2. CASE response[d] = "error"
      <4>1. Told(d)' = "rejected"
        BY <1>1, <2>2, <3>1, <3>2, NoneIsNoWord DEF Told
      <4>2. ~Service!IsApplied(d)
        BY <2>4 DEF IsApplied, Service!IsApplied
      <4>3. QED
        BY <1>1, <1>3, <4>1, <4>2, LeavesReturns DEF Service!Reject
    <3>3. CASE response[d] = "ok"
      BY <2>1, <2>4, <3>3 DEF Fits
    <3>4. QED
      BY <2>1, <3>2, <3>3
  <2>5. QED
    BY <2>3, <2>4
<1>4. QED
  BY <1>1, <1>2, <1>3 DEF Receive

LEMMA TakeApplies ==
  ASSUME IInv, Take PROVE \E d \in Client : Service!Apply(d)
<1>1. PICK d \in Client : d = Head(control)
  BY DEF Take, IInv, TypeOK
<1>2. /\ UNCHANGED <<client, reply, outcome>> /\ applied' = Append(applied, d)
      /\ control # <<>> /\ control \in Seq(Client)
  BY <1>1 DEF Take, clients, IInv, TypeOK
<1>3. InChannel(d) /\ Fits(d)
  BY <1>1, <1>2 DEF InChannel, IInv
<1>4. Called(d) # "idle"
  <2>1. client[d] # "idle"
    BY <1>3 DEF Fits, Fresh
  <2>2. QED
    BY <2>1 DEF Called
<1>5. Told(d) # "rejected"
  <2>1. reply[d] # "unreachable" /\ reply[d] # "error" /\ reply[d] \in Replies
    BY <1>3, NoneIsNoWord DEF Fits, Fresh
  <2>2. QED
    BY <2>1, NoneIsNoWord DEF Told, Replies
<1>6. ~Service!IsApplied(d)
  BY <1>3 DEF Fits, IsApplied, Service!IsApplied
<1>7. Calls' = Calls /\ Tolds' = Tolds
  BY <1>2, CallsStay, ToldsStay
<1>8. Service!Apply(d)
  BY <1>2, <1>4, <1>5, <1>6, <1>7 DEF Service!Apply, Calls, Tolds
<1>9. QED
  BY <1>8

LEMMA AnswerFinishes ==
  ASSUME IInv, NEW ok \in {"ok", "error"}, Answer(ok)
  PROVE  \E d \in Client : Service!Finish(d)
<1>1. PICK d \in Client : d = handling
  BY DEF Answer, IInv, TypeOK
<1>2. /\ UNCHANGED <<client, reply, applied>> /\ outcome' = [outcome EXCEPT ![d] = ok]
      /\ outcome \in [Client -> {None, "ok", "error"}]
  BY <1>1 DEF Answer, clients, IInv, TypeOK
<1>3. IsApplied(d) /\ outcome[d] = None /\ Fits(d)
  BY <1>1 DEF Answer, IInv, Orderly
<1>4. Told(d)' = Told(d)
  <2>1. reply[d] # "error"
    BY <1>3, NoneIsNoWord DEF Fits
  <2>2. QED
    BY <1>2, <2>1, NoneIsNoWord DEF Told
<1>5. Calls' = Calls
  BY <1>2, CallsStay
<1>6. Tolds' = Tolds
  <2>1. \A c \in Client : Told(c)' = Told(c)
    BY <1>2, <1>4, ToldStays
  <2>2. QED
    BY <2>1 DEF Tolds
<1>7. Service!IsApplied(d) /\ ok \in Service!Outcome
  BY <1>3 DEF IsApplied, Service!IsApplied, Service!Outcome
<1>8. Service!Finish(d)
  BY <1>2, <1>3, <1>5, <1>6, <1>7 DEF Service!Finish, Calls, Tolds
<1>9. QED
  BY <1>8

LEMMA WriteIsHidden ==
  ASSUME IInv, NEW d \in Client, Write(d) PROVE UNCHANGED Service!vars
<1>1. /\ client[d] = "connected" /\ client' = [client EXCEPT ![d] = "waiting"]
      /\ UNCHANGED <<reply, applied, outcome>>
      /\ client \in [Client -> {"idle", "connected", "waiting", "left"}]
  BY DEF Write, history, IInv, TypeOK
<1>2. Called(d)' = Called(d)
  BY <1>1 DEF Called
<1>3. Calls' = Calls
  <2>1. \A c \in Client : Called(c)' = Called(c)
    BY <1>1, <1>2, CalledStays
  <2>2. QED
    BY <2>1 DEF Calls
<1>4. Tolds' = Tolds
  BY <1>1, ToldsStay
<1>5. QED
  BY <1>1, <1>3, <1>4 DEF Calls, Tolds, Service!vars

LEMMA StepRefines == ASSUME IInv, [Next]_vars PROVE [Service!Next]_(Service!vars)
<1>1. ASSUME NEW c \in Client, send(c) PROVE Service!Next \/ UNCHANGED Service!vars
  <2>1. CASE Connect(c) \/ ConnectFails(c)
    BY <2>1, ConnectCalls, ConnectFailsRejects DEF Service!Next
  <2>2. CASE Write(c)
    BY <2>2, WriteIsHidden
  <2>3. CASE Receive(c)
    BY <2>3, ReceiveReturns DEF Service!Next
  <2>4. CASE GiveUp(c)
    BY <2>4, LosesReply DEF GiveUp, history, Service!Next
  <2>5. QED
    BY <1>1, <2>1, <2>2, <2>3, <2>4 DEF send
<1>2. ASSUME NEW c \in Client, Accept(c) \/ handle_connection(c) PROVE UNCHANGED Service!vars
  BY <1>2, HiddenStep
  DEF Accept, handle_connection, ReadRequest, Send, AwaitResponse, write_response, TimeOut,
      clients, history
<1>3. CASE Take \/ \E ok \in {"ok", "error"} : Answer(ok)
  BY <1>3, TakeApplies, AnswerFinishes DEF Service!Next
<1>4. CASE Start \/ Stop \/ Shutdown \/ Ends
  BY <1>4, HiddenStep
  DEF Start, Stop, Shutdown, Ends, RuntimeEnds, ServeEnds, Exit, Gone, clients, history
<1>5. CASE UNCHANGED vars
  BY <1>5, HiddenStep DEF vars, clients, history
<1>6. QED
  BY <1>1, <1>2, <1>3, <1>4, <1>5 DEF Next

(* Through time limits on both sides, refusals, lost answers, shutdowns and    *)
(* restarts, the server does what ControlService promises: a request is        *)
(* handled at most once, an answer is that of the client's own request, and a  *)
(* rejected request is never handled.                                          *)
THEOREM ServerRefinesService == Spec => ImplementsService
<1>1. QED
  BY ServiceStarts, StepRefines, Invariance, PTL DEF Spec, ImplementsService, Service!Spec
===============================================================================
