---------------------------- MODULE ControlService ----------------------------
(* What the control socket promises to a client: a request is applied at most  *)
(* once, somewhere between the call and for ever; an answer tells what became  *)
(* of it; a rejection means that it is never applied; silence tells nothing.   *)
EXTENDS Sequences

CONSTANTS Client,   \* one element per call of a client
          None

VARIABLES call,      \* per client: "idle", "open" or "closed"
          applied,   \* requests the runtime has begun to apply, oldest first
          outcome,   \* per client: None, or what applying its request gave
          reply      \* per client: None, an outcome, "rejected" or "unknown"

vars == <<call, applied, outcome, reply>>

Outcome == {"ok", "error"}

IsApplied(c) == \E i \in DOMAIN applied : applied[i] = c

Init ==
  /\ call = [c \in Client |-> "idle"]
  /\ applied = <<>>
  /\ outcome = [c \in Client |-> None]
  /\ reply = [c \in Client |-> None]

Call(c) ==
  /\ call[c] = "idle"
  /\ call' = [call EXCEPT ![c] = "open"]
  /\ UNCHANGED <<applied, outcome, reply>>

(* Also after the client has left, unless it was told that it was rejected.    *)
Apply(c) ==
  /\ call[c] # "idle" /\ reply[c] # "rejected" /\ ~IsApplied(c)
  /\ applied' = Append(applied, c)
  /\ UNCHANGED <<call, outcome, reply>>

Finish(c) ==
  /\ IsApplied(c) /\ outcome[c] = None
  /\ \E o \in Outcome : outcome' = [outcome EXCEPT ![c] = o]
  /\ UNCHANGED <<call, applied, reply>>

Return(c, r) ==
  /\ call[c] # "closed"
  /\ call' = [call EXCEPT ![c] = "closed"]
  /\ reply' = [reply EXCEPT ![c] = r]
  /\ UNCHANGED <<applied, outcome>>

Answer(c) == call[c] = "open" /\ outcome[c] # None /\ Return(c, outcome[c])

(* Also when there is nobody to call.                                          *)
Reject(c) == ~IsApplied(c) /\ Return(c, "rejected")

Lose(c) == call[c] = "open" /\ Return(c, "unknown")

Next ==
  \E c \in Client :
    Call(c) \/ Apply(c) \/ Finish(c) \/ Answer(c) \/ Reject(c) \/ Lose(c)

Spec == Init /\ [][Next]_vars
===============================================================================
