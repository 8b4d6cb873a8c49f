------------------------------- MODULE AuditLog -------------------------------
(* What the audit store promises its callers: a log that grows at one end and  *)
(* forgets at the other, whose verification always succeeds and counts what is *)
(* retained.                                                                   *)
EXTENDS Integers, Sequences, SequencesExt

CONSTANTS Content,       \* what a record says
          Limits,        \* retention limits, 0 for none
          Requests,      \* numbers of records a reader asks for
          RecentCap      \* most records one answer holds

VARIABLES log,           \* the retained records, oldest first
          limit,         \* the retention limit in force
          reply          \* the answer to the last call

Newest(n) == SubSeq(log, Len(log) - n + 1, Len(log))
AtMost(n, m) == IF n < m THEN n ELSE m

Init == log = <<>> /\ limit \in Limits /\ reply = <<"opened">>

Append_(c) ==
  /\ LET all == Append(log, c)
         kept == IF limit = 0 THEN Len(all) ELSE AtMost(limit, Len(all))
     IN log' = SubSeq(all, Len(all) - kept + 1, Len(all))
  /\ reply' = <<"appended">>
  /\ UNCHANGED limit

(* A failed append leaves no trace.                                            *)
Refuse == reply' = <<"failed">> /\ UNCHANGED <<log, limit>>

Reopen == limit' \in Limits /\ reply' = <<"opened">> /\ UNCHANGED log

Verify == reply' = <<"verified", Len(log)>> /\ UNCHANGED <<log, limit>>

Recent ==
  /\ \E n \in Requests :
       reply' = <<"recent", Reverse(Newest(AtMost(AtMost(n, RecentCap), Len(log))))>>
  /\ UNCHANGED <<log, limit>>

Next == (\E c \in Content : Append_(c)) \/ Refuse \/ Reopen \/ Verify \/ Recent

Spec == Init /\ [][Next]_<<log, limit, reply>>
===============================================================================
