------------------------------ MODULE AuditStore ------------------------------
(* The audit table of kovert-daemon/src/audit.rs: a hash-chained SQLite table  *)
(* with retention.  A record's content is what record_hash digests besides the *)
(* previous hash (timestamp, event, kind, rule and payload).  SQLite commits a *)
(* transaction as a whole or not at all, also across a crash; the store is     *)
(* behind one mutex, so that each call is one step.                            *)
EXTENDS Integers, FiniteSets

CONSTANTS Content,        \* what a record says
          record_hash(_, _),  \* of the previous hash and a content
          GENESIS_HASH,
          Limits,         \* values of max_records, 0 for no limit
          Requests,       \* limits asked of recent
          RecentCap,      \* 1000 in the source
          MaxAppends      \* bound: how many records the model appends

ASSUME LimitAssumption ==
  Limits \subseteq Nat /\ Requests \subseteq Nat /\ RecentCap \in Nat /\ MaxAppends \in Nat

VARIABLES audit,          \* the table: a function from ids to rows
          sequence,       \* the last id AUTOINCREMENT gave out
          audit_anchor,   \* the state key, GENESIS_HASH when absent
          max_records,    \* of the open store
          reply           \* the answer to the last call

vars == <<audit, sequence, audit_anchor, max_records, reply>>

Row(content, previous) ==
  [content |-> content, previous_hash |-> previous, hash |-> record_hash(previous, content)]

Greatest(S) == CHOOSE i \in S : \A j \in S : j <= i

(* ORDER BY id: the ids of a table before a given one.                         *)
Below(table, i) == {j \in DOMAIN table : j < i}

(* The hash that the row with this id, or the next row, continues.             *)
HashBefore(table, anchor, i) ==
  IF Below(table, i) = {} THEN anchor ELSE table[Greatest(Below(table, i))].hash

-------------------------------------------------------------------------------
Restrict_(table, ids) == [i \in ids |-> table[i]]

Insert(table, id, row) ==
  [i \in DOMAIN table \cup {id} |-> IF i = id THEN row ELSE table[i]]

(* How many of the oldest rows the limit no longer covers.                     *)
Excess(table, max) ==
  LET count == Cardinality(DOMAIN table)
  IN IF max = 0 \/ count <= max THEN 0 ELSE count - max

(* LIMIT 1 OFFSET excess - 1: the newest of the rows to delete.                *)
Cutoff(table, excess) ==
  CHOOSE i \in DOMAIN table : Cardinality(Below(table, i)) = excess - 1

(* The anchor is taken from before the rows to delete.                         *)
pruneMutant(table, anchor, max) ==
  LET excess == Excess(table, max)
      cutoff == Cutoff(table, excess)
  IN IF excess = 0 THEN [audit |-> table, anchor |-> anchor]
     ELSE [audit |-> Restrict_(table, {i \in DOMAIN table : i > cutoff}),
           anchor |-> table[cutoff].previous_hash]

prune(table, anchor, max) ==
  LET excess == Excess(table, max)
      cutoff == Cutoff(table, excess)
  IN IF excess = 0 THEN [audit |-> table, anchor |-> anchor]
     ELSE [audit |-> Restrict_(table, {i \in DOMAIN table : i > cutoff}),
           anchor |-> table[cutoff].hash]

-------------------------------------------------------------------------------
Init ==
  /\ audit = [i \in {} |-> GENESIS_HASH]
  /\ sequence = 0
  /\ audit_anchor = GENESIS_HASH
  /\ max_records \in Limits
  /\ reply = <<"opened">>

append(c) ==
  LET id == sequence + 1
      row == Row(c, HashBefore(audit, audit_anchor, id))
      pruned == prune(Insert(audit, id, row), audit_anchor, max_records)
  IN /\ sequence < MaxAppends
     /\ \A i \in DOMAIN audit : audit[i].hash # row.hash    \* hash is UNIQUE
     /\ audit' = pruned.audit
     /\ audit_anchor' = pruned.anchor
     /\ sequence' = id
     /\ reply' = <<"appended">>
     /\ UNCHANGED max_records

(* Any statement of the transaction may fail; it is then rolled back.          *)
append_fails == reply' = <<"failed">> /\ UNCHANGED <<audit, sequence, audit_anchor, max_records>>

(* The daemon restarts, possibly after a crash, with another configuration.    *)
open ==
  /\ max_records' \in Limits
  /\ reply' = <<"opened">>
  /\ UNCHANGED <<audit, sequence, audit_anchor>>

(* The chain is checked in id order from the anchor, and each digest redone.   *)
IntactMutant(table, anchor) ==
  \A i \in DOMAIN table : table[i].previous_hash = HashBefore(table, anchor, i)

Intact(table, anchor) ==
  \A i \in DOMAIN table :
    /\ table[i].previous_hash = HashBefore(table, anchor, i)
    /\ table[i].hash = record_hash(table[i].previous_hash, table[i].content)

verify ==
  /\ reply' = IF Intact(audit, audit_anchor)
              THEN <<"verified", Cardinality(DOMAIN audit)>> ELSE <<"broken">>
  /\ UNCHANGED <<audit, sequence, audit_anchor, max_records>>

(* ORDER BY id ASC LIMIT n                                                     *)
NewestFirstMutant(table, n) ==
  LET Place(i) == Cardinality({j \in DOMAIN table : j <= i})
      count == IF n < Cardinality(DOMAIN table) THEN n ELSE Cardinality(DOMAIN table)
  IN [k \in 1..count |-> table[CHOOSE i \in DOMAIN table : Place(i) = k].content]

(* ORDER BY id DESC LIMIT n                                                    *)
NewestFirst(table, n) ==
  LET Place(i) == Cardinality({j \in DOMAIN table : j >= i})
      count == IF n < Cardinality(DOMAIN table) THEN n ELSE Cardinality(DOMAIN table)
  IN [k \in 1..count |-> table[CHOOSE i \in DOMAIN table : Place(i) = k].content]

recent ==
  /\ \E n \in Requests :
       reply' = <<"recent", NewestFirst(audit, IF n < RecentCap THEN n ELSE RecentCap)>>
  /\ UNCHANGED <<audit, sequence, audit_anchor, max_records>>

Next == (\E c \in Content : append(c)) \/ append_fails \/ open \/ verify \/ recent

Spec == Init /\ [][Next]_vars

-------------------------------------------------------------------------------
(* The table holds the latest records without a gap, and a deleted id is never *)
(* given out again.                                                            *)
TypeOK ==
  /\ sequence \in 0..MaxAppends
  /\ max_records \in Limits
  /\ DOMAIN audit = {} <=> sequence = 0
  /\ \E first \in 1..(sequence + 1) : DOMAIN audit = first..sequence

(* append and prune: whatever was deleted and whichever limits the store was   *)
(* opened with, the retained rows verify from the stored anchor.               *)
ChainVerifies == Intact(audit, audit_anchor)

(* prune: a successful append leaves no more rows than max_records.            *)
RetentionHonoured ==
  reply = <<"appended">> /\ max_records > 0 => Cardinality(DOMAIN audit) <= max_records

(* verify: a row whose content was altered, a row missing from inside the      *)
(* table or two rows exchanged is noticed, wherever the chain now starts.      *)
DamageDetected ==
  \A i \in DOMAIN audit :
    /\ \A c \in Content \ {audit[i].content} :
         ~Intact([audit EXCEPT ![i].content = c], audit_anchor)
    /\ i # sequence => ~Intact(Restrict_(audit, DOMAIN audit \ {i}), audit_anchor)
    /\ \A j \in DOMAIN audit \ {i} :
         ~Intact([audit EXCEPT ![i] = audit[j], ![j] = audit[i]], audit_anchor)

-------------------------------------------------------------------------------
(* The retained records, oldest first.                                         *)
Log ==
  [k \in 1..Cardinality(DOMAIN audit) |->
     audit[CHOOSE i \in DOMAIN audit : Cardinality(Below(audit, i)) = k - 1].content]

Abstract == INSTANCE AuditLog WITH log <- Log, limit <- max_records

(* The store keeps the promise of AuditLog: append, prune, verify and recent   *)
(* behave as one log with a moving window, and verify never reports a break.   *)
ImplementsLog == Abstract!Spec
===============================================================================
