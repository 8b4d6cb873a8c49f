--------------------------- MODULE AuditStoreProofs ---------------------------
(* The chain verifies, the limit is kept and the store implements AuditLog for *)
(* every number of appends, every limit and every hash function; with a hash   *)
(* function that has no collisions every damage to a row is noticed.           *)
EXTENDS AuditStore, Sequences, FiniteSetTheorems, WellFoundedInduction, TLAPS

(* A table whose ids are an interval.                                          *)
LEMMA IntervalCardinality ==
  ASSUME NEW a \in Nat, NEW b \in Nat, a <= b + 1
  PROVE  Cardinality(a..b) = b - a + 1
  BY FS_Interval

LEMMA GreatestOfInterval ==
  ASSUME NEW a \in Nat, NEW b \in Nat, a <= b
  PROVE  Greatest(a..b) = b
<1>1. b \in a..b /\ \A j \in a..b : j <= b
  OBVIOUS
<1>2. \A i \in a..b : (\A j \in a..b : j <= i) => i = b
  BY <1>1
<1>3. QED
  BY <1>1, <1>2 DEF Greatest

LEMMA BelowInterval ==
  ASSUME NEW table, NEW a \in Nat \ {0}, NEW b \in Nat, DOMAIN table = a..b,
         NEW i \in a..(b + 1)
  PROVE  Below(table, i) = a..(i - 1)
  BY DEF Below

LEMMA HashBeforeInterval ==
  ASSUME NEW table, NEW anchor, NEW a \in Nat \ {0}, NEW b \in Nat, DOMAIN table = a..b,
         NEW i \in a..(b + 1)
  PROVE  HashBefore(table, anchor, i) = IF i = a THEN anchor ELSE table[i - 1].hash
<1>1. Below(table, i) = a..(i - 1)
  BY BelowInterval
<1>2. CASE i = a
  BY <1>1, <1>2 DEF HashBefore
<1>3. CASE i # a
  <2>0. i \in Nat /\ a < i
    BY <1>3
  <2>1. a <= i - 1 /\ i - 1 \in Nat /\ i - 1 \in a..(i - 1)
    BY <2>0
  <2>2. Greatest(a..(i - 1)) = i - 1
    BY <2>1, GreatestOfInterval
  <2>3. QED
    BY <1>1, <1>3, <2>1, <2>2 DEF HashBefore
<1>4. QED
  BY <1>2, <1>3

LEMMA CutoffInterval ==
  ASSUME NEW table, NEW a \in Nat \ {0}, NEW b \in Nat, DOMAIN table = a..b,
         NEW excess \in 1..(b - a + 1)
  PROVE  Cutoff(table, excess) = a + excess - 1
<1>1. \A i \in a..b : Cardinality(Below(table, i)) = i - a
  <2> TAKE i \in a..b
  <2>1. Below(table, i) = a..(i - 1)
    BY BelowInterval
  <2>2. i - 1 \in Nat /\ a <= (i - 1) + 1
    OBVIOUS
  <2>3. Cardinality(a..(i - 1)) = (i - 1) - a + 1
    BY <2>2, IntervalCardinality
  <2>4. QED
    BY <2>1, <2>3
<1>2. a + excess - 1 \in a..b
  OBVIOUS
<1>3. \A i \in a..b : Cardinality(Below(table, i)) = excess - 1 <=> i = a + excess - 1
  BY <1>1
<1>4. QED
  BY <1>2, <1>3 DEF Cutoff

-------------------------------------------------------------------------------
(* The chain over an interval, row by row.                                     *)
Linked(table, anchor, a, b) ==
  \A i \in a..b :
    /\ table[i].previous_hash = IF i = a THEN anchor ELSE table[i - 1].hash
    /\ table[i].hash = record_hash(table[i].previous_hash, table[i].content)

LEMMA IntactInterval ==
  ASSUME NEW table, NEW anchor, NEW a \in Nat \ {0}, NEW b \in Nat, DOMAIN table = a..b
  PROVE  Intact(table, anchor) <=> Linked(table, anchor, a, b)
<1>1. \A i \in a..b : i \in a..(b + 1)
  OBVIOUS
<1>2. \A i \in a..b :
        HashBefore(table, anchor, i) = IF i = a THEN anchor ELSE table[i - 1].hash
  BY <1>1, HashBeforeInterval
<1>3. QED
  BY <1>2 DEF Intact, Linked

(* prune keeps the newest rows of an interval, at least one, and the anchor    *)
(* becomes the hash of the last row it deletes.                                *)
FirstKept(a, b, max) == IF max = 0 \/ b - a + 1 <= max THEN a ELSE b - max + 1
HashTo(table, anchor, a, c) == IF c = a THEN anchor ELSE table[c - 1].hash

LEMMA PruneFacts ==
  ASSUME NEW table, NEW anchor, NEW max \in Nat,
         NEW a \in Nat \ {0}, NEW b \in Nat, a <= b, DOMAIN table = a..b,
         NEW p, p = prune(table, anchor, max)
  PROVE  \E c \in a..b :
           /\ c = FirstKept(a, b, max)
           /\ DOMAIN p.audit = c..b
           /\ \A i \in c..b : p.audit[i] = table[i]
           /\ p.anchor = HashTo(table, anchor, a, c)
<1> DEFINE excess == Excess(table, max)
<1>1. Cardinality(DOMAIN table) = b - a + 1
  BY IntervalCardinality
<1>2. /\ excess = IF max = 0 \/ b - a + 1 <= max THEN 0 ELSE b - a + 1 - max
      /\ excess \in Nat
  BY <1>1 DEF Excess
<1>3. CASE excess = 0
  <2>1. p = [audit |-> table, anchor |-> anchor]
    BY <1>3 DEF prune
  <2>2. (max = 0 \/ b - a + 1 <= max) /\ a \in a..b
    BY <1>2, <1>3
  <2>3. QED
    BY <2>1, <2>2 DEF FirstKept, HashTo
<1>4. CASE excess # 0
  <2> DEFINE cutoff == a + excess - 1
             kept == Restrict_(table, (cutoff + 1)..b)
  <2>1. /\ excess = b - a + 1 - max /\ excess \in 1..(b - a + 1) /\ max > 0
        /\ ~(max = 0 \/ b - a + 1 <= max)
        /\ cutoff \in a..b /\ cutoff + 1 \in a..b /\ cutoff + 1 = b - max + 1
        /\ cutoff + 1 # a /\ (cutoff + 1) - 1 = cutoff
    BY <1>2, <1>4
  <2>2. Cutoff(table, excess) = cutoff
    BY <2>1, CutoffInterval
  <2>3. {i \in DOMAIN table : i > cutoff} = (cutoff + 1)..b
    BY <2>1
  <2>4. p.audit = kept /\ p.anchor = table[cutoff].hash
    BY <1>4, <2>2, <2>3 DEF prune
  <2>5. DOMAIN kept = (cutoff + 1)..b /\ \A i \in (cutoff + 1)..b : kept[i] = table[i]
    BY DEF Restrict_
  <2>6. PICK c \in a..b : c = cutoff + 1
    BY <2>1
  <2> HIDE DEF kept, cutoff, excess
  <2>7. c = b - max + 1 /\ c # a /\ c - 1 = cutoff
    BY <2>1, <2>6
  <2>8. /\ DOMAIN p.audit = c..b /\ \A i \in c..b : p.audit[i] = table[i]
        /\ p.anchor = table[c - 1].hash
    BY <2>4, <2>5, <2>6, <2>7
  <2>9. QED
    BY <2>1, <2>7, <2>8 DEF FirstKept, HashTo
<1>5. QED
  BY <1>3, <1>4

(* Rows continue a chain over an interval one, wherever it now starts.         *)
LEMMA SuffixKeepsChain ==
  ASSUME NEW table, NEW anchor, NEW a \in Nat \ {0}, NEW b \in Nat, DOMAIN table = a..b,
         Intact(table, anchor), NEW c \in a..b, NEW kept, NEW prior, DOMAIN kept = c..b,
         \A i \in c..b : kept[i] = table[i],
         prior = HashTo(table, anchor, a, c)
  PROVE  Intact(kept, prior)
<1>1. \A i \in a..b :
        /\ table[i].previous_hash = IF i = a THEN anchor ELSE table[i - 1].hash
        /\ table[i].hash = record_hash(table[i].previous_hash, table[i].content)
  BY IntactInterval DEF Linked
<1>2. ASSUME NEW i \in c..b
      PROVE  /\ kept[i].previous_hash = IF i = c THEN prior ELSE kept[i - 1].hash
             /\ kept[i].hash = record_hash(kept[i].previous_hash, kept[i].content)
  <2>1. /\ i \in a..b /\ kept[i] = table[i]
        /\ i # c => i # a /\ i - 1 \in c..b
    OBVIOUS
  <2>2. i # c => kept[i - 1] = table[i - 1]
    BY <2>1
  <2>3. QED
    BY <1>1, <2>1, <2>2 DEF HashTo
<1>3. c \in Nat \ {0}
  OBVIOUS
<1>4. Linked(kept, prior, c, b)
  BY <1>2 DEF Linked
<1>5. QED
  BY <1>3, <1>4, IntactInterval

(* prune keeps a chain over an interval one, and leaves at least one row.      *)
LEMMA PruneKeepsChain ==
  ASSUME NEW table, NEW anchor, NEW max \in Nat,
         NEW a \in Nat \ {0}, NEW b \in Nat, a <= b, DOMAIN table = a..b,
         Intact(table, anchor), NEW p, p = prune(table, anchor, max)
  PROVE  /\ \E c \in a..b : DOMAIN p.audit = c..b
         /\ Intact(p.audit, p.anchor)
         /\ max > 0 => Cardinality(DOMAIN p.audit) <= max
<1>1. PICK c \in a..b :
        /\ c = FirstKept(a, b, max)
        /\ DOMAIN p.audit = c..b
        /\ \A i \in c..b : p.audit[i] = table[i]
        /\ p.anchor = HashTo(table, anchor, a, c)
  BY PruneFacts
<1>2. Intact(p.audit, p.anchor)
  BY <1>1, SuffixKeepsChain
<1>3. Cardinality(c..b) = b - c + 1
  <2>1. c \in Nat /\ c <= b + 1
    OBVIOUS
  <2>2. QED
    BY <2>1, IntervalCardinality
<1>4. max > 0 => b - c + 1 <= max
  <2>1. c = FirstKept(a, b, max)
    BY <1>1
  <2>2. CASE max = 0 \/ b - a + 1 <= max
    BY <2>1, <2>2 DEF FirstKept
  <2>3. CASE ~(max = 0 \/ b - a + 1 <= max)
    BY <2>1, <2>3 DEF FirstKept
  <2>4. QED
    BY <2>2, <2>3
<1>5. QED
  BY <1>1, <1>2, <1>3, <1>4

-------------------------------------------------------------------------------
Inv == TypeOK /\ ChainVerifies /\ RetentionHonoured

LEMMA InitInv == Init => Inv
<1> SUFFICES ASSUME Init PROVE Inv
  OBVIOUS
<1>1. /\ DOMAIN audit = {} /\ sequence = 0 /\ sequence \in Nat
      /\ max_records \in Limits /\ reply = <<"opened">>
  BY DEF Init
<1>2. 1..0 = {} /\ 1 \in 1..(sequence + 1)
  BY <1>1
<1>3. DOMAIN audit = 1..sequence
  BY <1>1, <1>2
<1>4. TypeOK
  BY <1>1, <1>2, <1>3, LimitAssumption DEF TypeOK
<1>5. QED
  BY <1>1, <1>4 DEF Inv, ChainVerifies, Intact, RetentionHonoured

(* A row that continues the chain keeps it one.                                *)
LEMMA InsertKeepsChain ==
  ASSUME NEW table, NEW anchor, NEW c, NEW a \in Nat \ {0}, NEW b \in Nat, a <= b + 1,
         DOMAIN table = a..b, Intact(table, anchor), NEW id \in Nat, id = b + 1
  PROVE  LET t == Insert(table, id, Row(c, HashBefore(table, anchor, id)))
         IN DOMAIN t = a..id /\ Intact(t, anchor)
<1> DEFINE row == Row(c, HashBefore(table, anchor, id))
           t == Insert(table, id, row)
<1>1. /\ DOMAIN t = a..id
      /\ t[id] = row
      /\ \A i \in a..b : t[i] = table[i]
  BY DEF Insert
<1>2. \A i \in a..b :
        /\ table[i].previous_hash = IF i = a THEN anchor ELSE table[i - 1].hash
        /\ table[i].hash = record_hash(table[i].previous_hash, table[i].content)
  BY IntactInterval DEF Linked
<1>3. /\ row.previous_hash = IF id = a THEN anchor ELSE table[id - 1].hash
      /\ row.hash = record_hash(row.previous_hash, row.content)
  <2>1. id \in a..(b + 1)
    OBVIOUS
  <2>2. QED
    BY <2>1, HashBeforeInterval DEF Row
<1> HIDE DEF t, row
<1>4. \A i \in a..id :
        /\ t[i].previous_hash = IF i = a THEN anchor ELSE t[i - 1].hash
        /\ t[i].hash = record_hash(t[i].previous_hash, t[i].content)
  <2> TAKE i \in a..id
  <2>1. CASE i = id
    <3>1. i # a => i - 1 \in a..b
      BY <2>1
    <3>2. QED
      BY <1>1, <1>3, <2>1, <3>1
  <2>2. CASE i # id
    <3>1. i \in a..b /\ (i # a => i - 1 \in a..b)
      BY <2>2
    <3>2. QED
      BY <1>1, <1>2, <3>1
  <2>3. QED
    BY <2>1, <2>2
<1>5. Linked(t, anchor, a, id)
  BY <1>4 DEF Linked
<1>6. QED
  BY <1>1, <1>5, IntactInterval DEF t, row

LEMMA AppendInv ==
  ASSUME Inv, NEW c \in Content, append(c)
  PROVE  Inv'
<1> DEFINE id == sequence + 1
           inserted == Insert(audit, id, Row(c, HashBefore(audit, audit_anchor, id)))
           pruned == prune(inserted, audit_anchor, max_records)
<1>1. /\ sequence < MaxAppends /\ sequence' = id /\ max_records' = max_records
      /\ audit' = pruned.audit /\ audit_anchor' = pruned.anchor
  BY DEF append
<1>2. /\ sequence \in 0..MaxAppends /\ sequence \in Nat /\ max_records \in Nat
      /\ max_records \in Limits /\ MaxAppends \in Nat
  BY LimitAssumption DEF Inv, TypeOK
<1>3. PICK first \in 1..(sequence + 1) : DOMAIN audit = first..sequence
  BY DEF Inv, TypeOK
<1>4. first \in Nat \ {0} /\ id \in Nat /\ first <= id /\ id = sequence + 1
  BY <1>2, <1>3
<1>5. DOMAIN inserted = first..id /\ Intact(inserted, audit_anchor)
  BY <1>2, <1>3, <1>4, InsertKeepsChain DEF Inv, ChainVerifies
<1> HIDE DEF inserted
<1>6. /\ \E k \in first..id : DOMAIN pruned.audit = k..id
      /\ Intact(pruned.audit, pruned.anchor)
      /\ max_records > 0 => Cardinality(DOMAIN pruned.audit) <= max_records
  <2> HIDE DEF id
  <2> QED  BY <1>2, <1>4, <1>5, PruneKeepsChain
<1> HIDE DEF pruned
<1>7. TypeOK'
  <2>1. PICK k \in first..id : DOMAIN pruned.audit = k..id
    BY <1>6
  <2>2. /\ sequence' \in 0..MaxAppends /\ sequence' # 0
        /\ k \in 1..(sequence' + 1) /\ DOMAIN audit' = k..sequence'
        /\ sequence' \in DOMAIN audit'
    BY <1>1, <1>2, <1>4, <2>1
  <2>3. QED
    BY <1>1, <1>2, <2>2 DEF TypeOK
<1>8. QED
  BY <1>1, <1>6, <1>7 DEF Inv, ChainVerifies, RetentionHonoured

LEMMA NextInv == Inv /\ [Next]_vars => Inv'
<1> SUFFICES ASSUME Inv, [Next]_vars PROVE Inv'
  OBVIOUS
<1>1. ASSUME NEW c \in Content, append(c) PROVE Inv'
  BY <1>1, AppendInv
<1>2. CASE append_fails
  BY <1>2 DEF append_fails, Inv, TypeOK, ChainVerifies, RetentionHonoured
<1>3. CASE open
  BY <1>3 DEF open, Inv, TypeOK, ChainVerifies, RetentionHonoured
<1>4. CASE verify
  <2>1. reply' # <<"appended">>
    BY <1>4 DEF verify
  <2>2. QED
    BY <1>4, <2>1 DEF verify, Inv, TypeOK, ChainVerifies, RetentionHonoured
<1>5. CASE recent
  <2>1. reply' # <<"appended">>
    BY <1>5 DEF recent
  <2>2. QED
    BY <1>5, <2>1 DEF recent, Inv, TypeOK, ChainVerifies, RetentionHonoured
<1>6. CASE UNCHANGED vars
  BY <1>6 DEF vars, Inv, TypeOK, ChainVerifies, RetentionHonoured
<1>7. QED
  BY <1>1, <1>2, <1>3, <1>4, <1>5, <1>6 DEF Next

(* The ids of the table are the latest ones without a gap, after any appends,  *)
(* failures, deletions and changes of the limit.                               *)
THEOREM TypeCorrect == Spec => []TypeOK
  BY InitInv, NextInv, PTL DEF Spec, Inv

(* The retained rows verify from the stored anchor, after any appends,         *)
(* deletions and changes of the limit and for any hash function.               *)
THEOREM ChainSafe == Spec => []ChainVerifies
  BY InitInv, NextInv, PTL DEF Spec, Inv

(* A successful append leaves at most max_records rows.                        *)
THEOREM RetentionSafe == Spec => []RetentionHonoured
  BY InitInv, NextInv, PTL DEF Spec, Inv

-------------------------------------------------------------------------------
(* What is asked of the hash function where damage is concerned: on a set of   *)
(* digests that holds the genesis hash, no two inputs have the same digest.    *)
CollisionFree(Digests) ==
  /\ GENESIS_HASH \in Digests
  /\ \A p \in Digests, c \in Content :
       record_hash(p, c) \in Digests /\ record_hash(p, c) # GENESIS_HASH
  /\ \A p, q \in Digests, c, d \in Content :
       record_hash(p, c) = record_hash(q, d) => p = q /\ c = d

(* The hashes of all records since the first, the deleted ones included.       *)
IsChain(chain, b) ==
  /\ chain[0] = GENESIS_HASH
  /\ \A n \in 1..b : \E c \in Content : chain[n] = record_hash(chain[n - 1], c)

(* The rows a..b of a table stand at their places in the chain.                *)
OnChain(chain, table, anchor, a, b) ==
  /\ DOMAIN table = a..b
  /\ anchor = chain[a - 1]
  /\ \A i \in a..b : \E c \in Content :
       table[i] = Row(c, chain[i - 1]) /\ chain[i] = record_hash(chain[i - 1], c)

LEMMA LeastOf ==
  ASSUME NEW S \in SUBSET Nat, S # {}
  PROVE  \E x \in S : \A y \in S : x <= y
<1> DEFINE R == {ss \in Nat \X Nat : ss[1] < ss[2]}
<1>1. IsWellFoundedOn(R, Nat)
  BY NatLessThanWellFounded DEF OpToRel
<1> HIDE DEF R
<1>2. PICK x \in S : \A y \in S : ~(<<y, x>> \in R)
  BY <1>1, WFMin
<1>3. ASSUME NEW y \in S PROVE x <= y
  <2>1. x \in Nat /\ y \in Nat
    OBVIOUS
  <2>2. y < x => <<y, x>> \in R
    BY <2>1 DEF R
  <2>3. QED
    BY <1>2, <2>1, <2>2
<1>4. QED
  BY <1>3

(* No two records ever had the same hash: two equal hashes would have equal    *)
(* predecessors, down to the genesis hash, which is nobody's digest.           *)
LEMMA ChainDistinct ==
  ASSUME NEW Digests, CollisionFree(Digests), NEW b \in Nat,
         NEW chain \in [0..b -> Digests], IsChain(chain, b),
         NEW m \in 0..b, NEW n \in 0..b, m < n
  PROVE  chain[m] # chain[n]
<1> DEFINE S == {k \in 0..b : \E j \in 0..b : k < j /\ chain[k] = chain[j]}
<1> SUFFICES ASSUME S # {} PROVE FALSE
  OBVIOUS
<1>1. S \in SUBSET Nat
  OBVIOUS
<1>2. PICK k \in S : \A y \in S : k <= y
  <2> HIDE DEF S
  <2> QED  BY <1>1, LeastOf
<1>3. PICK j \in 0..b : k < j /\ chain[k] = chain[j]
  OBVIOUS
<1>4. j \in 1..b /\ j - 1 \in 0..b /\ k \in 0..b
  BY <1>3
<1>5. PICK d \in Content : chain[j] = record_hash(chain[j - 1], d)
  BY <1>4 DEF IsChain
<1>6. CASE k = 0
  BY <1>3, <1>4, <1>5, <1>6 DEF IsChain, CollisionFree
<1>7. CASE k # 0
  <2>1. k \in 1..b /\ k - 1 \in 0..b /\ k - 1 < j - 1 /\ ~(k <= k - 1)
    BY <1>3, <1>4, <1>7
  <2>2. PICK c \in Content : chain[k] = record_hash(chain[k - 1], c)
    BY <2>1 DEF IsChain
  <2>3. chain[k - 1] = chain[j - 1]
    BY <1>3, <1>4, <1>5, <2>1, <2>2 DEF CollisionFree
  <2>4. k - 1 \in S
    BY <1>4, <2>1, <2>3
  <2>5. QED
    BY <1>2, <2>1, <2>4
<1>8. QED
  BY <1>6, <1>7

(* Where each row of the table stands.                                         *)
LEMMA RowOnChain ==
  ASSUME NEW chain, NEW table, NEW anchor, NEW a, NEW b,
         OnChain(chain, table, anchor, a, b), NEW i \in a..b
  PROVE  /\ table[i].previous_hash = chain[i - 1] /\ table[i].hash = chain[i]
         /\ table[i].content \in Content
         /\ chain[i] = record_hash(chain[i - 1], table[i].content)
<1>1. PICK c \in Content : table[i] = Row(c, chain[i - 1])
                           /\ chain[i] = record_hash(chain[i - 1], c)
  BY DEF OnChain
<1>2. QED
  BY <1>1 DEF Row

LEMMA AlterationNoticed ==
  ASSUME NEW Digests, CollisionFree(Digests), NEW a \in Nat \ {0}, NEW b \in Nat,
         NEW chain \in [0..b -> Digests], NEW table, NEW anchor,
         OnChain(chain, table, anchor, a, b),
         NEW i \in a..b, NEW c \in Content \ {table[i].content}
  PROVE  ~Intact([table EXCEPT ![i].content = c], anchor)
<1> DEFINE t == [table EXCEPT ![i].content = c]
<1>1. /\ table[i] = [content |-> table[i].content, previous_hash |-> chain[i - 1],
                     hash |-> chain[i]]
      /\ table[i].content \in Content
      /\ chain[i] = record_hash(chain[i - 1], table[i].content)
  <2>1. PICK d \in Content : table[i] = Row(d, chain[i - 1])
                             /\ chain[i] = record_hash(chain[i - 1], d)
    BY DEF OnChain
  <2>2. QED
    BY <2>1 DEF Row
<1>2. DOMAIN table = a..b
  BY DEF OnChain
<1>3. DOMAIN t = a..b /\ t[i] = [content |-> c, previous_hash |-> chain[i - 1], hash |-> chain[i]]
  BY <1>1, <1>2
<1> HIDE DEF t
<1>4. Intact(t, anchor) => chain[i] = record_hash(chain[i - 1], c)
  BY <1>3 DEF Intact
<1>5. i - 1 \in 0..b
  OBVIOUS
<1>6. chain[i - 1] \in Digests /\ c \in Content /\ c # table[i].content
  BY <1>5
<1>7. chain[i] # record_hash(chain[i - 1], c)
  BY <1>1, <1>6 DEF CollisionFree
<1>8. QED
  BY <1>4, <1>7 DEF t

LEMMA GapNoticed ==
  ASSUME NEW Digests, CollisionFree(Digests), NEW a \in Nat \ {0}, NEW b \in Nat,
         NEW chain \in [0..b -> Digests], IsChain(chain, b), NEW table, NEW anchor,
         OnChain(chain, table, anchor, a, b), NEW i \in a..b, i # b
  PROVE  ~Intact(Restrict_(table, DOMAIN table \ {i}), anchor)
<1> DEFINE t == Restrict_(table, DOMAIN table \ {i})
           next == i + 1
<1>0. i \in Nat /\ next \in a..b /\ next # i /\ next - 1 = i /\ i - 1 \in 0..b /\ i \in 0..b
      /\ i - 1 < i
  OBVIOUS
<1>1. DOMAIN table = a..b /\ anchor = chain[a - 1]
  BY DEF OnChain
<1>2. DOMAIN t = (a..b) \ {i} /\ \A k \in (a..b) \ {i} : t[k] = table[k]
  BY <1>1 DEF Restrict_
<1>3. t[next].previous_hash = chain[i]
  <2>1. table[next].previous_hash = chain[next - 1]
    BY <1>0, RowOnChain
  <2>2. QED
    BY <1>0, <1>2, <2>1
<1> HIDE DEF t, next
<1>4. HashBefore(t, anchor, next) = chain[i - 1]
  <2>1. Below(t, next) = a..(i - 1)
    <3>1. \A k \in Int : k \in (a..b) \ {i} /\ k < next <=> k \in a..(i - 1)
      BY <1>0
    <3>2. \A k \in (a..b) \ {i} : k \in Int
      OBVIOUS
    <3>3. \A k \in a..(i - 1) : k \in Int
      OBVIOUS
    <3>4. QED
      BY <1>2, <3>1, <3>2, <3>3 DEF Below
  <2>2. CASE i = a
    <3>1. a..(i - 1) = {}
      BY <2>2
    <3>2. QED
      BY <1>1, <2>1, <2>2, <3>1 DEF HashBefore
  <2>3. CASE i # a
    <3>1. i - 1 \in a..b /\ a <= i - 1 /\ i - 1 \in Nat /\ i - 1 # i /\ i - 1 \in a..(i - 1)
      BY <1>0, <2>3
    <3>2. Greatest(a..(i - 1)) = i - 1
      BY <3>1, GreatestOfInterval
    <3>3. HashBefore(t, anchor, next) = t[i - 1].hash
      BY <2>1, <3>1, <3>2 DEF HashBefore
    <3>4. table[i - 1].hash = chain[i - 1]
      BY <3>1, RowOnChain
    <3>5. QED
      BY <1>2, <3>1, <3>3, <3>4
  <2>4. QED
    BY <2>2, <2>3
<1>5. Intact(t, anchor) => chain[i] = chain[i - 1]
  BY <1>0, <1>2, <1>3, <1>4 DEF Intact
<1>6. chain[i - 1] # chain[i]
  BY <1>0, ChainDistinct
<1>7. QED
  BY <1>5, <1>6 DEF t

LEMMA ExchangeNoticed ==
  ASSUME NEW Digests, CollisionFree(Digests), NEW a \in Nat \ {0}, NEW b \in Nat,
         NEW chain \in [0..b -> Digests], IsChain(chain, b), NEW table, NEW anchor,
         OnChain(chain, table, anchor, a, b), NEW i \in a..b, NEW j \in a..b, i < j,
         NEW t, DOMAIN t = a..b, t[i] = table[j], \A k \in a..b \ {i, j} : t[k] = table[k]
  PROVE  ~Intact(t, anchor)
<1>0. /\ i \in a..(b + 1) /\ i - 1 \in 0..b /\ j - 1 \in 0..b /\ i - 1 < j - 1
      /\ i # a => i - 1 \in a..b \ {i, j}
  OBVIOUS
<1>1. t[i].previous_hash = chain[j - 1]
  <2>1. table[j].previous_hash = chain[j - 1]
    BY RowOnChain
  <2>2. QED
    BY <2>1
<1>2. HashBefore(t, anchor, i) = chain[i - 1]
  <2>1. HashBefore(t, anchor, i) = IF i = a THEN anchor ELSE t[i - 1].hash
    <3>1. i \in a..(b + 1)
      OBVIOUS
    <3>2. QED
      BY ONLY <3>1, DOMAIN t = a..b, a \in Nat \ {0}, b \in Nat, HashBeforeInterval
  <2>2. CASE i = a
    BY <2>1, <2>2 DEF OnChain
  <2>3. CASE i # a
    <3>1. table[i - 1].hash = chain[i - 1]
      BY <1>0, <2>3, RowOnChain
    <3>2. QED
      BY <1>0, <2>1, <2>3, <3>1
  <2>4. QED
    BY <2>2, <2>3
<1>3. chain[i - 1] # chain[j - 1]
  BY <1>0, ChainDistinct
<1>4. QED
  BY <1>1, <1>2, <1>3 DEF Intact

(* The table is a window on the chain of all records appended so far.          *)
History(Digests) ==
  \E chain \in [0..sequence -> Digests] :
    /\ IsChain(chain, sequence)
    /\ \E first \in 1..(sequence + 1) : OnChain(chain, audit, audit_anchor, first, sequence)

LEMMA HistoryNoticesDamage ==
  ASSUME NEW Digests, CollisionFree(Digests), sequence \in Nat, History(Digests)
  PROVE  DamageDetected
<1>1. PICK chain \in [0..sequence -> Digests] :
        /\ IsChain(chain, sequence)
        /\ \E first \in 1..(sequence + 1) : OnChain(chain, audit, audit_anchor, first, sequence)
  BY DEF History
<1>2. PICK a \in 1..(sequence + 1) : OnChain(chain, audit, audit_anchor, a, sequence)
  BY <1>1
<1>3. DOMAIN audit = a..sequence /\ a \in Nat \ {0}
  BY <1>2 DEF OnChain
<1>4. ASSUME NEW i \in a..sequence, NEW c \in Content \ {audit[i].content}
      PROVE  ~Intact([audit EXCEPT ![i].content = c], audit_anchor)
  BY <1>2, <1>3, AlterationNoticed
<1>5. ASSUME NEW i \in a..sequence, i # sequence
      PROVE  ~Intact(Restrict_(audit, DOMAIN audit \ {i}), audit_anchor)
  BY <1>1, <1>2, <1>3, <1>5, GapNoticed
<1>6. ASSUME NEW i \in a..sequence, NEW j \in a..sequence \ {i}
      PROVE  ~Intact([audit EXCEPT ![i] = audit[j], ![j] = audit[i]], audit_anchor)
  <2>1. PICK t : t = [audit EXCEPT ![i] = audit[j], ![j] = audit[i]]
    OBVIOUS
  <2>2. /\ DOMAIN t = a..sequence /\ t[i] = audit[j] /\ t[j] = audit[i]
        /\ \A k \in a..sequence \ {i, j} : t[k] = audit[k]
        /\ \A k \in a..sequence \ {j, i} : t[k] = audit[k]
    BY <1>3, <2>1
  <2>3. i < j \/ j < i
    OBVIOUS
  <2>4. ~Intact(t, audit_anchor)
    <3>1. CASE i < j
      BY <1>1, <1>2, <1>3, <2>2, <3>1, ExchangeNoticed
    <3>2. CASE j < i
      BY <1>1, <1>2, <1>3, <2>2, <3>2, ExchangeNoticed
    <3>3. QED
      BY <2>3, <3>1, <3>2
  <2>5. QED
    BY <2>1, <2>4
<1>7. QED
  BY <1>3, <1>4, <1>5, <1>6 DEF DamageDetected

(* What append leaves: the new row after the old ones, some of the oldest gone.*)
LEMMA AppendFacts ==
  ASSUME TypeOK, NEW c, append(c), NEW a \in 1..(sequence + 1), DOMAIN audit = a..sequence,
         NEW id, id = sequence + 1, NEW row, row = Row(c, HashBefore(audit, audit_anchor, id))
  PROVE  /\ id \in Nat \ {0} /\ a \in 1..id
         /\ \E k \in a..id :
              /\ k = FirstKept(a, id, max_records)
              /\ DOMAIN audit' = k..id
              /\ \A i \in k..id : audit'[i] = IF i = id THEN row ELSE audit[i]
              /\ audit_anchor' = IF k = a THEN audit_anchor ELSE audit[k - 1].hash
         /\ sequence' = id /\ max_records' = max_records
<1>1. /\ sequence' = id /\ max_records' = max_records
      /\ audit' = prune(Insert(audit, id, row), audit_anchor, max_records).audit
      /\ audit_anchor' = prune(Insert(audit, id, row), audit_anchor, max_records).anchor
  BY DEF append
<1>2. sequence \in Nat /\ max_records \in Nat
  BY LimitAssumption DEF TypeOK
<1>3. id \in Nat \ {0} /\ a \in 1..id /\ a \in Nat \ {0} /\ a <= id
  BY <1>2
<1>4. PICK t : t = Insert(audit, id, row)
  OBVIOUS
<1>5. /\ DOMAIN t = a..id /\ t[id] = row /\ \A i \in a..sequence : t[i] = audit[i]
  <2>1. (a..sequence) \cup {id} = a..id /\ id \notin a..sequence
    BY <1>2, <1>3
  <2>2. QED
    BY <1>4, <2>1 DEF Insert
<1>6. PICK p : p = prune(t, audit_anchor, max_records)
  OBVIOUS
<1>7. PICK k \in a..id :
        /\ k = FirstKept(a, id, max_records)
        /\ DOMAIN p.audit = k..id
        /\ \A i \in k..id : p.audit[i] = t[i]
        /\ p.anchor = HashTo(t, audit_anchor, a, k)
  BY <1>2, <1>3, <1>5, <1>6, PruneFacts
<1>8. audit' = p.audit /\ audit_anchor' = p.anchor
  BY <1>1, <1>4, <1>6
<1>9. \A i \in k..id : audit'[i] = IF i = id THEN row ELSE audit[i]
  <2> TAKE i \in k..id
  <2>1. i # id => i \in a..sequence
    BY <1>2, <1>3
  <2>2. QED
    BY <1>5, <1>7, <1>8, <2>1
<1>10. audit_anchor' = IF k = a THEN audit_anchor ELSE audit[k - 1].hash
  <2>1. k # a => k - 1 \in a..sequence
    BY <1>2, <1>3
  <2>2. QED
    BY <1>5, <1>7, <1>8, <2>1 DEF HashTo
<1>11. QED
  BY <1>1, <1>3, <1>7, <1>8, <1>9, <1>10

(* The next row continues the last record ever appended, deleted or not.       *)
LEMMA NextOnChain ==
  ASSUME sequence \in Nat, NEW chain, NEW a \in 1..(sequence + 1),
         OnChain(chain, audit, audit_anchor, a, sequence)
  PROVE  HashBefore(audit, audit_anchor, sequence + 1) = chain[sequence]
<1>1. PICK id \in Nat : id = sequence + 1
  OBVIOUS
<1>2. DOMAIN audit = a..sequence /\ a \in Nat \ {0} /\ id \in a..(sequence + 1)
      /\ audit_anchor = chain[a - 1]
  BY <1>1 DEF OnChain
<1>3. HashBefore(audit, audit_anchor, id) = IF id = a THEN audit_anchor ELSE audit[id - 1].hash
  BY ONLY <1>2, sequence \in Nat, HashBeforeInterval
<1>4. id - 1 = sequence /\ (id # a => sequence \in a..sequence)
  BY <1>1
<1>5. id # a => audit[sequence].hash = chain[sequence]
  BY <1>4, RowOnChain
<1>6. QED
  BY <1>1, <1>2, <1>3, <1>4, <1>5

LEMMA AppendHistory ==
  ASSUME NEW Digests, CollisionFree(Digests), TypeOK, History(Digests),
         NEW c \in Content, append(c)
  PROVE  History(Digests)'
<1>0. sequence \in Nat
  BY LimitAssumption DEF TypeOK
<1>1. PICK chain \in [0..sequence -> Digests] :
        /\ IsChain(chain, sequence)
        /\ \E first \in 1..(sequence + 1) : OnChain(chain, audit, audit_anchor, first, sequence)
  BY DEF History
<1>2. PICK a \in 1..(sequence + 1) : OnChain(chain, audit, audit_anchor, a, sequence)
  BY <1>1
<1>2a. ASSUME NEW j \in a..sequence PROVE audit[j].hash = chain[j]
  <2>1. PICK d \in Content : audit[j] = Row(d, chain[j - 1])
                             /\ chain[j] = record_hash(chain[j - 1], d)
    BY <1>2 DEF OnChain
  <2>2. QED
    BY <2>1 DEF Row
<1>3. PICK id : id = sequence + 1
  OBVIOUS
<1>4. PICK row : row = Row(c, HashBefore(audit, audit_anchor, id))
  OBVIOUS
<1>5. /\ id \in Nat \ {0} /\ a \in 1..id
      /\ \E k \in a..id :
           /\ k = FirstKept(a, id, max_records)
           /\ DOMAIN audit' = k..id
           /\ \A i \in k..id : audit'[i] = IF i = id THEN row ELSE audit[i]
           /\ audit_anchor' = IF k = a THEN audit_anchor ELSE audit[k - 1].hash
      /\ sequence' = id
  <2>1. DOMAIN audit = a..sequence
    BY <1>2 DEF OnChain
  <2>2. QED
    BY <1>3, <1>4, <2>1, AppendFacts
<1>6. PICK k \in a..id :
        /\ DOMAIN audit' = k..id
        /\ \A i \in k..id : audit'[i] = IF i = id THEN row ELSE audit[i]
        /\ audit_anchor' = IF k = a THEN audit_anchor ELSE audit[k - 1].hash
  BY <1>5
<1>7. PICK digest : digest = record_hash(chain[sequence], c)
  OBVIOUS
<1>8. row = Row(c, chain[sequence]) /\ digest \in Digests
  <2>1. sequence \in 0..sequence
    BY <1>0
  <2>2. HashBefore(audit, audit_anchor, id) = chain[sequence]
    BY <1>0, <1>2, <1>3, NextOnChain
  <2>3. QED
    BY <1>4, <1>7, <2>1, <2>2 DEF CollisionFree
<1>9. PICK longer : longer = [n \in 0..id |-> IF n = id THEN digest ELSE chain[n]]
  OBVIOUS
<1>10. /\ longer \in [0..id -> Digests]
       /\ longer[id] = digest
       /\ \A n \in 0..sequence : longer[n] = chain[n]
  BY <1>0, <1>3, <1>8, <1>9
<1>11. IsChain(longer, id)
  <2>1. longer[0] = GENESIS_HASH
    BY <1>0, <1>1, <1>10 DEF IsChain
  <2>2. ASSUME NEW n \in 1..id PROVE \E d \in Content : longer[n] = record_hash(longer[n - 1], d)
    <3>1. CASE n = id
      <4>1. n - 1 = sequence /\ sequence \in 0..sequence
        BY <1>0, <1>3, <3>1
      <4>2. QED
        BY <1>7, <1>10, <3>1, <4>1
    <3>2. CASE n # id
      <4>1. n \in 1..sequence /\ n \in 0..sequence /\ n - 1 \in 0..sequence
        BY <1>0, <1>3, <3>2
      <4>2. PICK d \in Content : chain[n] = record_hash(chain[n - 1], d)
        BY <1>1, <4>1 DEF IsChain
      <4>3. QED
        BY <1>10, <4>1, <4>2
    <3>3. QED
      BY <3>1, <3>2
  <2>3. QED
    BY <2>1, <2>2 DEF IsChain
<1>12. OnChain(longer, audit', audit_anchor', k, id)
  <2>1. audit_anchor' = longer[k - 1]
    <3>1. k - 1 \in 0..sequence /\ (k # a => k - 1 \in a..sequence)
      BY <1>0, <1>3, <1>5
    <3>2. CASE k = a
      BY <1>2, <1>6, <1>10, <3>1, <3>2 DEF OnChain
    <3>3. CASE k # a
      <4>1. audit[k - 1].hash = chain[k - 1]
        BY <1>2a, <3>1, <3>3
      <4>2. QED
        BY <1>6, <1>10, <3>1, <3>3, <4>1
    <3>4. QED
      BY <3>2, <3>3
  <2>2. ASSUME NEW i \in k..id
        PROVE  \E d \in Content : audit'[i] = Row(d, longer[i - 1])
                                  /\ longer[i] = record_hash(longer[i - 1], d)
    <3>1. CASE i = id
      <4>1. i - 1 = sequence /\ sequence \in 0..sequence
        BY <1>0, <1>3, <3>1
      <4>2. QED
        BY <1>6, <1>7, <1>8, <1>10, <3>1, <4>1
    <3>2. CASE i # id
      <4>1. i \in a..sequence /\ i \in 0..sequence /\ i - 1 \in 0..sequence
        BY <1>0, <1>3, <1>5, <3>2
      <4>2. PICK d \in Content : audit[i] = Row(d, chain[i - 1])
                                 /\ chain[i] = record_hash(chain[i - 1], d)
        BY <1>2, <4>1 DEF OnChain
      <4>3. QED
        BY <1>6, <1>10, <3>2, <4>1, <4>2
    <3>3. QED
      BY <3>1, <3>2
  <2>3. QED
    BY <1>6, <2>1, <2>2 DEF OnChain
<1>13. k \in 1..(id + 1)
  BY <1>5
<1>14. QED
  BY <1>5, <1>10, <1>11, <1>12, <1>13 DEF History

LEMMA HistoryKept ==
  ASSUME NEW Digests, CollisionFree(Digests), TypeOK, History(Digests), [Next]_vars
  PROVE  History(Digests)'
<1>1. ASSUME NEW c \in Content, append(c) PROVE History(Digests)'
  BY <1>1, AppendHistory
<1>2. ASSUME UNCHANGED <<audit, sequence, audit_anchor>> PROVE History(Digests)'
  BY <1>2 DEF History
<1>3. QED
  BY <1>1, <1>2 DEF Next, vars, append_fails, open, verify, recent

LEMMA HistoryStarts ==
  ASSUME NEW Digests, CollisionFree(Digests), Init
  PROVE  History(Digests)
<1>1. DOMAIN audit = {} /\ sequence = 0 /\ audit_anchor = GENESIS_HASH
  BY DEF Init
<1>2. PICK chain : chain = [n \in 0..0 |-> GENESIS_HASH]
  OBVIOUS
<1>3. chain \in [0..0 -> Digests] /\ chain[0] = GENESIS_HASH
  BY <1>2 DEF CollisionFree
<1>4. IsChain(chain, 0)
  BY <1>3 DEF IsChain
<1>5. 1..0 = {} /\ 1 - 1 = 0 /\ 1 \in 1..(0 + 1)
  OBVIOUS
<1>6. OnChain(chain, audit, audit_anchor, 1, 0)
  BY <1>1, <1>3, <1>5 DEF OnChain
<1>7. QED
  BY <1>1, <1>3, <1>4, <1>5, <1>6 DEF History

(* verify: while the hash function does not collide, every altered row, every  *)
(* row missing from inside the table and every exchange of two rows is         *)
(* noticed, after any appends, deletions and changes of the limit.             *)
THEOREM DamageNoticed ==
  ASSUME NEW CONSTANT Digests, CollisionFree(Digests)
  PROVE  Spec => []DamageDetected
<1>1. Init => History(Digests)
  BY HistoryStarts
<1>2. TypeOK /\ History(Digests) /\ [Next]_vars => History(Digests)'
  BY HistoryKept
<1>3. TypeOK /\ History(Digests) => DamageDetected
  BY HistoryNoticesDamage, LimitAssumption DEF TypeOK
<1>4. QED
  BY <1>1, <1>2, <1>3, TypeCorrect, PTL DEF Spec

(* append: the UNIQUE constraint on the hash column never rejects a record.    *)
NeverRejected ==
  \A c \in Content, i \in DOMAIN audit :
    audit[i].hash # record_hash(HashBefore(audit, audit_anchor, sequence + 1), c)

LEMMA HistoryNeverRejects ==
  ASSUME NEW Digests, CollisionFree(Digests), sequence \in Nat, History(Digests)
  PROVE  NeverRejected
<1>1. PICK chain \in [0..sequence -> Digests] :
        /\ IsChain(chain, sequence)
        /\ \E first \in 1..(sequence + 1) : OnChain(chain, audit, audit_anchor, first, sequence)
  BY DEF History
<1>2. PICK a \in 1..(sequence + 1) : OnChain(chain, audit, audit_anchor, a, sequence)
  BY <1>1
<1>3. HashBefore(audit, audit_anchor, sequence + 1) = chain[sequence]
  BY <1>2, NextOnChain
<1>4. ASSUME NEW c \in Content, NEW i \in a..sequence
      PROVE  audit[i].hash # record_hash(chain[sequence], c)
  <2>1. i \in 0..sequence /\ i - 1 \in 0..sequence /\ sequence \in 0..sequence /\ i - 1 < sequence
    OBVIOUS
  <2>2. /\ audit[i].hash = chain[i]
        /\ audit[i].content \in Content
        /\ chain[i] = record_hash(chain[i - 1], audit[i].content)
    BY <1>2, RowOnChain
  <2>3. audit[i].hash = record_hash(chain[i - 1], audit[i].content)
    BY <2>2
  <2>4. chain[i - 1] # chain[sequence]
    BY <1>1, <2>1, ChainDistinct
  <2>5. QED
    BY <2>1, <2>2, <2>3, <2>4 DEF CollisionFree
<1>5. DOMAIN audit = a..sequence
  BY <1>2 DEF OnChain
<1>6. QED
  BY <1>3, <1>4, <1>5 DEF NeverRejected

(* While the hash function does not collide, the guard that models UNIQUE is   *)
(* never the reason for an append to fail.                                     *)
THEOREM UniqueNeverRejects ==
  ASSUME NEW CONSTANT Digests, CollisionFree(Digests)
  PROVE  Spec => []NeverRejected
<1>1. Init => History(Digests)
  BY HistoryStarts
<1>2. TypeOK /\ History(Digests) /\ [Next]_vars => History(Digests)'
  BY HistoryKept
<1>3. TypeOK /\ History(Digests) => NeverRejected
  BY HistoryNeverRejects, LimitAssumption DEF TypeOK
<1>4. QED
  BY <1>1, <1>2, <1>3, TypeCorrect, PTL DEF Spec

-------------------------------------------------------------------------------
(* The store implements AuditLog                                               *)
LogOf(table) ==
  [k \in 1..Cardinality(DOMAIN table) |->
     table[CHOOSE i \in DOMAIN table : Cardinality(Below(table, i)) = k - 1].content]

Window(table, a, n) == [k \in 1..n |-> table[a + k - 1].content]

LEMMA LogInterval ==
  ASSUME NEW table, NEW a \in Nat \ {0}, NEW b \in Nat, a <= b + 1, DOMAIN table = a..b,
         NEW n, n = b - a + 1
  PROVE  /\ n \in Nat /\ Cardinality(DOMAIN table) = n
         /\ LogOf(table) = Window(table, a, n)
<1>1. n \in Nat /\ Cardinality(DOMAIN table) = n
  BY IntervalCardinality
<1>2. \A k \in 1..n : Cutoff(table, k) = a + k - 1
  BY CutoffInterval
<1>3. LogOf(table) = [k \in 1..n |-> table[Cutoff(table, k)].content]
  BY <1>1 DEF LogOf, Cutoff
<1>4. QED
  BY <1>1, <1>2, <1>3 DEF Window

(* A record is added at the new end and the window keeps its last m records.   *)
Slides(g, log, c, n, m) ==
  /\ g = [i \in 1..m |-> g[i]]
  /\ \A i \in 1..m : g[i] = IF i = m THEN c ELSE log[n + 1 - m + i]

Kept(log, c, m) ==
  LET all == Append(log, c) IN SubSeq(all, Len(all) - m + 1, Len(all))

LEMMA WindowMoves ==
  ASSUME NEW S, NEW log \in Seq(S), NEW c \in S, NEW n \in Nat, n = Len(log),
         NEW m \in 1..(n + 1), NEW g, Slides(g, log, c, n, m)
  PROVE  g = Kept(log, c, m)
<1>1. PICK all : all = Append(log, c)
  OBVIOUS
<1>2. /\ all \in Seq(S) /\ Len(all) = n + 1 /\ all[n + 1] = c
      /\ \A i \in 1..n : all[i] = log[i]
  BY <1>1
<1>3. PICK f : f = n + 1 - m
  OBVIOUS
<1>4. f \in 0..n /\ f + m = n + 1
  BY <1>3
<1>5. SubSeq(all, f + 1, n + 1) = [i \in 1..m |-> all[f + i]]
  <2>1. (n + 1) - (f + 1) + 1 = m /\ \A i \in 1..m : i + (f + 1) - 1 = f + i
    BY <1>4
  <2>2. QED
    BY <1>2, <1>4, <2>1
<1>6. ASSUME NEW i \in 1..m PROVE g[i] = all[f + i]
  <2>1. CASE i = m
    BY <1>2, <1>4, <2>1 DEF Slides
  <2>2. CASE i # m
    <3>1. f + i \in 1..n
      BY <1>4, <2>2
    <3>2. QED
      BY <1>2, <1>3, <2>2, <3>1 DEF Slides
  <2>3. QED
    BY <2>1, <2>2
<1>7. g = SubSeq(all, f + 1, n + 1)
  BY <1>5, <1>6 DEF Slides
<1>8. f + 1 = Len(all) - m + 1 /\ Len(all) = n + 1
  BY <1>2, <1>3
<1>9. g = SubSeq(all, Len(all) - m + 1, Len(all))
  BY <1>7, <1>8
<1>10. QED
  BY <1>1, <1>9 DEF Kept

LEMMA AppendMaps ==
  ASSUME TypeOK, NEW c \in Content, append(c)
  PROVE  Abstract!Append_(c)
<1>0. sequence \in Nat /\ max_records \in Nat
  BY LimitAssumption DEF TypeOK
<1>1. PICK a \in 1..(sequence + 1) : DOMAIN audit = a..sequence
  BY DEF TypeOK
<1>2. PICK id : id = sequence + 1
  OBVIOUS
<1>3. PICK row : row = Row(c, HashBefore(audit, audit_anchor, id))
  OBVIOUS
<1>4. /\ id \in Nat \ {0} /\ a \in 1..id
      /\ \E k \in a..id :
           /\ k = FirstKept(a, id, max_records)
           /\ DOMAIN audit' = k..id
           /\ \A i \in k..id : audit'[i] = IF i = id THEN row ELSE audit[i]
           /\ audit_anchor' = IF k = a THEN audit_anchor ELSE audit[k - 1].hash
      /\ max_records' = max_records
  BY <1>1, <1>2, <1>3, AppendFacts
<1>5. PICK k \in a..id :
        /\ k = FirstKept(a, id, max_records)
        /\ DOMAIN audit' = k..id
        /\ \A i \in k..id : audit'[i] = IF i = id THEN row ELSE audit[i]
  BY <1>4
<1>6. PICK n : n = sequence - a + 1
  OBVIOUS
<1>7. PICK m : m = id - k + 1
  OBVIOUS
<1>8. n \in Nat /\ m \in 1..(n + 1) /\ k = a + (n + 1 - m) /\ id = a + n
  BY <1>0, <1>1, <1>2, <1>4, <1>6, <1>7
<1>9. Log = [i \in 1..n |-> audit[a + i - 1].content]
  <2>1. a \in Nat \ {0} /\ a <= sequence + 1
    BY <1>0, <1>1
  <2>2. PICK b \in Nat : b = sequence
    BY <1>0
  <2>3. a <= b + 1 /\ DOMAIN audit = a..b /\ n = b - a + 1
    BY <1>1, <1>6, <2>1, <2>2
  <2>4. LogOf(audit) = Window(audit, a, n)
    BY <2>1, <2>3, LogInterval
  <2>5. QED
    BY <2>4 DEF Log, LogOf, Window
<1>10. Log' = [i \in 1..m |-> audit'[k + i - 1].content]
  <2>1. k \in Nat \ {0} /\ k <= id + 1 /\ id \in Nat
    BY <1>4
  <2>2. LogOf(audit') = [i \in 1..m |-> audit'[k + i - 1].content]
    BY <1>5, <1>7, <2>1, LogInterval DEF Window
  <2>3. QED
    BY <2>2 DEF Log, LogOf
<1>11. PICK old : old = Log
  OBVIOUS
<1>12. PICK new : new = Log'
  OBVIOUS
<1>13. PICK S : S = {audit[i].content : i \in a..sequence} \cup {c}
  OBVIOUS
<1>14. old \in Seq(S) /\ Len(old) = n /\ c \in S
  <2>1. \A i \in 1..n : audit[a + i - 1].content \in S
    <3>1. \A i \in 1..n : a + i - 1 \in a..sequence
      BY <1>0, <1>1, <1>6, <1>8
    <3>2. QED
      BY <1>13, <3>1
  <2>2. old \in [1..n -> S]
    BY <1>9, <1>11, <2>1
  <2>3. QED
    BY <1>8, <1>13, <2>2
<1>15. ASSUME NEW i \in 1..m PROVE new[i] = IF i = m THEN c ELSE old[n + 1 - m + i]
  <2>1. k + i - 1 \in k..id /\ (k + i - 1 = id <=> i = m)
    BY <1>4, <1>7, <1>8
  <2>2. new[i] = audit'[k + i - 1].content
    BY <1>10, <1>12
  <2>3. CASE i = m
    BY <1>3, <1>5, <2>1, <2>2, <2>3 DEF Row
  <2>4. CASE i # m
    <3>1. n + 1 - m + i \in 1..n /\ a + (n + 1 - m + i) - 1 = k + i - 1
      BY <1>1, <1>8, <2>4
    <3>2. old[n + 1 - m + i] = audit[k + i - 1].content
      BY <1>9, <1>11, <3>1
    <3>3. QED
      BY <1>5, <2>1, <2>2, <2>4, <3>2
  <2>5. QED
    BY <2>3, <2>4
<1>16. Slides(new, old, c, n, m)
  BY <1>10, <1>12, <1>15 DEF Slides
<1>18. m = IF max_records = 0 THEN n + 1 ELSE IF max_records < n + 1 THEN max_records ELSE n + 1
  <2>1. CASE max_records = 0 \/ id - a + 1 <= max_records
    BY <1>0, <1>1, <1>2, <1>5, <1>6, <1>7, <2>1 DEF FirstKept
  <2>2. CASE ~(max_records = 0 \/ id - a + 1 <= max_records)
    BY <1>0, <1>1, <1>2, <1>5, <1>6, <1>7, <2>2 DEF FirstKept
  <2>3. QED
    BY <2>1, <2>2
<1>19. Len(Append(old, c)) = n + 1
  BY <1>14
<1>20. reply' = <<"appended">>
  BY DEF append
<1>21. PICK length : length = Len(Append(old, c))
  OBVIOUS
<1>22. new = Kept(old, c, m)
  BY <1>8, <1>14, <1>16, WindowMoves
<1>23. m = IF max_records = 0 THEN length ELSE Abstract!AtMost(max_records, length)
  BY <1>18, <1>19, <1>21 DEF Abstract!AtMost
<1>24. QED
  BY <1>4, <1>11, <1>12, <1>20, <1>21, <1>22, <1>23 DEF Abstract!Append_, Kept

RowsBack(table, b, count) == [k \in 1..count |-> table[b - k + 1].content]

LEMMA NewestInterval ==
  ASSUME NEW table, NEW a \in Nat \ {0}, NEW b \in Nat, a <= b + 1, DOMAIN table = a..b,
         NEW l \in Nat, l = b - a + 1, NEW n \in Nat,
         NEW count, count = IF n < l THEN n ELSE l
  PROVE  NewestFirst(table, n) = RowsBack(table, b, count)
<1> DEFINE Place(i) == Cardinality({j \in DOMAIN table : j >= i})
<1>1. Cardinality(DOMAIN table) = l
  BY IntervalCardinality
<1>2. ASSUME NEW i \in a..b PROVE Place(i) = b - i + 1
  <2>1. {j \in DOMAIN table : j >= i} = i..b
    OBVIOUS
  <2>2. i \in Nat /\ i <= b + 1
    OBVIOUS
  <2>3. Cardinality(i..b) = b - i + 1
    BY <2>2, IntervalCardinality
  <2>4. QED
    BY <2>1, <2>3
<1> HIDE DEF Place
<1>3. ASSUME NEW k \in 1..count PROVE (CHOOSE i \in DOMAIN table : Place(i) = k) = b - k + 1
  <2>1. b - k + 1 \in a..b
    OBVIOUS
  <2>2. \A i \in a..b : Place(i) = k <=> i = b - k + 1
    BY <1>2
  <2>3. QED
    BY <2>1, <2>2
<1>4. NewestFirst(table, n) =
        [k \in 1..count |-> table[CHOOSE i \in DOMAIN table : Place(i) = k].content]
  BY <1>1 DEF NewestFirst, Place
<1>5. QED
  BY <1>3, <1>4 DEF RowsBack

(* The newest records of a log, the last one first.                            *)
LastBack(log, l, count) == Abstract!Reverse(SubSeq(log, l - count + 1, l))
ItemsBack(log, l, count) == [k \in 1..count |-> log[l - k + 1]]

LEMMA NewestReversed ==
  ASSUME NEW S, NEW log \in Seq(S), NEW l \in Nat, l = Len(log), NEW count \in 0..l
  PROVE  LastBack(log, l, count) = ItemsBack(log, l, count)
<1>1. PICK s : s = SubSeq(log, l - count + 1, l)
  OBVIOUS
<1>2. s \in Seq(S) /\ Len(s) = count /\ \A i \in 1..count : s[i] = log[l - count + i]
  <2>1. l - count + 1 \in 1..(l + 1) /\ l - (l - count + 1) + 1 = count
    OBVIOUS
  <2>2. \A i \in 1..count : (l - count + 1) + i - 1 = l - count + i
    OBVIOUS
  <2>3. PICK f \in 1..(l + 1) : f = l - count + 1
    BY <2>1
  <2>4. s = SubSeq(log, f, l) /\ l - f + 1 = count /\ \A i \in 1..count : f + i - 1 = l - count + i
    BY <1>1, <2>3
  <2>5. s \in Seq(S) /\ Len(s) = count /\ \A i \in 1..count : s[i] = log[f + i - 1]
    BY <2>4
  <2>6. QED
    BY <2>4, <2>5
<1>3. ASSUME NEW k \in 1..count PROVE s[(count - k) + 1] = log[l - k + 1]
  <2>1. (count - k) + 1 \in 1..count /\ l - count + ((count - k) + 1) = l - k + 1
    OBVIOUS
  <2>2. QED
    BY <1>2, <2>1
<1>4. Abstract!Reverse(s) = [k \in 1..count |-> s[(count - k) + 1]]
  BY <1>2 DEF Abstract!Reverse
<1>5. QED
  BY <1>1, <1>3, <1>4 DEF LastBack, ItemsBack

LEMMA LogFacts ==
  ASSUME TypeOK
  PROVE  \E a \in 1..(sequence + 1), l \in Nat :
           /\ DOMAIN audit = a..sequence /\ l = sequence - a + 1
           /\ Cardinality(DOMAIN audit) = l
           /\ Log = Window(audit, a, l)
           /\ Len(Log) = l /\ \E S : Log \in Seq(S)
<1>0. sequence \in Nat
  BY LimitAssumption DEF TypeOK
<1>1. PICK a \in 1..(sequence + 1) : DOMAIN audit = a..sequence
  BY DEF TypeOK
<1>2. PICK l : l = sequence - a + 1
  OBVIOUS
<1>3. PICK b \in Nat : b = sequence
  BY <1>0
<1>4. a \in Nat \ {0} /\ a <= b + 1 /\ DOMAIN audit = a..b /\ l = b - a + 1
  BY <1>1, <1>2, <1>3
<1>5. l \in Nat /\ Cardinality(DOMAIN audit) = l /\ LogOf(audit) = Window(audit, a, l)
  BY <1>4, LogInterval
<1>6. Log = Window(audit, a, l)
  BY <1>5 DEF Log, LogOf
<1>7. PICK S : S = {audit[i].content : i \in a..b}
  OBVIOUS
<1>8. \A i \in 1..l : audit[a + i - 1].content \in S
  <2>1. \A i \in 1..l : a + i - 1 \in a..b
    BY <1>4
  <2>2. QED
    BY <1>7, <2>1
<1>9. Log \in [1..l -> S]
  BY <1>6, <1>8 DEF Window
<1>10. Log \in Seq(S) /\ Len(Log) = l
  BY <1>5, <1>9
<1>11. QED
  BY <1>1, <1>2, <1>5, <1>6, <1>10

LEMMA RecentMaps ==
  ASSUME TypeOK, recent
  PROVE  Abstract!Recent
<1>0. sequence \in Nat
  BY LimitAssumption DEF TypeOK
<1>1. PICK a \in 1..(sequence + 1), l \in Nat :
        /\ DOMAIN audit = a..sequence /\ l = sequence - a + 1
        /\ Log = Window(audit, a, l)
        /\ Len(Log) = l /\ \E S : Log \in Seq(S)
  BY LogFacts
<1>2. PICK n \in Requests :
        reply' = <<"recent", NewestFirst(audit, IF n < RecentCap THEN n ELSE RecentCap)>>
  BY DEF recent
<1>3. PICK q : q = Abstract!AtMost(n, RecentCap)
  OBVIOUS
<1>4. q \in Nat /\ reply' = <<"recent", NewestFirst(audit, q)>>
  BY <1>2, <1>3, LimitAssumption DEF Abstract!AtMost
<1>5. PICK count : count = Abstract!AtMost(q, l)
  OBVIOUS
<1>6. count \in 0..l /\ count = IF q < l THEN q ELSE l
  BY <1>4, <1>5 DEF Abstract!AtMost
<1>7. NewestFirst(audit, q) = RowsBack(audit, sequence, count)
  <2>1. PICK b \in Nat : b = sequence
    BY <1>0
  <2>2. a \in Nat \ {0} /\ a <= b + 1 /\ DOMAIN audit = a..b /\ l = b - a + 1
    BY <1>1, <2>1
  <2>3. NewestFirst(audit, q) = RowsBack(audit, b, count)
    BY <1>4, <1>6, <2>2, NewestInterval
  <2>4. QED
    BY <2>1, <2>3
<1>8. PICK log : log = Log
  OBVIOUS
<1>9. LastBack(log, l, count) = ItemsBack(log, l, count)
  BY <1>1, <1>6, <1>8, NewestReversed
<1>10. ASSUME NEW k \in 1..count PROVE log[l - k + 1] = audit[sequence - k + 1].content
  <2>1. l - k + 1 \in 1..l /\ a + (l - k + 1) - 1 = sequence - k + 1
    BY <1>0, <1>1, <1>6
  <2>2. QED
    BY <1>1, <1>8, <2>1 DEF Window
<1>11. NewestFirst(audit, q) = Abstract!Reverse(SubSeq(log, l - count + 1, l))
  <2>1. RowsBack(audit, sequence, count) = ItemsBack(log, l, count)
    BY <1>10 DEF RowsBack, ItemsBack
  <2>2. QED
    BY <1>7, <1>9, <2>1 DEF LastBack
<1>12. Abstract!Newest(count) = SubSeq(log, l - count + 1, l)
  BY <1>1, <1>8 DEF Abstract!Newest
<1>13. reply' = <<"recent", Abstract!Reverse(Abstract!Newest(Abstract!AtMost(
                               Abstract!AtMost(n, RecentCap), Len(Log))))>>
  BY <1>1, <1>3, <1>4, <1>5, <1>11, <1>12
<1>14. UNCHANGED <<Log, max_records>>
  BY DEF recent, Log
<1>15. QED
  BY <1>13, <1>14 DEF Abstract!Recent

LEMMA StepMaps ==
  ASSUME TypeOK, ChainVerifies, [Next]_vars
  PROVE  [Abstract!Next]_<<Log, max_records, reply>>
<1>1. ASSUME NEW c \in Content, append(c) PROVE Abstract!Next
  BY <1>1, AppendMaps DEF Abstract!Next
<1>2. CASE append_fails
  <2>1. Log' = Log
    BY <1>2 DEF append_fails, Log
  <2>2. QED
    BY <1>2, <2>1 DEF append_fails, Abstract!Refuse, Abstract!Next
<1>3. CASE open
  <2>1. Log' = Log
    BY <1>3 DEF open, Log
  <2>2. QED
    BY <1>3, <2>1 DEF open, Abstract!Reopen, Abstract!Next
<1>4. CASE verify
  <2>1. Log' = Log
    BY <1>4 DEF verify, Log
  <2>2. Len(Log) = Cardinality(DOMAIN audit)
    BY LogFacts
  <2>3. reply' = <<"verified", Len(Log)>> /\ max_records' = max_records
    BY <1>4, <2>2 DEF verify, ChainVerifies
  <2>4. QED
    BY <2>1, <2>3 DEF Abstract!Verify, Abstract!Next
<1>5. CASE recent
  BY <1>5, RecentMaps DEF Abstract!Next
<1>6. CASE UNCHANGED vars
  BY <1>6 DEF vars, Log
<1>7. QED
  BY <1>1, <1>2, <1>3, <1>4, <1>5, <1>6 DEF Next

LEMMA StartMaps == Init => Abstract!Init
<1> SUFFICES ASSUME Init PROVE Abstract!Init
  OBVIOUS
<1>1. DOMAIN audit = {} /\ max_records \in Limits /\ reply = <<"opened">>
  BY DEF Init
<1>2. Cardinality(DOMAIN audit) = 0
  BY <1>1, FS_EmptySet
<1>3. Log = <<>>
  <2>1. Log \in [1..0 -> {}]
    BY <1>2 DEF Log
  <2>2. QED
    BY <2>1
<1>4. QED
  BY <1>1, <1>3 DEF Abstract!Init

(* The audit store behaves, for every hash function, limit and number of       *)
(* appends, as one log with a moving window: an append adds its record and     *)
(* forgets the oldest ones, a failed append leaves no trace, recent answers    *)
(* the newest records first and verify never reports a break.                  *)
THEOREM StoreIsLog == Spec => ImplementsLog
<1>1. TypeOK /\ ChainVerifies /\ [Next]_vars => [Abstract!Next]_<<Log, max_records, reply>>
  BY StepMaps
<1>2. QED
  BY <1>1, StartMaps, TypeCorrect, ChainSafe, PTL DEF Spec, ImplementsLog, Abstract!Spec
===============================================================================
