-------------------------- MODULE HotkeySensorProofs --------------------------
(* Proofs about HotkeySensor, for every sequence of keys, window, capacity of  *)
(* the channel and number of presses.                                          *)
EXTENDS HotkeySensor, WellFoundedInduction, TLAPS

(* The press before the oldest one of the buffer.                              *)
Before == Len(presses) - Len(buffer)

(* The buffer is the end of what was read.  No key of it belongs to a match,   *)
(* and it could not be longer: the press before it belongs to a match, is too  *)
(* old, or is one too many.                                                    *)
BufferFits ==
  /\ Len(buffer) <= Len(presses) /\ Len(buffer) <= Length
  /\ \A i \in 1..Len(buffer) : buffer[i] = presses[Before + i]
  /\ \A m \in marks : m <= Before
  /\ Before > 0 =>
       \/ Before \in marks
       \/ clock - presses[Before].at > Within
       \/ Len(buffer) = Length

IInv == TypeOK /\ BufferFits /\ FiresExactly
-------------------------------------------------------------------------------
(* What Trim returns                                                           *)
LEMMA FirstIsLeast ==
  ASSUME NEW S \in SUBSET Nat, S # {}
  PROVE  First(S) \in S /\ \A j \in S : First(S) <= j
<1> DEFINE R == {ss \in Nat \X Nat : ss[1] < ss[2]}
<1>1. IsWellFoundedOn(R, Nat)
  BY NatLessThanWellFounded DEF OpToRel
<1> HIDE DEF R
<1>2. PICK x \in S : \A y \in S : ~(<<y, x>> \in R)
  BY <1>1, WFMin
<1>3. ASSUME NEW y \in S PROVE x <= y
  <2>1. x \in Nat /\ y \in Nat
    OBVIOUS
  <2>2. y < x => <<y, x>> \in R
    BY <2>1 DEF R
  <2>3. QED
    BY <1>2, <2>1, <2>2
<1>4. QED
  BY <1>3 DEF First

LEMMA LengthPositive == Length \in Nat /\ Length > 0 /\ DOMAIN sequence = 1..Length
BY HotkeyAssumption DEF Length, sequence

(* An entry of the buffer                                                      *)
Entry == [code : Pressed, at : 0..clock]

LEMMA TrimFacts ==
  ASSUME NEW e \in Seq(Entry), clock \in Nat, \A i \in 1..Len(e) : e[i].at \in Nat
  PROVE  \E f \in 1..(Len(e) + 1) :
           /\ Len(e) - f < Length
           /\ f <= Len(e) => clock - e[f].at <= Within
           /\ \A j \in 1..(f - 1) : Len(e) - j >= Length \/ clock - e[j].at > Within
           /\ Trim(e) \in Seq(Entry) /\ Len(Trim(e)) = Len(e) - f + 1
           /\ \A i \in 1..(Len(e) - f + 1) : Trim(e)[i] = e[f + i - 1]
<1> DEFINE n == Len(e)
           kept == {i \in 1..(n + 1) : /\ n - i < Length
                                       /\ i <= n => clock - e[i].at <= Within}
           f == First(kept)
<1>1. n \in Nat /\ Within \in Nat
  BY HotkeyAssumption
<1>2. n + 1 \in kept
  BY <1>1, LengthPositive
<1>3. kept \in SUBSET Nat
  BY <1>1
<1>4. f \in kept /\ \A j \in kept : f <= j
  <2> HIDE DEF kept
  <2>1. QED
    BY <1>2, <1>3, FirstIsLeast
<1>5. Trim(e) = SubSeq(e, f, n)
  BY DEF Trim
<1> HIDE DEF f
<1>6. f \in 1..(n + 1) /\ n - f < Length /\ (f <= n => clock - e[f].at <= Within)
  BY <1>4
<1>7. ASSUME NEW j \in 1..(f - 1) PROVE n - j >= Length \/ clock - e[j].at > Within
  <2>1. j \in 1..n /\ j < f /\ e[j].at \in Nat
    BY <1>1, <1>6
  <2>2. j \notin kept
    BY <1>4, <1>6, <2>1
  <2>3. QED
    BY <1>1, <2>1, <2>2, LengthPositive
<1> HIDE DEF kept
<1>8. /\ SubSeq(e, f, n) \in Seq(Entry) /\ Len(SubSeq(e, f, n)) = n - f + 1
      /\ \A i \in 1..(n - f + 1) : SubSeq(e, f, n)[i] = e[f + i - 1]
  BY <1>1, <1>6
<1>9. QED
  BY <1>5, <1>6, <1>7, <1>8

-------------------------------------------------------------------------------
(* A key is read                                                               *)
Keypress == [code |-> Head(queue), at |-> clock]

LEMMA KeyFacts ==
  ASSUME IInv, queue # <<>>, Head(queue) # 0, presses' = Append(presses, Keypress)
  PROVE  /\ Len(presses) \in Nat /\ Len(buffer) \in Nat /\ Len(buffer) <= Len(presses)
         /\ clock \in Nat /\ Within \in Nat /\ Keypress.at = clock
         /\ Tail(queue) \in Seq(Pressed \cup {0})
         /\ Append(buffer, Keypress) \in Seq(Entry)
         /\ Len(Append(buffer, Keypress)) = Len(buffer) + 1
         /\ presses' \in Seq(Entry) /\ Len(presses') = Len(presses) + 1
         /\ \A i \in 1..Len(presses) : presses'[i] = presses[i]
         /\ presses'[Len(presses) + 1] = Keypress
         /\ \A i \in 1..(Len(buffer) + 1) :
              Append(buffer, Keypress)[i] = presses'[Before + i]
         /\ \A i \in 1..(Len(presses) + 1) : presses'[i].at \in 0..clock
         /\ \A i, j \in 1..(Len(presses) + 1) : i <= j => presses'[i].at <= presses'[j].at
<1>1. /\ queue \in Seq(Pressed \cup {0}) /\ presses \in Seq(Entry) /\ buffer \in Seq(Entry)
      /\ clock \in Nat /\ Within \in Nat
      /\ \A i, j \in DOMAIN presses : i <= j => presses[i].at <= presses[j].at
  BY HotkeyAssumption DEF IInv, TypeOK, Entry
<1>2. Keypress \in Entry
  <2>1. Head(queue) \in Pressed
    BY <1>1
  <2>2. QED
    BY <1>1, <2>1 DEF Keypress, Entry
<1>3. Tail(queue) \in Seq(Pressed \cup {0})
  BY <1>1
<1>4. /\ Len(presses) \in Nat /\ Len(buffer) \in Nat
      /\ Append(buffer, Keypress) \in Seq(Entry) /\ presses' \in Seq(Entry)
      /\ Len(Append(buffer, Keypress)) = Len(buffer) + 1 /\ Len(presses') = Len(presses) + 1
      /\ \A i \in 1..Len(presses) : presses'[i] = presses[i]
      /\ presses'[Len(presses) + 1] = Keypress
      /\ \A i \in 1..Len(buffer) : Append(buffer, Keypress)[i] = buffer[i]
      /\ Append(buffer, Keypress)[Len(buffer) + 1] = Keypress
      /\ DOMAIN presses = 1..Len(presses)
  BY <1>1, <1>2
<1>5. /\ Len(buffer) <= Len(presses)
      /\ \A i \in 1..Len(buffer) : buffer[i] = presses[Len(presses) - Len(buffer) + i]
  BY DEF IInv, BufferFits, Before
<1>6. ASSUME NEW i \in 1..(Len(buffer) + 1)
      PROVE  Append(buffer, Keypress)[i] = presses'[Before + i]
  <2>1. CASE i = Len(buffer) + 1
    BY <1>4, <1>5, <2>1 DEF Before
  <2>2. CASE i \in 1..Len(buffer)
    <3>1. Len(presses) - Len(buffer) + i \in 1..Len(presses)
      BY <1>4, <1>5, <2>2
    <3>2. QED
      BY <1>4, <1>5, <2>2, <3>1 DEF Before
  <2>3. i = Len(buffer) + 1 \/ i \in 1..Len(buffer)
    BY <1>4
  <2>4. QED
    BY <2>1, <2>2, <2>3
<1>7. ASSUME NEW i \in 1..(Len(presses) + 1) PROVE presses'[i].at \in 0..clock
  <2>1. presses'[i] \in Entry
    BY <1>4
  <2>2. QED
    BY <2>1 DEF Entry
<1>8. Keypress.at = clock
  BY DEF Keypress
<1>9. ASSUME NEW i \in 1..(Len(presses) + 1), NEW j \in 1..(Len(presses) + 1), i <= j
      PROVE  presses'[i].at <= presses'[j].at
  <2>1. CASE j = Len(presses) + 1
    BY <1>1, <1>4, <1>7, <1>8, <2>1
  <2>2. CASE j \in 1..Len(presses)
    BY <1>1, <1>4, <1>9, <2>2
  <2>3. QED
    BY <1>4, <2>1, <2>2
<1>10. QED
  BY <1>1, <1>3, <1>4, <1>5, <1>6, <1>7, <1>8, <1>9

(* The keys up to the new one complete the sequence.                           *)
CompletesAt(n) ==
  /\ n >= Length
  /\ \A i \in 1..Length : presses'[n - Length + i].code = sequence[i]
  /\ presses'[n].at - presses'[n - Length + 1].at <= Within
  /\ \A m \in marks : m <= n - Length

CompletesNow == CompletesAt(Len(presses) + 1)

(* The buffer with the new key, trimmed, is the end of what was read; it is    *)
(* the sequence exactly when the sequence is complete, and cannot be longer.   *)
LEMMA EntriesFacts ==
  ASSUME IInv, queue # <<>>, Head(queue) # 0, presses' = Append(presses, Keypress),
         NEW entries, entries = Trim(Append(buffer, Keypress))
  PROVE  /\ entries \in Seq(Entry)
         /\ Len(entries) <= Len(presses) + 1 /\ Len(entries) <= Length
         /\ \A i \in 1..Len(entries) : entries[i] = presses'[Len(presses) + 1 - Len(entries) + i]
         /\ Codes(entries) = sequence <=> CompletesNow
         /\ \A m \in marks : m <= Len(presses) + 1 - Len(entries)
         /\ Len(presses) + 1 - Len(entries) > 0 =>
              \/ Len(presses) + 1 - Len(entries) \in marks
              \/ clock - presses'[Len(presses) + 1 - Len(entries)].at > Within
              \/ Len(entries) = Length
<1> DEFINE e == Append(buffer, Keypress)
           N == Len(presses)
           k == Len(buffer)
           b == N + 1 - Len(entries)
<1>1. /\ N \in Nat /\ k \in Nat /\ k <= N /\ clock \in Nat /\ Within \in Nat
      /\ e \in Seq(Entry) /\ Len(e) = k + 1 /\ presses'[N + 1].at = clock
      /\ \A i \in 1..(k + 1) : e[i] = presses'[N - k + i]
      /\ \A i \in 1..(N + 1) : presses'[i].at \in 0..clock
      /\ \A i \in 1..N : presses'[i] = presses[i]
      /\ \A i, j \in 1..(N + 1) : i <= j => presses'[i].at <= presses'[j].at
  BY KeyFacts DEF Before
<1>2. /\ k <= Length /\ (\A m \in marks : m \in Nat /\ m <= N - k)
      /\ N - k > 0 => N - k \in marks \/ clock - presses[N - k].at > Within \/ k = Length
  <2>1. DOMAIN presses = 1..N
    BY DEF IInv, TypeOK
  <2>2. QED
    BY <2>1 DEF IInv, BufferFits, Before, TypeOK
<1>3. Length \in Nat /\ Length > 0 /\ DOMAIN sequence = 1..Length
  BY LengthPositive
<1> HIDE DEF e
<1>dated. \A i \in 1..(N + 1) : presses'[i].at \in Nat
  BY <1>1
<1>4. ASSUME NEW i \in 1..(k + 1) PROVE e[i].at \in Nat
  <2>1. N - k + i \in 1..(N + 1)
    BY <1>1
  <2>2. e[i] = presses'[N - k + i]
    BY <1>1
  <2>3. QED
    BY <1>dated, <2>1, <2>2
<1>5. PICK f \in 1..(Len(e) + 1) :
        /\ Len(e) - f < Length
        /\ f <= Len(e) => clock - e[f].at <= Within
        /\ \A j \in 1..(f - 1) : Len(e) - j >= Length \/ clock - e[j].at > Within
        /\ entries \in Seq(Entry) /\ Len(entries) = Len(e) - f + 1
        /\ \A i \in 1..(Len(e) - f + 1) : entries[i] = e[f + i - 1]
  <2>1. \A i \in 1..Len(e) : e[i].at \in Nat
    BY <1>1, <1>4
  <2>2. entries = Trim(e)
    BY DEF e
  <2>3. e \in Seq(Entry) /\ clock \in Nat
    BY <1>1
  <2> HIDE DEF N, k, b
  <2>4. \E f \in 1..(Len(e) + 1) :
          /\ Len(e) - f < Length
          /\ f <= Len(e) => clock - e[f].at <= Within
          /\ \A j \in 1..(f - 1) : Len(e) - j >= Length \/ clock - e[j].at > Within
          /\ Trim(e) \in Seq(Entry) /\ Len(Trim(e)) = Len(e) - f + 1
          /\ \A i \in 1..(Len(e) - f + 1) : Trim(e)[i] = e[f + i - 1]
    BY <2>1, <2>3, TrimFacts
  <2>5. QED
    BY <2>2, <2>4, Zenon
<1>now. PICK n \in Nat : n = N + 1
  BY <1>1
<1>at. CompletesNow <=> CompletesAt(n)
  BY <1>now DEF CompletesNow
<1>last. presses'[n].at = clock
  BY <1>1, <1>now
<1>6. /\ N \in Nat /\ n \in Nat /\ n = N + 1 /\ k \in Nat /\ k <= N
      /\ k <= Length /\ Length \in Nat /\ Length > 0
      /\ f \in Nat /\ f >= 1 /\ f <= k + 2 /\ k + 1 - f < Length
      /\ Len(entries) = k + 2 - f /\ b = N - k + f - 1
  BY <1>1, <1>2, <1>3, <1>5, <1>now
<1>fresh. f <= k + 1 => clock - e[f].at <= Within
  BY <1>1, <1>5
<1>stale. \A j \in 1..(f - 1) : k + 1 - j >= Length \/ clock - e[j].at > Within
  BY <1>1, <1>5
<1>copy. \A i \in 1..(k + 2 - f) : entries[i] = e[f + i - 1]
  BY <1>1, <1>5, <1>6
<1> HIDE DEF N, k, b
<1>7. ASSUME NEW i \in 1..Len(entries) PROVE entries[i] = presses'[b + i]
  <2>1. f + i - 1 \in 1..(k + 1) /\ N - k + (f + i - 1) = b + i /\ i \in 1..(k + 2 - f)
    BY <1>6
  <2>2. entries[i] = e[f + i - 1]
    BY <1>copy, <2>1
  <2>3. e[f + i - 1] = presses'[N - k + (f + i - 1)]
    BY <1>1, <2>1
  <2>4. QED
    BY <2>1, <2>2, <2>3
<1>8. Codes(entries) = sequence => CompletesNow
  <2> SUFFICES ASSUME Codes(entries) = sequence PROVE CompletesNow
    OBVIOUS
  <2>1. Len(entries) = Length
    <3>1. DOMAIN Codes(entries) = 1..Len(entries)
      BY <1>5 DEF Codes
    <3>2. QED
      BY <1>3, <1>6, <3>1
  <2>2. f <= k + 1 /\ Length <= k + 1 /\ b = n - Length /\ n >= Length
    BY <1>6, <2>1
  <2>3. ASSUME NEW i \in 1..Length PROVE presses'[n - Length + i].code = sequence[i]
    <3>1. entries[i].code = Codes(entries)[i]
      BY <1>5, <2>1 DEF Codes
    <3>2. QED
      BY <1>7, <2>1, <2>2, <3>1
  <2>4. presses'[n].at - presses'[n - Length + 1].at <= Within
    <3>1. f \in 1..(k + 1) /\ N - k + f = n - Length + 1
      BY <1>6, <2>2
    <3>2. e[f] = presses'[n - Length + 1]
      BY <1>1, <3>1
    <3>3. QED
      BY <1>fresh, <1>last, <2>2, <3>2
  <2>5. \A m \in marks : m <= n - Length
    BY <1>2, <1>6, <2>2
  <2>6. QED
    BY <1>at, <2>2, <2>3, <2>4, <2>5 DEF CompletesAt
<1>9. CompletesNow => Codes(entries) = sequence
  <2> SUFFICES ASSUME CompletesNow PROVE Codes(entries) = sequence
    OBVIOUS
  <2>1. /\ n >= Length
        /\ \A i \in 1..Length : presses'[n - Length + i].code = sequence[i]
        /\ clock - presses'[n - Length + 1].at <= Within
        /\ \A m \in marks : m <= n - Length
    BY <1>at, <1>last DEF CompletesAt
  <2>2. k + 1 >= Length
    <3> SUFFICES ASSUME k + 1 < Length PROVE FALSE
      BY <1>6
    <3>1. /\ N - k > 0 /\ N - k >= n - Length + 1 /\ N - k > n - Length
          /\ N - k \in 1..N /\ N - k \in 1..(N + 1) /\ n - Length + 1 \in 1..(N + 1)
          /\ k # Length
      <4>1. n >= Length
        BY <2>1
      <4>2. QED
        BY <1>6, <4>1
    <3>2. N - k \notin marks
      <4>1. ~(N - k <= n - Length)
        BY <1>6, <3>1
      <4>2. QED
        BY <2>1, <4>1
    <3>3. clock - presses'[N - k].at > Within
      BY <1>1, <1>2, <3>1, <3>2
    <3>4. presses'[n - Length + 1].at <= presses'[N - k].at
      BY <1>1, <3>1
    <3>5. presses'[n - Length + 1].at \in Nat /\ presses'[N - k].at \in Nat
      BY <1>dated, <3>1
    <3>6. clock \in Nat /\ Within \in Nat
      BY <1>1
    <3>7. clock - presses'[n - Length + 1].at <= Within
      BY <2>1
    <3> DEFINE p == presses'[n - Length + 1].at
               q == presses'[N - k].at
    <3>8. clock - q > Within /\ p <= q /\ p \in Nat /\ q \in Nat /\ clock - p <= Within
      BY <3>3, <3>4, <3>5, <3>7
    <3> HIDE DEF p, q
    <3>9. QED
      BY <3>6, <3>8
  <2>3. f = k + 2 - Length
    <3> DEFINE g == k + 2 - Length
    <3>1. g \in 1..(k + 1) /\ N - k + g = n - Length + 1 /\ f >= g
      BY <1>6, <2>2
    <3>2. e[g] = presses'[n - Length + 1]
      BY <1>1, <3>1
    <3>3. ~(g < f)
      <4> SUFFICES ASSUME g < f PROVE FALSE
        OBVIOUS
      <4>1. g \in 1..(f - 1) /\ ~(k + 1 - g >= Length)
        BY <1>6, <3>1
      <4>2. clock - e[g].at > Within
        BY <1>stale, <4>1
      <4>3. clock - e[g].at <= Within
        BY <2>1, <3>2
      <4>4. e[g].at \in Nat /\ clock \in Nat /\ Within \in Nat
        BY <1>1, <1>4, <3>1
      <4>5. QED
        BY <4>2, <4>3, <4>4
    <3>4. QED
      BY <1>6, <3>1, <3>3
  <2>4. Len(entries) = Length /\ b = n - Length
    BY <1>6, <2>3
  <2>5. DOMAIN Codes(entries) = 1..Length
    BY <1>5, <2>4 DEF Codes
  <2>6. ASSUME NEW i \in 1..Length PROVE Codes(entries)[i] = sequence[i]
    <3>1. Codes(entries)[i] = entries[i].code
      BY <1>5, <2>4 DEF Codes
    <3>2. entries[i] = presses'[n - Length + i]
      BY <1>7, <2>4
    <3>3. QED
      BY <2>1, <3>1, <3>2
  <2>7. Codes(entries) = [i \in 1..Length |-> sequence[i]]
    BY <2>5, <2>6 DEF Codes
  <2>8. sequence = [i \in 1..Length |-> sequence[i]]
    BY <1>3 DEF sequence
  <2>9. QED
    BY <2>7, <2>8
<1>10. ASSUME NEW m \in marks PROVE m <= b
  <2>1. m \in Nat /\ m <= N - k
    BY <1>2
  <2>2. N - k <= b /\ N - k \in Int /\ b \in Int
    BY <1>6
  <2>3. QED
    BY <2>1, <2>2
<1>11. ASSUME b > 0
       PROVE  b \in marks \/ clock - presses'[b].at > Within \/ Len(entries) = Length
  <2>1. CASE f = 1
    <3>1. b = N - k /\ N - k > 0 /\ N - k \in 1..N /\ k # Length
      BY <1>6, <1>11, <2>1
    <3>2. QED
      BY <1>1, <1>2, <3>1
  <2>2. CASE f > 1
    <3>1. f - 1 \in 1..(f - 1) /\ f - 1 \in 1..(k + 1) /\ N - k + (f - 1) = b
      BY <1>6, <2>2
    <3>2. k + 1 - (f - 1) >= Length \/ clock - e[f - 1].at > Within
      BY <1>stale, <3>1
    <3>3. e[f - 1] = presses'[b]
      BY <1>1, <3>1
    <3>4. k + 1 - (f - 1) >= Length => Len(entries) = Length
      BY <1>6
    <3>5. QED
      BY <3>2, <3>3, <3>4
  <2>3. f = 1 \/ f > 1
    BY <1>6
  <2>4. QED
    BY <2>1, <2>2, <2>3
<1>12. Len(entries) <= N + 1 /\ Len(entries) <= Length
  BY <1>6
<1>13. QED
  BY <1>5, <1>7, <1>8, <1>9, <1>10, <1>11, <1>12 DEF N, b

-------------------------------------------------------------------------------
(* The invariant                                                               *)
LEMMA Older ==
  ASSUME TypeOK, NEW n \in 1..Len(presses), presses' = Append(presses, Keypress),
         \A i \in 1..Len(presses) : presses'[i] = presses[i],
         marks' = marks \/ marks' = marks \cup {Len(presses) + 1}
  PROVE  Completes(n)' <=> Completes(n)
<1>1. n \in Nat /\ Len(presses) \in Nat /\ n <= Len(presses) /\ marks \subseteq Nat
  BY DEF TypeOK
<1>2. Length \in Nat /\ Length > 0
  BY LengthPositive
<1>3. (\A m \in marks' : m < n => m <= n - Length) <=> (\A m \in marks : m < n => m <= n - Length)
  <2>1. ~(Len(presses) + 1 < n)
    BY <1>1
  <2>2. QED
    BY <2>1
<1>4. ASSUME n >= Length
      PROVE  /\ presses'[n] = presses[n] /\ presses'[n - Length + 1] = presses[n - Length + 1]
             /\ \A i \in 1..Length : presses'[n - Length + i] = presses[n - Length + i]
  <2>1. \A i \in 1..Length : n - Length + i \in 1..Len(presses)
    BY <1>1, <1>2, <1>4
  <2>2. 1 \in 1..Length
    BY <1>2
  <2>3. QED
    BY <2>1, <2>2
<1>5. QED
  BY <1>3, <1>4 DEF Completes, Length, sequence

LEMMA KeyRead ==
  ASSUME IInv, NextEvent, Head(queue) # 0
  PROVE  IInv'
<1> DEFINE entries == Trim(Append(buffer, Keypress))
           N == Len(presses)
<1>1. /\ queue # <<>> /\ queue' = Tail(queue) /\ presses' = Append(presses, Keypress)
      /\ clock' = clock /\ channel' = channel /\ phase = "reading"
      /\ Codes(entries) = sequence =>
           buffer' = <<>> /\ phase' = "sending" /\ marks' = marks \cup {Len(presses')}
      /\ Codes(entries) # sequence => buffer' = entries /\ phase' = phase /\ marks' = marks
  BY DEF NextEvent, Keypress
<1>2. /\ N \in Nat /\ clock \in Nat /\ Within \in Nat /\ presses'[N + 1] = Keypress
      /\ Tail(queue) \in Seq(Pressed \cup {0})
      /\ presses' \in Seq(Entry) /\ Len(presses') = N + 1
      /\ \A i \in 1..N : presses'[i] = presses[i]
      /\ \A i, j \in 1..(N + 1) : i <= j => presses'[i].at <= presses'[j].at
  BY <1>1, KeyFacts
<1>3. /\ entries \in Seq(Entry) /\ Len(entries) <= N + 1 /\ Len(entries) <= Length
      /\ \A i \in 1..Len(entries) : entries[i] = presses'[N + 1 - Len(entries) + i]
      /\ Codes(entries) = sequence <=> CompletesNow
      /\ \A m \in marks : m <= N + 1 - Len(entries)
      /\ N + 1 - Len(entries) > 0 =>
           \/ N + 1 - Len(entries) \in marks
           \/ clock - presses'[N + 1 - Len(entries)].at > Within
           \/ Len(entries) = Length
  BY <1>1, EntriesFacts
<1> HIDE DEF entries
<1>4. marks \subseteq 1..N
  BY DEF IInv, TypeOK
<1>5. marks' = IF CompletesNow THEN marks \cup {N + 1} ELSE marks
  BY <1>1, <1>2, <1>3
<1>6. TypeOK'
  <2>1. DOMAIN presses' = 1..(N + 1)
    BY <1>2
  <2>2. marks' \subseteq 1..(N + 1)
    <3>1. N + 1 \in 1..(N + 1) /\ 1..N \subseteq 1..(N + 1)
      BY <1>2
    <3>2. marks' = marks \/ marks' = marks \cup {N + 1}
      BY <1>5
    <3>3. QED
      BY <1>4, <3>1, <3>2
  <2>3. buffer' \in Seq(Entry)
    <3>1. buffer' = <<>> \/ buffer' = entries
      BY <1>1
    <3>2. entries \in Seq(Entry) /\ <<>> \in Seq(Entry)
      BY <1>3
    <3>3. QED
      BY <3>1, <3>2
  <2>4. Entry = [code : Pressed, at : 0..clock']
    BY <1>1 DEF Entry
  <2>5. phase' \in {"reading", "sending", "failing", "ended", "aborted", "cut"}
    BY <1>1
  <2>6. /\ clock' \in 0..MaxTime /\ channel' \in Seq({"hotkey", "failure", "other"})
        /\ Len(channel') <= EventBuffer
    BY <1>1 DEF IInv, TypeOK
  <2>7. QED
    BY <1>1, <1>2, <2>1, <2>2, <2>3, <2>4, <2>5, <2>6 DEF TypeOK
<1>7. BufferFits'
  <2>1. CASE Codes(entries) = sequence
    <3>1. buffer' = <<>> /\ Len(buffer') = 0 /\ Len(presses') = N + 1 /\ Before' = N + 1
      BY <1>1, <1>2, <2>1 DEF Before
    <3>2. marks' = marks \cup {N + 1}
      BY <1>1, <1>2, <2>1
    <3>3. \A m \in marks' : m <= N + 1
      BY <1>2, <1>4, <3>2
    <3>4. N + 1 \in marks'
      BY <3>2
    <3>5. Length' = Length /\ Length \in Nat
      BY LengthPositive DEF Length
    <3>6. QED
      BY <1>2, <3>1, <3>3, <3>4, <3>5 DEF BufferFits
  <2>2. CASE Codes(entries) # sequence
    <3>1. /\ buffer' = entries /\ Len(presses') = N + 1 /\ Before' = N + 1 - Len(entries)
          /\ marks' = marks /\ clock' = clock
      BY <1>1, <1>2, <2>2 DEF Before
    <3>2. QED
      BY <1>3, <3>1 DEF BufferFits, Length
  <2>3. QED
    BY <2>1, <2>2
<1>8. FiresExactly'
  <2> SUFFICES ASSUME NEW n \in 1..(N + 1) PROVE n \in marks' <=> Completes(n)'
    BY <1>2 DEF FiresExactly
  <2>1. CASE n = N + 1
    <3>1. n \in marks' <=> CompletesNow
      BY <1>2, <1>4, <1>5, <2>1
    <3>2. (\A m \in marks' : m < n => m <= n - Length) <=> (\A m \in marks : m <= n - Length)
      BY <1>2, <1>4, <1>5, <2>1
    <3>3. Completes(n)' <=>
            /\ n >= Length
            /\ \A i \in 1..Length : presses'[n - Length + i].code = sequence[i]
            /\ presses'[n].at - presses'[n - Length + 1].at <= Within
            /\ \A m \in marks' : m < n => m <= n - Length
      BY DEF Completes, Length, sequence
    <3>4. Completes(n)' <=> CompletesAt(n)
      BY <3>2, <3>3 DEF CompletesAt
    <3>5. CompletesNow <=> CompletesAt(n)
      BY <2>1 DEF CompletesNow
    <3>6. QED
      BY <3>1, <3>4, <3>5
  <2>2. CASE n \in 1..N
    <3>1. Completes(n)' <=> Completes(n)
      BY <1>1, <1>2, <1>5, <2>2, Older DEF IInv
    <3>2. n \in marks <=> Completes(n)
      BY <2>2 DEF IInv, FiresExactly, TypeOK
    <3>3. n \in marks' <=> n \in marks
      BY <1>2, <1>5, <2>2
    <3>4. QED
      BY <3>1, <3>2, <3>3
  <2>3. n = N + 1 \/ n \in 1..N
    BY <1>2
  <2>4. QED
    BY <2>1, <2>2, <2>3
<1>9. QED
  BY <1>6, <1>7, <1>8 DEF IInv


LEMMA InitInvariant == Init => IInv
<1> SUFFICES ASSUME Init PROVE IInv
  OBVIOUS
<1>1. TypeOK
  BY HotkeyAssumption DEF Init, TypeOK
<1>2. BufferFits
  BY LengthPositive DEF Init, BufferFits, Before
<1>3. FiresExactly
  BY DEF Init, FiresExactly
<1>4. QED
  BY <1>1, <1>2, <1>3 DEF IInv

LEMMA StaysOld ==
  ASSUME NEW at \in Nat, NEW now \in Nat, NEW later \in Nat, later >= now, now - at > Within
  PROVE  later - at > Within
BY HotkeyAssumption

(* A step that reads no key and does not move the clock back                   *)
LEMMA NothingRead ==
  ASSUME IInv, presses' = presses, buffer' = buffer, marks' = marks,
         clock' \in Nat, clock' >= clock, clock' <= MaxTime,
         queue' \in Seq(Pressed \cup {0}),
         phase' \in {"reading", "sending", "failing", "ended", "aborted", "cut"},
         channel' \in Seq({"hotkey", "failure", "other"}), Len(channel') <= EventBuffer
  PROVE  IInv'
<1>1. clock \in Nat /\ MaxTime \in Nat /\ Within \in Nat
  BY HotkeyAssumption DEF IInv, TypeOK
<1>2. Entry \subseteq [code : Pressed, at : 0..clock']
  <2>1. 0..clock \subseteq 0..clock'
    BY <1>1
  <2>2. QED
    BY <2>1 DEF Entry
<1>3. presses \in Seq(Entry) /\ buffer \in Seq(Entry)
  BY DEF IInv, TypeOK, Entry
<1>4. /\ presses' \in Seq([code : Pressed, at : 0..clock'])
      /\ buffer' \in Seq([code : Pressed, at : 0..clock'])
  <2> DEFINE S == [code : Pressed, at : 0..clock']
  <2>1. Entry \subseteq S
    BY <1>2
  <2> HIDE DEF S
  <2>2. presses \in Seq(S) /\ buffer \in Seq(S)
    BY <1>3, <2>1
  <2>3. QED
    BY <2>2 DEF S
<1>5. clock' \in 0..MaxTime
  BY <1>1
<1>6. TypeOK'
  BY <1>4, <1>5 DEF IInv, TypeOK
<1>7. BufferFits'
  <2>1. /\ Before' = Before /\ Length' = Length
        /\ Len(presses') = Len(presses) /\ Len(buffer') = Len(buffer)
    BY DEF Before, Length
  <2>2. ASSUME Before > 0, clock - presses[Before].at > Within
        PROVE  clock' - presses[Before].at > Within
    <3>1. Before \in 1..Len(presses)
      <4>1. Len(presses) \in Nat /\ Len(buffer) \in Nat
        BY <1>3
      <4>2. QED
        BY <2>2, <4>1 DEF Before
    <3>2. presses[Before].at \in 0..clock
      <4>1. presses[Before] \in Entry
        BY <1>3, <3>1
      <4>2. QED
        BY <4>1 DEF Entry
    <3>3. presses[Before].at \in Nat
      BY <1>1, <3>2
    <3>4. QED
      BY <1>1, <2>2, <3>3, StaysOld
  <2>3. BufferFits
    BY DEF IInv
  <2>4. QED
    BY <2>1, <2>2, <2>3 DEF BufferFits
<1>8. FiresExactly'
  BY DEF IInv, FiresExactly, Completes, Length, sequence
<1>9. QED
  BY <1>6, <1>7, <1>8 DEF IInv

LEMMA NextInvariant == IInv /\ [Next]_vars => IInv'
<1> SUFFICES ASSUME IInv, [Next]_vars PROVE IInv'
  OBVIOUS
<1> USE DEF history
<1>1. /\ clock \in Nat /\ clock <= MaxTime /\ MaxTime \in Nat /\ queue \in Seq(Pressed \cup {0})
      /\ phase \in {"reading", "sending", "failing", "ended", "aborted", "cut"}
      /\ channel \in Seq({"hotkey", "failure", "other"}) /\ Len(channel) <= EventBuffer
      /\ EventBuffer \in Nat
  BY HotkeyAssumption DEF IInv, TypeOK
<1>2. CASE Tick
  <2>1. clock' \in Nat /\ clock' >= clock /\ clock' <= MaxTime
    BY <1>1, <1>2 DEF Tick
  <2>2. QED
    BY <1>1, <1>2, <2>1, NothingRead DEF Tick
<1>3. CASE NextEvent
  <2>1. CASE Head(queue) # 0
    BY <1>3, <2>1, KeyRead
  <2>2. CASE Head(queue) = 0
    <3>1. queue' \in Seq(Pressed \cup {0})
      BY <1>1, <1>3 DEF NextEvent
    <3>2. UNCHANGED <<clock, buffer, phase, channel, presses, marks>>
      BY <1>3, <2>2 DEF NextEvent
    <3>3. QED
      BY <1>1, <3>1, <3>2, NothingRead
  <2>3. QED
    BY <2>1, <2>2
<1>4. ASSUME SendHotkey \/ SendFailure \/ OtherEvent PROVE IInv'
  <2>1. /\ channel' \in Seq({"hotkey", "failure", "other"}) /\ Len(channel') <= EventBuffer
    <3>1. PICK event \in {"hotkey", "failure", "other"} : channel' = Append(channel, event)
      BY <1>4 DEF SendHotkey, SendFailure, OtherEvent
    <3>2. Len(channel) < EventBuffer
      BY <1>4 DEF SendHotkey, SendFailure, OtherEvent, Room
    <3>3. QED
      BY <1>1, <3>1, <3>2
  <2>2. /\ UNCHANGED <<clock, queue, buffer, presses, marks>>
        /\ phase' \in {"reading", "sending", "failing", "ended", "aborted", "cut"}
    BY <1>1, <1>4 DEF SendHotkey, SendFailure, OtherEvent
  <2>3. QED
    BY <1>1, <2>1, <2>2, NothingRead
<1>5. CASE StreamError \/ Abort
  <2>1. /\ phase' \in {"reading", "sending", "failing", "ended", "aborted", "cut"}
        /\ UNCHANGED <<clock, queue, buffer, channel, presses, marks>>
    BY <1>5 DEF StreamError, Abort
  <2>2. QED
    BY <1>1, <2>1, NothingRead
<1>6. CASE ReceiveEvent
  <2>1. /\ channel' \in Seq({"hotkey", "failure", "other"}) /\ Len(channel') <= EventBuffer
    BY <1>1, <1>6 DEF ReceiveEvent
  <2>2. UNCHANGED <<clock, queue, buffer, phase, presses, marks>>
    BY <1>6 DEF ReceiveEvent
  <2>3. QED
    BY <1>1, <2>1, <2>2, NothingRead
<1>7. ASSUME NEW code \in Pressed \cup {0}, Press(code) PROVE IInv'
  <2>1. queue' \in Seq(Pressed \cup {0})
    BY <1>1, <1>7 DEF Press
  <2>2. UNCHANGED <<clock, buffer, phase, channel, presses, marks>>
    BY <1>7 DEF Press
  <2>3. QED
    BY <1>1, <2>1, <2>2, NothingRead
<1>8. CASE UNCHANGED vars
  BY <1>1, <1>8, NothingRead DEF vars
<1>9. QED
  BY <1>2, <1>3, <1>4, <1>5, <1>6, <1>7, <1>8 DEF Next

(* IInv is an invariant of the task, its device and the channel.               *)
THEOREM Invariance == Spec => []IInv
BY InitInvariant, NextInvariant, PTL DEF Spec

(* spawn, parse: values stay in their types, keys are dated in the order they  *)
(* are read, and the channel never exceeds its capacity.                       *)
THEOREM TypeCorrect == Spec => []TypeOK
<1>1. IInv => TypeOK
  BY DEF IInv
<1>2. QED
  BY Invariance, <1>1, PTL

(* spawn: whatever the sequence, the window and the keys pressed, the loop     *)
(* that trims and compares its buffer reports the hotkey at exactly the keys   *)
(* that complete the sequence within the window with keys of no other match.   *)
THEOREM FiresRight == Spec => []FiresExactly
<1>1. IInv => FiresExactly
  BY DEF IInv
<1>2. QED
  BY Invariance, <1>1, PTL

===============================================================================
