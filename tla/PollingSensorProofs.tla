------------------------- MODULE PollingSensorProofs --------------------------
(* Proofs about PollingSensor, for every set of required inputs, any states of *)
(* them, any capacity of the channel and any number of disturbances.           *)
(*                                                                             *)
(* The snapshot is seen as a collection of cells: the four values, whether a   *)
(* path is mounted, a name runs or a port is open, and the health of a sensor. *)
(* An event overwrites some cells and leaves the others as they are.           *)
EXTENDS PollingSensor, FiniteSetTheorems, TLAPS

(* Sequences put together                                                      *)
LEMMA WiderSeq ==
  ASSUME NEW S, NEW T, NEW q \in Seq(S), S \subseteq T
  PROVE  q \in Seq(T)
OBVIOUS

LEMMA JoinNothing ==
  ASSUME NEW S, NEW q \in Seq(S)
  PROVE  q \o <<>> = q
OBVIOUS

LEMMA JoinThree ==
  ASSUME NEW S, NEW q \in Seq(S), NEW r \in Seq(S), NEW s \in Seq(S)
  PROVE  (q \o r) \o s = q \o (r \o s)
OBVIOUS

LEMMA AppendJoins ==
  ASSUME NEW S, NEW q \in Seq(S), NEW e \in S
  PROVE  Append(q, e) = q \o <<e>>
OBVIOUS

Bit(b) == IF b THEN 1 ELSE 0

Groups ==
  {"wifi", "network", "power", "sessions", "mounts", "processes", "services", "ports", "health"}

(* The cell x of a group; the groups of the four values have one cell.         *)
CellOf(s, g, x) ==
  CASE g = "wifi" -> s.wifi
    [] g = "network" -> s.network
    [] g = "power" -> s.power
    [] g = "sessions" -> s.session
    [] g = "mounts" -> Bit(x \in s.mounts)
    [] g = "processes" -> Bit(x \in s.processes)
    [] g = "services" -> Bit(x \in s.services)
    [] g = "ports" -> Bit(x \in s.ports)
    [] g = "health" -> Bit(x \in s.sensor_health)

Writes(e, g, x) ==
  \/ g = "wifi" /\ e.kind.type = "wifi"
  \/ g = "network" /\ e.kind.type = "network"
  \/ g = "power" /\ e.kind.type = "power"
  \/ g = "sessions" /\ e.kind.type = "session"
  \/ g = "mounts" /\ e.kind.type = "mount" /\ e.kind.path = x
  \/ g = "processes" /\ e.kind.type = "process" /\ e.kind.name = x
  \/ g = "services" /\ e.kind.type = "service" /\ e.kind.name = x
  \/ g = "ports" /\ e.kind.type = "port" /\ <<e.kind.protocol, e.kind.port>> = x
  \/ g = "health" /\ (e.source = x \/ (e.kind.type = "sensor_failure" /\ e.kind.sensor = x))

Val(e, g, x) ==
  CASE g \in Singles -> e.kind
    [] g = "mounts" -> Bit(e.kind.action # "removed")
    [] g = "processes" -> Bit(e.kind.running)
    [] g = "services" -> Bit(e.kind.active)
    [] g = "ports" -> Bit(e.kind.open)
    [] g = "health" -> Bit(~(e.kind.type = "sensor_failure" /\ e.kind.sensor = x))

IsSnapshot(s) ==
  {"now", "mode", "wifi", "network", "session", "power", "mounts", "processes", "services",
   "ports", "sensor_health"} \subseteq DOMAIN s

(* What every event of the poller is like                                      *)
Good(e) ==
  /\ e.kind.type \in EventTypes
  /\ e.kind.type = "integrity" => e.kind.component \in Files
  /\ e.kind.type = "port" => <<e.kind.protocol, e.kind.port>> \in RequiredPorts

(* The cells that are followed: of the healths, those of the probes            *)
Followed(g, x) == g \in Groups /\ (g = "health" => x \in Probes)
-------------------------------------------------------------------------------
(* What an event does to the fields of the snapshot                            *)
FieldsAfter(s, e, t) ==
  /\ IsSnapshot(t)
  /\ t.wifi = IF e.kind.type = "wifi" THEN e.kind ELSE s.wifi
  /\ t.network = IF e.kind.type = "network" THEN e.kind ELSE s.network
  /\ t.session = IF e.kind.type = "session" THEN e.kind ELSE s.session
  /\ t.power = IF e.kind.type = "power" THEN e.kind ELSE s.power
  /\ t.mounts = IF e.kind.type = "mount"
                THEN Toggle(s.mounts, e.kind.path, e.kind.action # "removed") ELSE s.mounts
  /\ t.processes = IF e.kind.type = "process"
                   THEN Toggle(s.processes, e.kind.name, e.kind.running) ELSE s.processes
  /\ t.services = IF e.kind.type = "service"
                  THEN Toggle(s.services, e.kind.name, e.kind.active) ELSE s.services
  /\ t.ports = IF e.kind.type = "port"
               THEN Toggle(s.ports, <<e.kind.protocol, e.kind.port>>, e.kind.open) ELSE s.ports
  /\ t.sensor_health =
       IF e.kind.type = "integrity"
       THEN Toggle(s.sensor_health \cup {e.source}, e.kind.component, e.kind.valid)
       ELSE IF e.kind.type = "sensor_failure"
       THEN (s.sensor_health \cup {e.source}) \ {e.kind.sensor}
       ELSE s.sensor_health \cup {e.source}

LEMMA ApplyFields ==
  ASSUME NEW s, NEW e, IsSnapshot(s), e.kind.type \in EventTypes
  PROVE  FieldsAfter(s, e, apply(s, e))
<1>1. PICK k : k = e.kind
  OBVIOUS
<1> DEFINE u == [s EXCEPT !.now = e.timestamp, !.sensor_health = @ \cup {e.source}]
<1>2. /\ IsSnapshot(u) /\ u.wifi = s.wifi /\ u.network = s.network /\ u.session = s.session
      /\ u.power = s.power /\ u.mounts = s.mounts /\ u.processes = s.processes
      /\ u.services = s.services /\ u.ports = s.ports
      /\ u.sensor_health = s.sensor_health \cup {e.source}
  BY DEF IsSnapshot
<1>3. apply(s, e) =
        CASE k.type = "wifi"    -> [u EXCEPT !.wifi = k]
          [] k.type = "network" -> [u EXCEPT !.network = k]
          [] k.type = "session" -> [u EXCEPT !.session = k]
          [] k.type = "power"   -> [u EXCEPT !.power = k]
          [] k.type = "mount"   -> [u EXCEPT !.mounts = Toggle(@, k.path, k.action # "removed")]
          [] k.type = "process" -> [u EXCEPT !.processes = Toggle(@, k.name, k.running)]
          [] k.type = "service" -> [u EXCEPT !.services = Toggle(@, k.name, k.active)]
          [] k.type = "port"    -> [u EXCEPT !.ports = Toggle(@, <<k.protocol, k.port>>, k.open)]
          [] k.type = "integrity" ->
               [u EXCEPT !.sensor_health = Toggle(@, k.component, k.valid)]
          [] k.type = "sensor_failure" -> [u EXCEPT !.sensor_health = @ \ {k.sensor}]
          [] k.type \in {"tick", "file", "usb", "hotkey", "manual"} -> u
  BY <1>1 DEF apply
<1> HIDE DEF u
<1>4. CASE k.type = "wifi"
  BY <1>1, <1>2, <1>3, <1>4 DEF FieldsAfter, IsSnapshot
<1>5. CASE k.type = "network"
  BY <1>1, <1>2, <1>3, <1>5 DEF FieldsAfter, IsSnapshot
<1>6. CASE k.type = "session"
  BY <1>1, <1>2, <1>3, <1>6 DEF FieldsAfter, IsSnapshot
<1>7. CASE k.type = "power"
  BY <1>1, <1>2, <1>3, <1>7 DEF FieldsAfter, IsSnapshot
<1>8. CASE k.type = "mount"
  BY <1>1, <1>2, <1>3, <1>8 DEF FieldsAfter, IsSnapshot
<1>9. CASE k.type = "process"
  BY <1>1, <1>2, <1>3, <1>9 DEF FieldsAfter, IsSnapshot
<1>10. CASE k.type = "service"
  BY <1>1, <1>2, <1>3, <1>10 DEF FieldsAfter, IsSnapshot
<1>11. CASE k.type = "port"
  BY <1>1, <1>2, <1>3, <1>11 DEF FieldsAfter, IsSnapshot
<1>12. CASE k.type = "integrity"
  BY <1>1, <1>2, <1>3, <1>12 DEF FieldsAfter, IsSnapshot
<1>13. CASE k.type = "sensor_failure"
  BY <1>1, <1>2, <1>3, <1>13 DEF FieldsAfter, IsSnapshot
<1>14. CASE k.type \in {"tick", "file", "usb", "hotkey", "manual"}
  BY <1>1, <1>2, <1>3, <1>14 DEF FieldsAfter, IsSnapshot
<1>15. QED
  BY <1>1, <1>4, <1>5, <1>6, <1>7, <1>8, <1>9, <1>10, <1>11, <1>12, <1>13, <1>14 DEF EventTypes

LEMMA ApplyCell ==
  ASSUME NEW s, NEW e, IsSnapshot(s), Good(e), NEW g, NEW x, Followed(g, x)
  PROVE  /\ Writes(e, g, x) => CellOf(apply(s, e), g, x) = Val(e, g, x)
         /\ ~Writes(e, g, x) => CellOf(apply(s, e), g, x) = CellOf(s, g, x)
<1>1. PICK t : t = apply(s, e)
  OBVIOUS
<1>2. FieldsAfter(s, e, t)
  BY <1>1, ApplyFields DEF Good
<1>3. CASE g \in Singles
  BY <1>1, <1>2, <1>3 DEF FieldsAfter, CellOf, Val, Writes, Singles
<1>4. CASE g = "mounts"
  BY <1>1, <1>2, <1>4 DEF FieldsAfter, CellOf, Val, Writes, Singles, Toggle, Bit
<1>5. CASE g = "processes"
  BY <1>1, <1>2, <1>5 DEF FieldsAfter, CellOf, Val, Writes, Singles, Toggle, Bit
<1>6. CASE g = "services"
  BY <1>1, <1>2, <1>6 DEF FieldsAfter, CellOf, Val, Writes, Singles, Toggle, Bit
<1>7. CASE g = "ports"
  BY <1>1, <1>2, <1>7 DEF FieldsAfter, CellOf, Val, Writes, Singles, Toggle, Bit
<1>8. CASE g = "health"
  BY <1>1, <1>2, <1>8 DEF FieldsAfter, CellOf, Val, Writes, Singles, Toggle, Bit, Good, Followed, Probes, Files
<1>9. QED
  BY <1>3, <1>4, <1>5, <1>6, <1>7, <1>8 DEF Followed, Groups, Singles
-------------------------------------------------------------------------------
(* Sequences of events and the cells they overwrite                            *)
Proper(q) == \E S : q \in Seq(S) /\ \A e \in S : Good(e)

Silent(q, g, x) == \A i \in 1..Len(q) : ~Writes(q[i], g, x)

(* Some event writes v, and those after it write nothing else.                 *)
Sets(q, g, x, v) ==
  \E i \in 1..Len(q) :
    /\ Writes(q[i], g, x) /\ Val(q[i], g, x) = v
    /\ \A j \in 1..Len(q) : j > i /\ Writes(q[j], g, x) => Val(q[j], g, x) = v

(* Once the events of q are applied to s, the cell is v.                       *)
Gives(q, s, g, x, v) ==
  Sets(q, g, x, v) \/ (Silent(q, g, x) /\ CellOf(s, g, x) = v)

LEMMA ProperIf ==
  ASSUME NEW q, NEW S, q \in Seq(S), \A e \in S : Good(e)
  PROVE  Proper(q)
BY DEF Proper

LEMMA ConcatFacts ==
  ASSUME NEW A, NEW B, NEW C, Proper(A), Proper(B), C = A \o B
  PROVE  /\ Proper(C) /\ Len(A) \in Nat /\ Len(B) \in Nat /\ Len(C) = Len(A) + Len(B)
         /\ \A i \in 1..Len(A) : C[i] = A[i]
         /\ \A i \in 1..Len(B) : C[Len(A) + i] = B[i]
<1>1. PICK S : A \in Seq(S) /\ \A e \in S : Good(e)
  BY DEF Proper
<1>2. PICK T : B \in Seq(T) /\ \A e \in T : Good(e)
  BY DEF Proper
<1>3. PICK U : U = S \cup T
  BY Zenon
<1>4. A \in Seq(U) /\ B \in Seq(U)
  BY <1>1, <1>2, <1>3, WiderSeq
<1>5. C \in Seq(U) /\ Len(A) \in Nat /\ Len(B) \in Nat /\ Len(C) = Len(A) + Len(B)
  BY <1>4
<1>6. Proper(C)
  BY <1>1, <1>2, <1>3, <1>5 DEF Proper
<1>7. /\ \A i \in 1..Len(A) : C[i] = A[i]
      /\ \A i \in 1..Len(B) : C[Len(A) + i] = B[i]
  BY <1>4
<1>8. QED
  BY <1>5, <1>6, <1>7

LEMMA ConcatIndex ==
  ASSUME NEW A, NEW B, NEW C, Proper(A), Proper(B), C = A \o B, NEW k \in 1..Len(C)
  PROVE  \/ k \in 1..Len(A) /\ C[k] = A[k]
         \/ k > Len(A) /\ k - Len(A) \in 1..Len(B) /\ C[k] = B[k - Len(A)]
<1>1. /\ Len(A) \in Nat /\ Len(B) \in Nat /\ Len(C) = Len(A) + Len(B)
      /\ \A i \in 1..Len(A) : C[i] = A[i]
      /\ \A i \in 1..Len(B) : C[Len(A) + i] = B[i]
  BY ConcatFacts
<1>2. CASE k <= Len(A)
  BY <1>1, <1>2
<1>3. CASE k > Len(A)
  <2>1. PICK i : i = k - Len(A)
    OBVIOUS
  <2>2. i \in 1..Len(B) /\ k = Len(A) + i
    BY <1>1, <1>3, <2>1
  <2>3. C[k] = B[i]
    BY <1>1, <2>2
  <2>4. QED
    BY Zenon, <1>3, <2>1, <2>2, <2>3
<1>4. QED
  BY <1>1, <1>2, <1>3

LEMMA ConcatEvery ==
  ASSUME NEW A, NEW B, NEW C, Proper(A), Proper(B), C = A \o B, NEW k \in 1..Len(C)
  PROVE  (\E n \in 1..Len(A) : C[k] = A[n]) \/ (\E n \in 1..Len(B) : C[k] = B[n])
BY ConcatIndex, SMTT(20)

LEMMA SilentConcat ==
  ASSUME NEW A, NEW B, NEW C, Proper(A), Proper(B), C = A \o B, NEW g, NEW x,
         Silent(A, g, x), Silent(B, g, x)
  PROVE  Silent(C, g, x)
<1> SUFFICES ASSUME NEW k \in 1..Len(C), Writes(C[k], g, x) PROVE FALSE
  BY DEF Silent
<1>1. QED
  BY ConcatIndex DEF Silent

LEMMA SetsFirst ==
  ASSUME NEW A, NEW B, NEW C, Proper(A), Proper(B), C = A \o B, NEW g, NEW x, NEW v,
         Sets(A, g, x, v), Silent(B, g, x)
  PROVE  Sets(C, g, x, v)
<1>1. PICK i \in 1..Len(A) :
        /\ Writes(A[i], g, x) /\ Val(A[i], g, x) = v
        /\ \A j \in 1..Len(A) : j > i /\ Writes(A[j], g, x) => Val(A[j], g, x) = v
  BY DEF Sets
<1>2. i \in 1..Len(C) /\ C[i] = A[i]
  BY ConcatFacts
<1>3. ASSUME NEW j \in 1..Len(C), j > i, Writes(C[j], g, x) PROVE Val(C[j], g, x) = v
  <2>1. CASE j \in 1..Len(A) /\ C[j] = A[j]
    BY <1>1, <1>3, <2>1
  <2>2. CASE j - Len(A) \in 1..Len(B) /\ C[j] = B[j - Len(A)]
    BY <1>3, <2>2 DEF Silent
  <2>3. QED
    BY <2>1, <2>2, ConcatIndex
<1>4. QED
  BY Zenon, <1>1, <1>2, <1>3 DEF Sets

LEMMA SetsLast ==
  ASSUME NEW A, NEW B, NEW C, Proper(A), Proper(B), C = A \o B, NEW g, NEW x, NEW v,
         Sets(B, g, x, v)
  PROVE  Sets(C, g, x, v)
<1>1. PICK i \in 1..Len(B) :
        /\ Writes(B[i], g, x) /\ Val(B[i], g, x) = v
        /\ \A j \in 1..Len(B) : j > i /\ Writes(B[j], g, x) => Val(B[j], g, x) = v
  BY DEF Sets
<1>2. PICK k : k = Len(A) + i
  OBVIOUS
<1>3. /\ Len(A) \in Nat /\ Len(B) \in Nat /\ Len(C) = Len(A) + Len(B)
      /\ \A n \in 1..Len(B) : C[Len(A) + n] = B[n]
  BY ConcatFacts
<1>4. k \in 1..Len(C) /\ C[k] = B[i]
  BY <1>2, <1>3
<1>5. ASSUME NEW j \in 1..Len(C), j > k, Writes(C[j], g, x) PROVE Val(C[j], g, x) = v
  <2>1. j > Len(A) /\ j - Len(A) > i
    BY <1>2, <1>3, <1>5
  <2>2. j - Len(A) \in 1..Len(B) /\ C[j] = B[j - Len(A)]
    BY <1>3, <2>1, ConcatIndex
  <2>3. QED
    BY <1>1, <1>5, <2>1, <2>2
<1>6. QED
  BY Zenon, <1>1, <1>4, <1>5 DEF Sets

LEMMA GivesMore ==
  ASSUME NEW A, NEW B, NEW C, Proper(A), Proper(B), C = A \o B, NEW s, NEW g, NEW x, NEW v,
         Sets(B, g, x, v) \/ (Silent(B, g, x) /\ Gives(A, s, g, x, v))
  PROVE  Gives(C, s, g, x, v)
<1>1. CASE Sets(B, g, x, v)
  BY Zenon, <1>1, SetsLast DEF Gives
<1>2. CASE Silent(B, g, x) /\ Sets(A, g, x, v)
  BY Zenon, <1>2, SetsFirst DEF Gives
<1>3. CASE Silent(B, g, x) /\ Silent(A, g, x) /\ CellOf(s, g, x) = v
  BY Zenon, <1>3, SilentConcat DEF Gives
<1>4. QED
  BY <1>1, <1>2, <1>3 DEF Gives

LEMMA TailFacts ==
  ASSUME NEW q, NEW t, Proper(q), q # <<>>, t = Tail(q)
  PROVE  /\ Proper(t) /\ Good(Head(q)) /\ Head(q) = q[1] /\ Len(q) \in Nat /\ Len(q) > 0
         /\ Len(t) = Len(q) - 1 /\ \A i \in 1..Len(t) : t[i] = q[i + 1]
<1>1. PICK S : q \in Seq(S) /\ \A e \in S : Good(e)
  BY DEF Proper
<1>2. t \in Seq(S) /\ Len(q) \in Nat /\ Len(q) > 0 /\ Len(t) = Len(q) - 1 /\ Head(q) = q[1] /\ q[1] \in S
  BY <1>1
<1>3. \A i \in 1..Len(t) : t[i] = q[i + 1]
  BY <1>1
<1>4. QED
  BY <1>1, <1>2, <1>3 DEF Proper

LEMMA GivesApplied ==
  ASSUME NEW q, NEW t, Proper(q), q # <<>>, t = Tail(q), NEW s, IsSnapshot(s),
         NEW g, NEW x, NEW v, Followed(g, x), Gives(q, s, g, x, v)
  PROVE  Gives(t, apply(s, Head(q)), g, x, v)
<1>1. PICK r : r = apply(s, Head(q))
  OBVIOUS
<1>2. /\ Good(Head(q)) /\ Head(q) = q[1] /\ Len(q) \in Nat /\ Len(q) > 0
      /\ Len(t) = Len(q) - 1 /\ \A i \in 1..Len(t) : t[i] = q[i + 1]
  BY TailFacts
<1>3. /\ Writes(q[1], g, x) => CellOf(r, g, x) = Val(q[1], g, x)
      /\ ~Writes(q[1], g, x) => CellOf(r, g, x) = CellOf(s, g, x)
  BY <1>1, <1>2, ApplyCell
<1>4. CASE Silent(q, g, x) /\ CellOf(s, g, x) = v
  <2>1. 1 \in 1..Len(q) /\ \A i \in 1..Len(t) : i + 1 \in 1..Len(q)
    BY <1>2
  <2>2. QED
    BY <1>1, <1>2, <1>3, <1>4, <2>1 DEF Gives, Silent
<1>5. CASE Sets(q, g, x, v)
  <2>1. PICK i \in 1..Len(q) :
          /\ Writes(q[i], g, x) /\ Val(q[i], g, x) = v
          /\ \A j \in 1..Len(q) : j > i /\ Writes(q[j], g, x) => Val(q[j], g, x) = v
    BY <1>5 DEF Sets
  <2>2. \A j \in 1..Len(t) : j + 1 \in 1..Len(q) /\ t[j] = q[j + 1]
    BY <1>2
  <2>3. CASE i = 1
    <3>1. CellOf(r, g, x) = v
      BY <1>3, <2>1, <2>3
    <3>2. \A j \in 1..Len(t) : Writes(t[j], g, x) => Val(t[j], g, x) = v
      <4>1. \A j \in 1..Len(t) : j + 1 > i
        BY <2>3
      <4>2. QED
        BY <2>1, <2>2, <4>1
    <3>3. Silent(t, g, x) \/ Sets(t, g, x, v)
      BY <3>2 DEF Silent, Sets
    <3>4. QED
      BY <1>1, <3>1, <3>3 DEF Gives
  <2>4. CASE i # 1
    <3>1. PICK n : n = i - 1
      OBVIOUS
    <3>2. n \in 1..Len(t) /\ t[n] = q[i]
      BY <1>2, <2>4, <3>1
    <3>3. \A j \in 1..Len(t) : j > n => j + 1 > i
      BY <1>2, <3>1
    <3>4. \A j \in 1..Len(t) : j > n /\ Writes(t[j], g, x) => Val(t[j], g, x) = v
      BY <2>1, <2>2, <3>3
    <3>5. Sets(t, g, x, v)
      BY <2>1, <3>2, <3>4 DEF Sets
    <3>6. QED
      BY <1>1, <3>5 DEF Gives
  <2>5. QED
    BY <2>3, <2>4
<1>6. QED
  BY <1>4, <1>5 DEF Gives
-------------------------------------------------------------------------------
(* One event for each element of a set                                         *)
LEMMA OrderOnto ==
  ASSUME NEW S, IsFiniteSet(S), NEW f, f = InSomeOrder(S)
  PROVE  /\ Cardinality(S) \in Nat /\ f \in [1..Cardinality(S) -> S]
         /\ \A x \in S : \E n \in 1..Cardinality(S) : f[n] = x
<1>1. Cardinality(S) \in Nat /\ ExistsBijection(1..Cardinality(S), S)
  BY FS_CardinalityType
<1>2. PICK m \in Nat : m = Cardinality(S)
  BY <1>1
<1>3. \E b \in [1..m -> S] : IsInjective(b)
  BY <1>1, <1>2 DEF ExistsBijection, Bijection, Injection
<1>4. f \in [1..m -> S] /\ IsInjective(f)
  BY <1>2, <1>3 DEF InSomeOrder
<1>5. f \in Injection(1..m, S)
  BY <1>4 DEF Injection
<1>6. Cardinality(1..m) = m
  BY FS_Interval
<1>7. f \in Surjection(1..m, S)
  BY <1>2, <1>5, <1>6, FS_Injection
<1>8. QED
  BY <1>1, <1>2, <1>4, <1>7 DEF Surjection

LEMMA EachFacts ==
  ASSUME NEW ev, IsFiniteSet(DOMAIN ev), \A y \in DOMAIN ev : Good(ev[y]), NEW q, q = ForEach(ev)
  PROVE  /\ Proper(q) /\ Len(q) \in Nat
         /\ \A i \in 1..Len(q) : \E y \in DOMAIN ev : q[i] = ev[y]
         /\ \A y \in DOMAIN ev : \E i \in 1..Len(q) : q[i] = ev[y]
<1>1. PICK f : f = InSomeOrder(DOMAIN ev)
  OBVIOUS
<1>2. PICK m : m = Cardinality(DOMAIN ev)
  OBVIOUS
<1>3. m \in Nat /\ f \in [1..m -> DOMAIN ev] /\ \A y \in DOMAIN ev : \E n \in 1..m : f[n] = y
  BY <1>1, <1>2, OrderOnto
<1>4. q = [n \in 1..m |-> ev[f[n]]]
  BY <1>1, <1>2 DEF ForEach
<1>5. PICK S : S = {ev[y] : y \in DOMAIN ev}
  BY Zenon
<1>6. q \in Seq(S) /\ Len(q) = m
  BY <1>3, <1>4, <1>5
<1>7. \A e \in S : Good(e)
  BY <1>5
<1>8. Proper(q)
  BY <1>6, <1>7, ProperIf
<1>9. \A n \in 1..m : f[n] \in DOMAIN ev /\ q[n] = ev[f[n]]
  BY <1>3, <1>4
<1>10. QED
  BY <1>3, <1>6, <1>8, <1>9

LEMMA EachSets ==
  ASSUME NEW ev, IsFiniteSet(DOMAIN ev), \A y \in DOMAIN ev : Good(ev[y]), NEW q, q = ForEach(ev),
         NEW g, NEW x, NEW v, NEW z \in DOMAIN ev, Writes(ev[z], g, x),
         \A y \in DOMAIN ev : Writes(ev[y], g, x) => Val(ev[y], g, x) = v
  PROVE  Sets(q, g, x, v)
<1>1. /\ \A i \in 1..Len(q) : \E y \in DOMAIN ev : q[i] = ev[y]
      /\ \A y \in DOMAIN ev : \E i \in 1..Len(q) : q[i] = ev[y]
  BY EachFacts
<1>2. PICK i \in 1..Len(q) : q[i] = ev[z]
  BY <1>1
<1>3. \A j \in 1..Len(q) : Writes(q[j], g, x) => Val(q[j], g, x) = v
  BY <1>1
<1>4. QED
  BY <1>2, <1>3 DEF Sets

LEMMA EachSilent ==
  ASSUME NEW ev, IsFiniteSet(DOMAIN ev), \A y \in DOMAIN ev : Good(ev[y]), NEW q, q = ForEach(ev),
         NEW g, NEW x, \A y \in DOMAIN ev : ~Writes(ev[y], g, x)
  PROVE  Silent(q, g, x)
<1>1. \A i \in 1..Len(q) : \E y \in DOMAIN ev : q[i] = ev[y]
  BY EachFacts
<1>2. QED
  BY <1>1 DEF Silent
-------------------------------------------------------------------------------
(* What one input contributes to a cycle                                       *)
SourceOf(i) == IF i \in Files THEN "integrity" ELSE i
TypeOf(i) ==
  CASE i = "sessions" -> "session"
    [] i = "mounts" -> "mount"
    [] i = "processes" -> "process"
    [] i = "services" -> "service"
    [] i = "ports" -> "port"
    [] i \in Files -> "integrity"
    [] OTHER -> i
Home(g, x) == IF g = "health" THEN x ELSE g

EventOf(i, e) == e.source = SourceOf(i) /\ e.kind.type = TypeOf(i) /\ Good(e)

AllOf(i, q) == \A n \in 1..Len(q) : EventOf(i, q[n])

(* The events of an input are about that input and report no failure.          *)
Plain(i, q) ==
  /\ Proper(q)
  /\ \A g, x : Followed(g, x) /\ Home(g, x) # i => Silent(q, g, x)
  /\ \A n \in 1..Len(q) : q[n].kind.type # "sensor_failure"

LEMMA ElsewhereSilent ==
  ASSUME NEW i \in Probes \cup Files, NEW e, EventOf(i, e), NEW g, NEW x, Followed(g, x), Home(g, x) # i
  PROVE  ~Writes(e, g, x) /\ e.kind.type # "sensor_failure"
<1>1. e.kind.type # "sensor_failure"
  BY DEF EventOf, TypeOf, Probes, Files
<1>2. CASE g = "health"
  BY <1>1, <1>2 DEF EventOf, SourceOf, Writes, Home, Followed, Probes, Files
<1>3. CASE g # "health"
  BY <1>3 DEF EventOf, TypeOf, Writes, Home, Probes, Files, Followed, Groups
<1>4. QED
  BY <1>1, <1>2, <1>3

LEMMA PlainIf ==
  ASSUME NEW i \in Probes \cup Files, NEW q, Proper(q), AllOf(i, q)
  PROVE  Plain(i, q)
<1>1. \A g, x : Followed(g, x) /\ Home(g, x) # i => Silent(q, g, x)
  BY ElsewhereSilent DEF Silent, AllOf
<1>2. \A n \in 1..Len(q) : q[n].kind.type # "sensor_failure"
  BY DEF AllOf, EventOf, TypeOf, Probes, Files
<1>3. QED
  BY <1>1, <1>2 DEF Plain

LEMMA EachPlain ==
  ASSUME NEW i, NEW ev, IsFiniteSet(DOMAIN ev), \A y \in DOMAIN ev : EventOf(i, ev[y]),
         NEW q, q = ForEach(ev)
  PROVE  Proper(q) /\ AllOf(i, q)
<1>1. \A y \in DOMAIN ev : Good(ev[y])
  BY DEF EventOf
<1>2. Proper(q) /\ \A n \in 1..Len(q) : \E y \in DOMAIN ev : q[n] = ev[y]
  BY <1>1, EachFacts
<1>3. QED
  BY <1>2 DEF AllOf

LEMMA BothPlain ==
  ASSUME NEW i, NEW A, NEW B, NEW C, Proper(A), Proper(B), C = A \o B, AllOf(i, A), AllOf(i, B)
  PROVE  Proper(C) /\ AllOf(i, C)
<1>1. Proper(C)
  BY Zenon, ConcatFacts
<1>2. ASSUME NEW n \in 1..Len(C) PROVE EventOf(i, C[n])
  <2>1. (\E m \in 1..Len(A) : C[n] = A[m]) \/ (\E m \in 1..Len(B) : C[n] = B[m])
    BY ConcatEvery
  <2>2. QED
    BY <2>1 DEF AllOf
<1>3. QED
  BY <1>1, <1>2 DEF AllOf

LEMMA EmptyFacts == Proper(<<>>) /\ Len(<<>>) = 0 /\ \A g, x : Silent(<<>>, g, x)
<1>1. <<>> \in Seq({}) /\ Len(<<>>) = 0
  OBVIOUS
<1>2. Proper(<<>>)
  <2>1. PICK z, S : z = <<>> /\ S = {}
    OBVIOUS
  <2>2. z \in Seq(S) /\ \A e \in S : Good(e)
    BY <2>1
  <2>3. Proper(z)
    BY <2>2, ProperIf
  <2>4. QED
    BY <2>1, <2>3
<1>3. 1..0 = {}
  OBVIOUS
<1>4. QED
  BY <1>1, <1>2, <1>3 DEF Silent

LEMMA OneFacts ==
  ASSUME NEW e, Good(e), NEW q, q = <<e>>
  PROVE  /\ Proper(q) /\ Len(q) = 1 /\ \A n \in 1..Len(q) : q[n] = e
         /\ \A g, x : Writes(e, g, x) => Sets(q, g, x, Val(e, g, x))
         /\ \A g, x : ~Writes(e, g, x) => Silent(q, g, x)
<1>1. q \in Seq({e}) /\ Len(q) = 1 /\ q[1] = e
  OBVIOUS
<1>2. Proper(q)
  <2>1. PICK S : S = {e}
    BY Zenon
  <2>2. q \in Seq(S) /\ \A f \in S : Good(f)
    BY <1>1, <2>1
  <2>3. QED
    BY Zenon, <2>2, ProperIf
<1>3. \A n \in 1..Len(q) : q[n] = e
  BY <1>1
<1>4. 1 \in 1..Len(q)
  BY <1>1
<1>5. QED
  BY <1>1, <1>2, <1>3, <1>4 DEF Sets, Silent

LEMMA ValueReport ==
  ASSUME NEW i \in {"wifi", "network", "power"} \cap Inputs, NEW new \in Value[i], NEW old,
         NEW first, NEW q, q = ReportValue(i, first, old, new)
  PROVE  /\ Plain(i, q)
         /\ \A x : first \/ old # new => Sets(q, i, x, new)
         /\ \A x : ~(first \/ old # new) => Silent(q, i, x)
<1>1. PICK e : e = Event(i, new)
  OBVIOUS
<1>2. e.source = i /\ e.kind = new /\ new.type = i
  BY <1>1, ValueAssumption DEF Event, Singles, KindType
<1>3. Good(e)
  BY <1>2 DEF Good, EventTypes
<1>4. EventOf(i, e)
  BY <1>2, <1>3 DEF EventOf, SourceOf, TypeOf, Files
<1>5. i \in Probes
  BY DEF Probes
<1>6. \A x : Writes(e, i, x) /\ Val(e, i, x) = new
  BY <1>2 DEF Writes, Val, Singles
<1>7. CASE first \/ old # new
  <2>1. q = <<e>>
    BY <1>1, <1>7 DEF ReportValue
  <2>2. Proper(q) /\ \A n \in 1..Len(q) : q[n] = e
    BY <1>3, <2>1, OneFacts
  <2>3. \A x : Sets(q, i, x, new)
    BY <1>3, <1>6, <2>1, OneFacts
  <2>4. Plain(i, q)
    BY <1>4, <1>5, <2>2, PlainIf DEF AllOf
  <2>5. QED
    BY <1>7, <2>3, <2>4
<1>8. CASE ~(first \/ old # new)
  <2>1. q = <<>>
    BY <1>8 DEF ReportValue
  <2>2. Plain(i, q)
    BY <2>1, EmptyFacts DEF Plain
  <2>3. QED
    BY <1>8, <2>1, <2>2, EmptyFacts
<1>9. QED
  BY <1>7, <1>8

LEMMA SessionReport ==
  ASSUME "sessions" \in Inputs, NEW new \in Value["sessions"], NEW old,
         NEW first, NEW q, q = ReportSession(first, old, new)
  PROVE  /\ Plain("sessions", q)
         /\ \A x : first \/ old # new => Sets(q, "sessions", x, new)
         /\ \A x : ~(first \/ old # new) => Silent(q, "sessions", x)
<1> PICK e, w : e = Event("sessions", new) /\ w = Event("sessions", [new EXCEPT !.state = "logged_in"])
  OBVIOUS
<1>1. new.type = "session" /\ new = [type |-> new.type, state |-> new.state, user |-> new.user, remote |-> new.remote]
  BY ValueAssumption DEF Singles, KindType
<1>2. [new EXCEPT !.state = "logged_in"].type = "session"
  BY <1>1
<1>3. /\ e.source = "sessions" /\ e.kind = new /\ e.kind.type = "session"
      /\ w.source = "sessions" /\ w.kind.type = "session"
  BY <1>1, <1>2 DEF Event
<1>4. Good(e) /\ Good(w)
  BY <1>3 DEF Good, EventTypes
<1>5. EventOf("sessions", e) /\ EventOf("sessions", w) /\ "sessions" \in Probes
  BY <1>3, <1>4 DEF EventOf, SourceOf, TypeOf, Files, Probes
<1>6. \A x : Writes(e, "sessions", x) /\ Val(e, "sessions", x) = new
  BY <1>3 DEF Writes, Val, Singles
<1>7. PICK A, B : A = <<w>> /\ B = <<e>>
  BY Zenon
<1>8. /\ Proper(A) /\ Len(A) = 1 /\ \A n \in 1..Len(A) : A[n] = w
      /\ Proper(B) /\ Len(B) = 1 /\ \A n \in 1..Len(B) : B[n] = e
      /\ \A x : Sets(B, "sessions", x, new)
  BY <1>4, <1>6, <1>7, OneFacts
<1>9. CASE q = <<>> /\ ~(first \/ old # new)
  <2>1. Plain("sessions", q)
    BY <1>9, EmptyFacts DEF Plain
  <2>2. QED
    BY <1>9, <2>1, EmptyFacts
<1>10. CASE q = B /\ (first \/ old # new)
  <2>1. Plain("sessions", q)
    BY <1>5, <1>8, <1>10, PlainIf DEF AllOf
  <2>2. QED
    BY <1>8, <1>10, <2>1
<1>11. CASE q = A \o B /\ (first \/ old # new)
  <2>1. AllOf("sessions", A) /\ AllOf("sessions", B)
    BY <1>5, <1>8 DEF AllOf
  <2>2. Proper(q) /\ AllOf("sessions", q)
    BY Zenon, <1>8, <1>11, <2>1, BothPlain
  <2>3. Plain("sessions", q)
    BY <1>5, <2>2, PlainIf
  <2>4. \A x : Sets(q, "sessions", x, new)
    BY Zenon, <1>8, <1>11, SetsLast
  <2>5. QED
    BY <1>11, <2>3, <2>4
<1>12. \/ q = <<>> /\ ~(first \/ old # new)
       \/ q = <<>> \o B /\ (first \/ old # new)
       \/ q = A \o B /\ (first \/ old # new)
  BY Zenon, <1>7 DEF ReportSession
<1>13. <<>> \o B = B
  BY <1>7
<1>14. QED
  BY <1>9, <1>10, <1>11, <1>12, <1>13

LEMMA IntegrityReport ==
  ASSUME NEW i \in Files, NEW old, NEW new, NEW q, q = ReportIntegrity(i, old, new)
  PROVE  Plain(i, q)
<1>1. PICK e : e = Event("integrity", [type |-> "integrity", component |-> i, valid |-> FALSE])
  OBVIOUS
<1>2. e.source = "integrity" /\ e.kind.type = "integrity" /\ e.kind.component = i
  BY <1>1 DEF Event
<1>3. Good(e)
  BY <1>2 DEF Good, EventTypes
<1>4. EventOf(i, e)
  BY <1>2, <1>3 DEF EventOf, SourceOf, TypeOf, Files
<1>5. CASE q = <<e>>
  <2>1. Proper(q) /\ \A n \in 1..Len(q) : q[n] = e
    BY <1>3, <1>5, OneFacts
  <2>2. QED
    BY <1>4, <2>1, PlainIf DEF AllOf
<1>6. CASE q = <<>>
  BY <1>6, EmptyFacts DEF Plain
<1>7. QED
  BY <1>1, <1>5, <1>6 DEF ReportIntegrity

LEMMA SetReport ==
  ASSUME NEW i \in {"usb", "mounts"}, NEW new, NEW old, IsFiniteSet(new), IsFiniteSet(old),
         NEW first, first => old = {}, NEW q, q = ReportSet(i, first, old, new)
  PROVE  /\ Plain(i, q)
         /\ i = "mounts" => \A x : x \in new \ old => Sets(q, i, x, 1)
         /\ i = "mounts" => \A x : x \in old \ new => Sets(q, i, x, 0)
         /\ i = "mounts" => \A x : (x \in new <=> x \in old) => Silent(q, i, x)
<1> PICK S, T : S = new \ old /\ T = old \ new
  BY Zenon
<1> PICK a, r : /\ a = [x \in S |-> Event(i, SetKind(i, x, "added"))]
                /\ r = [x \in T |-> Event(i, SetKind(i, x, "removed"))]
  BY Zenon
<1> PICK A, B : A = ForEach(a) /\ B = ForEach(r)
  OBVIOUS
<1>1. IsFiniteSet(DOMAIN a) /\ IsFiniteSet(DOMAIN r) /\ DOMAIN a = S /\ DOMAIN r = T
  BY Zenon, FS_Difference
<1>2. q = A \o B
  BY Zenon DEF ReportSet
<1>3. /\ \A y \in DOMAIN a : /\ a[y].source = i /\ a[y].kind.type = TypeOf(i)
                             /\ i = "mounts" => a[y].kind.path = y /\ a[y].kind.action = "added"
      /\ \A y \in DOMAIN r : /\ r[y].source = i /\ r[y].kind.type = TypeOf(i)
                             /\ i = "mounts" => r[y].kind.path = y /\ r[y].kind.action = "removed"
  BY <1>1 DEF Event, SetKind, TypeOf, Files
<1>4. TypeOf(i) \in {"usb", "mount"} /\ SourceOf(i) = i /\ i \in Probes /\ (i = "mounts" => TypeOf(i) = "mount")
  BY DEF TypeOf, SourceOf, Files, Probes
<1>5. (\A y \in DOMAIN a : Good(a[y])) /\ (\A y \in DOMAIN r : Good(r[y]))
  BY <1>3, <1>4 DEF Good, EventTypes
<1>6. (\A y \in DOMAIN a : EventOf(i, a[y])) /\ (\A y \in DOMAIN r : EventOf(i, r[y]))
  BY <1>3, <1>4, <1>5 DEF EventOf
<1>7. Proper(A) /\ AllOf(i, A) /\ Proper(B) /\ AllOf(i, B)
  BY <1>1, <1>6, EachPlain
<1>8. Plain(i, q)
  <2>1. Proper(q) /\ AllOf(i, q)
    BY Zenon, <1>2, <1>7, BothPlain
  <2>2. QED
    BY <1>4, <2>1, PlainIf
<1>9. ASSUME i = "mounts" PROVE /\ \A y \in DOMAIN a : \A x : Writes(a[y], i, x) <=> x = y
                                /\ \A y \in DOMAIN a : \A x : Val(a[y], i, x) = 1
                                /\ \A y \in DOMAIN r : \A x : Writes(r[y], i, x) <=> x = y
                                /\ \A y \in DOMAIN r : \A x : Val(r[y], i, x) = 0
  BY <1>3, <1>4, <1>9 DEF Writes, Val, Singles, Bit
<1>10. ASSUME i = "mounts", NEW x PROVE (x \in S => Sets(A, i, x, 1)) /\ (x \notin S => Silent(A, i, x))
  BY <1>1, <1>5, <1>9, <1>10, EachSets, EachSilent
<1>11. ASSUME i = "mounts", NEW x PROVE (x \in T => Sets(B, i, x, 0)) /\ (x \notin T => Silent(B, i, x))
  BY <1>1, <1>5, <1>9, <1>11, EachSets, EachSilent
<1>12. ASSUME i = "mounts", NEW x
       PROVE  /\ x \in S => Sets(q, i, x, 1)
              /\ x \in T => Sets(q, i, x, 0)
              /\ x \notin S /\ x \notin T => Silent(q, i, x)
  <2>1. x \in S => x \notin T
    OBVIOUS
  <2>2. CASE x \in S
    <3>1. Sets(A, i, x, 1) /\ Silent(B, i, x)
      BY <1>10, <1>11, <1>12, <2>1, <2>2
    <3>2. Sets(q, i, x, 1)
      BY Zenon, <1>2, <1>7, <3>1, SetsFirst
    <3>3. QED
      BY <2>1, <2>2, <3>2
  <2>3. CASE x \in T
    <3>1. Sets(B, i, x, 0)
      BY <1>11, <1>12, <2>3
    <3>2. Sets(q, i, x, 0)
      BY Zenon, <1>2, <1>7, <3>1, SetsLast
    <3>3. QED
      BY <2>1, <2>3, <3>2
  <2>4. CASE x \notin S /\ x \notin T
    <3>1. Silent(A, i, x) /\ Silent(B, i, x)
      BY Zenon, <1>10, <1>11, <1>12, <2>4
    <3>2. Silent(q, i, x)
      BY Zenon, <1>2, <1>7, <3>1, SilentConcat
    <3>3. QED
      BY <2>4, <3>2
  <2>5. QED
    BY <2>2, <2>3, <2>4
<1>13. QED
  BY <1>8, <1>12

LEMMA MapReport ==
  ASSUME NEW i \in {"processes", "services"}, NEW new, NEW old, IsFiniteSet(DOMAIN new),
         NEW first, NEW q, q = ReportMap(i, first, old, new)
  PROVE  /\ Plain(i, q)
         /\ \A x \in DOMAIN new :
              \/ Sets(q, i, x, Bit(new[x]))
              \/ Silent(q, i, x) /\ ~first /\ x \in DOMAIN old /\ old[x] = new[x]
<1> PICK S : S = {n \in DOMAIN new : first \/ n \notin DOMAIN old \/ old[n] # new[n]}
  BY Zenon
<1> PICK ev : ev = [n \in S |-> Event(i, NameKind(i, n, new[n]))]
  BY Zenon
<1>1. q = ForEach(ev) /\ DOMAIN ev = S
  BY DEF ReportMap
<1>2. IsFiniteSet(DOMAIN ev)
  <2>1. S \in SUBSET DOMAIN new
    OBVIOUS
  <2>2. QED
    BY <1>1, <2>1, FS_Subset
<1>3. \A y \in DOMAIN ev : /\ ev[y].source = i /\ ev[y].kind.type = TypeOf(i) /\ ev[y].kind.name = y
                           /\ i = "processes" => ev[y].kind.running = new[y]
                           /\ i = "services" => ev[y].kind.active = new[y]
  BY <1>1 DEF Event, NameKind, TypeOf, Files
<1>4. /\ SourceOf(i) = i /\ i \in Probes
      /\ i = "processes" => TypeOf(i) = "process"
      /\ i = "services" => TypeOf(i) = "service"
  BY DEF TypeOf, SourceOf, Files, Probes
<1>5. \A y \in DOMAIN ev : Good(ev[y])
  BY <1>3, <1>4 DEF Good, EventTypes
<1>6. \A y \in DOMAIN ev : EventOf(i, ev[y])
  BY <1>3, <1>4, <1>5 DEF EventOf
<1>7. Proper(q) /\ AllOf(i, q)
  BY <1>1, <1>2, <1>6, EachPlain
<1>8. Plain(i, q)
  BY <1>4, <1>7, PlainIf
<1>9. /\ \A y \in DOMAIN ev : \A x : Writes(ev[y], i, x) <=> x = y
      /\ \A y \in DOMAIN ev : \A x : Val(ev[y], i, x) = Bit(new[y])
  BY <1>3, <1>4 DEF Writes, Val, Singles
<1>10. ASSUME NEW x \in DOMAIN new
       PROVE  \/ Sets(q, i, x, Bit(new[x]))
              \/ Silent(q, i, x) /\ ~first /\ x \in DOMAIN old /\ old[x] = new[x]
  <2>1. CASE x \in S
    <3>1. PICK v : v = Bit(new[x])
      OBVIOUS
    <3>2. Writes(ev[x], i, x) /\ \A y \in DOMAIN ev : Writes(ev[y], i, x) => Val(ev[y], i, x) = v
      BY <1>1, <1>9, <2>1, <3>1, SMTT(20)
    <3>3. Sets(q, i, x, v)
      BY <1>1, <1>2, <1>5, <2>1, <3>2, EachSets
    <3>4. QED
      BY <3>1, <3>3
  <2>2. CASE x \notin S
    <3>1. \A y \in DOMAIN ev : ~Writes(ev[y], i, x)
      BY <1>1, <1>9, <2>2
    <3>2. Silent(q, i, x)
      BY <1>1, <1>2, <1>5, <3>1, EachSilent
    <3>3. QED
      BY <2>2, <3>2
  <2>3. QED
    BY <2>1, <2>2
<1>11. QED
  BY <1>8, <1>10

LEMMA PortReport ==
  ASSUME NEW new, NEW old, new \subseteq RequiredPorts, old \subseteq RequiredPorts,
         NEW first, NEW q, q = ReportPorts(first, old, new)
  PROVE  /\ Plain("ports", q)
         /\ \A x \in RequiredPorts :
              \/ Sets(q, "ports", x, Bit(x \in new))
              \/ Silent(q, "ports", x) /\ ~first /\ (x \in old <=> x \in new)
<1> PICK S : S = IF first THEN RequiredPorts ELSE (new \ old) \cup (old \ new)
  BY Zenon
<1> PICK ev : ev = [p \in S |-> Event("ports", PortKind(p, p \in new))]
  BY Zenon
<1>1. q = ForEach(ev) /\ DOMAIN ev = S /\ S \subseteq RequiredPorts
  BY DEF ReportPorts
<1>2. IsFiniteSet(DOMAIN ev)
  <2>1. IsFiniteSet(RequiredPorts)
    BY ValueAssumption
  <2>2. S \in SUBSET RequiredPorts
    BY <1>1
  <2>3. QED
    BY <1>1, <2>1, <2>2, FS_Subset
<1>3. \A y \in DOMAIN ev : /\ ev[y].source = "ports" /\ ev[y].kind.type = "port"
                           /\ <<ev[y].kind.protocol, ev[y].kind.port>> = y
                           /\ ev[y].kind.open = (y \in new)
  <2>1. \A y \in DOMAIN ev : y = <<y[1], y[2]>>
    BY <1>1, ValueAssumption
  <2>2. QED
    BY <1>1, <2>1 DEF Event, PortKind
<1>4. SourceOf("ports") = "ports" /\ "ports" \in Probes /\ TypeOf("ports") = "port"
  BY DEF TypeOf, SourceOf, Files, Probes
<1>5. \A y \in DOMAIN ev : Good(ev[y])
  BY <1>1, <1>3 DEF Good, EventTypes
<1>6. \A y \in DOMAIN ev : EventOf("ports", ev[y])
  BY <1>3, <1>4, <1>5 DEF EventOf
<1>7. Proper(q) /\ AllOf("ports", q)
  BY <1>1, <1>2, <1>6, EachPlain
<1>8. Plain("ports", q)
  BY <1>4, <1>7, PlainIf
<1>9. /\ \A y \in DOMAIN ev : \A x : Writes(ev[y], "ports", x) <=> x = y
      /\ \A y \in DOMAIN ev : \A x : Val(ev[y], "ports", x) = Bit(y \in new)
  BY Zenon, <1>3 DEF Writes, Val, Singles
<1>10. ASSUME NEW x \in RequiredPorts
       PROVE  \/ Sets(q, "ports", x, Bit(x \in new))
              \/ Silent(q, "ports", x) /\ ~first /\ (x \in old <=> x \in new)
  <2>1. CASE x \in S
    <3>1. PICK v : v = Bit(x \in new)
      OBVIOUS
    <3>2. Writes(ev[x], "ports", x) /\ \A y \in DOMAIN ev : Writes(ev[y], "ports", x) => Val(ev[y], "ports", x) = v
      BY <1>1, <1>9, <2>1, <3>1
    <3>3. Sets(q, "ports", x, v)
      BY <1>1, <1>2, <1>5, <2>1, <3>2, EachSets
    <3>4. QED
      BY <3>1, <3>3
  <2>2. CASE x \notin S
    <3>1. \A y \in DOMAIN ev : ~Writes(ev[y], "ports", x)
      BY <1>1, <1>9, <2>2
    <3>2. Silent(q, "ports", x)
      BY <1>1, <1>2, <1>5, <3>1, EachSilent
    <3>3. QED
      BY <2>2, <3>2
  <2>3. QED
    BY <2>1, <2>2
<1>11. QED
  BY <1>8, <1>10
-------------------------------------------------------------------------------
(* A poller that has reported p claims that a cell has the value v.  Mounts    *)
(* are claimed by the first poller only.                                       *)
Claimed(p, g, x, v) ==
  \/ g \in Singles \cap Inputs /\ v = p.known[g] /\ v # None
  \/ g \in {"processes", "services"} \cap Inputs /\ x \in DOMAIN p.known[g] /\ v = Bit(p.known[g][x])
  \/ g = "ports" /\ g \in Inputs /\ p.initialized /\ x \in RequiredPorts /\ v = Bit(x \in p.known["ports"])
  \/ g = "mounts" /\ g \in Inputs /\ ~restarted /\ v = Bit(x \in p.known["mounts"])
  \/ g = "health" /\ x \in p.failed /\ v = 0

PollOK(p) ==
  /\ \A i \in Inputs : p.known[i] \in Value[i] \cup {Unknown(i)}
  /\ ~p.initialized => \A i \in Inputs : p.known[i] = Unknown(i)
  /\ p.failed \subseteq Fallible \ Files

HostOK == \A i \in Inputs : host[i] \in Value[i]

(* The events q of input i take what p claims of it to what n claims.          *)
Does(i, q, p, n) ==
  /\ Proper(q)
  /\ \A g, x : Followed(g, x) /\ Home(g, x) # i => Silent(q, g, x)
  /\ \A g, x, v : Followed(g, x) /\ Home(g, x) = i /\ Claimed(n, g, x, v) =>
       Sets(q, g, x, v) \/ (Silent(q, g, x) /\ Claimed(p, g, x, v))
  /\ i \in p.failed => \A k \in 1..Len(q) : q[k] # Failure(i)

LEMMA InputNames ==
  /\ Inputs \subseteq Probes \cup Files /\ Fallible \subseteq Inputs /\ "ports" \notin Fallible
  /\ Inputs \ Files \subseteq Probes /\ Probes \cap Files = {} /\ "health" \notin Probes \cup Files
BY InputAssumption DEF Inputs, Fallible, Probes, Files

LEMMA StateFacts ==
  ASSUME NEW p, PollOK(p), HostOK, NEW failing \in SUBSET Fallible, NEW n, n = CycleState(p, failing)
  PROVE  /\ n.initialized = TRUE /\ n.failed = failing \ Files /\ PollOK(n)
         /\ \A i \in Inputs : (i \in failing => n.known[i] = p.known[i]) /\ (i \notin failing => n.known[i] = host[i])
<1>1. /\ n.initialized = TRUE /\ n.failed = failing \ Files
      /\ \A i \in Inputs : (i \in failing => n.known[i] = p.known[i]) /\ (i \notin failing => n.known[i] = host[i])
  BY DEF CycleState
<1>2. PollOK(n)
  BY <1>1 DEF PollOK, HostOK
<1>3. QED
  BY <1>1, <1>2

LEMMA ClaimedFollowed ==
  ASSUME NEW p, PollOK(p), NEW g, NEW x, NEW v, Claimed(p, g, x, v)
  PROVE  Followed(g, x)
<1>1. CASE g = "health"
  BY <1>1, InputNames DEF Claimed, Followed, Groups, PollOK, Singles
<1>2. CASE g # "health"
  BY <1>2 DEF Claimed, Followed, Groups, Singles
<1>3. QED
  BY <1>1, <1>2

LEMMA PlainDoes ==
  ASSUME NEW i \in Probes \cup Files, NEW q, NEW p, NEW n, Plain(i, q), i \notin n.failed,
         \A x, v : Claimed(n, i, x, v) => Sets(q, i, x, v) \/ (Silent(q, i, x) /\ Claimed(p, i, x, v))
  PROVE  Does(i, q, p, n)
<1>1. ASSUME NEW g, NEW x, NEW v, Followed(g, x), Home(g, x) = i, Claimed(n, g, x, v)
      PROVE  Sets(q, g, x, v) \/ (Silent(q, g, x) /\ Claimed(p, g, x, v))
  <2>1. g # "health"
    BY <1>1 DEF Home, Claimed, Singles
  <2>2. g = i
    BY <1>1, <2>1 DEF Home
  <2>3. QED
    BY <1>1, <2>2
<1>2. \A k \in 1..Len(q) : q[k] # Failure(i)
  BY DEF Plain, Failure, Event
<1>3. QED
  BY <1>1, <1>2 DEF Does, Plain

LEMMA FailedDoes ==
  ASSUME NEW p, PollOK(p), HostOK, NEW failing \in SUBSET Fallible, NEW n, n = CycleState(p, failing),
         NEW i \in failing, NEW q, q = ReportFailure(i, p)
  PROVE  Does(i, q, p, n)
<1>1. /\ n.initialized = TRUE /\ n.failed = failing \ Files /\ n.known[i] = p.known[i]
      /\ i \in Inputs /\ i \in Probes \cup Files /\ i # "ports" /\ i # "health"
  <2>1. i \in Inputs /\ i \in Probes \cup Files /\ i # "ports" /\ i # "health"
    BY InputNames
  <2>2. /\ n.initialized = TRUE /\ n.failed = failing \ Files
        /\ \A j \in Inputs : j \in failing => n.known[j] = p.known[j]
    BY DEF CycleState
  <2>3. QED
    BY <2>1, <2>2
<1>2. CASE i \in Files
  <2>1. PICK e : e = Failure("integrity")
    OBVIOUS
  <2>2. e.source = "integrity" /\ e.kind.type = "sensor_failure" /\ e.kind.sensor = "integrity"
    BY <2>1 DEF Failure, Event
  <2>3. Good(e)
    BY <2>2 DEF Good, EventTypes
  <2>4. q = <<e>>
    BY <1>2, <2>1 DEF ReportFailure
  <2>5. \A g, x : Followed(g, x) => ~Writes(e, g, x)
    BY <2>2 DEF Followed, Writes, Probes
  <2>6. Proper(q) /\ \A g, x : Followed(g, x) => Silent(q, g, x)
    BY <2>3, <2>4, <2>5, OneFacts
  <2>7. i \notin p.failed
    BY <1>2 DEF PollOK
  <2>8. \A g, x, v : Followed(g, x) /\ Claimed(n, g, x, v) => Home(g, x) # i
    BY <1>2 DEF Followed, Home, Groups, Files, Probes
  <2>9. QED
    BY <2>6, <2>7, <2>8 DEF Does
<1>3. CASE i \notin Files
  <2>1. PICK e : e = Failure(i)
    OBVIOUS
  <2>2. e.source = i /\ e.kind.type = "sensor_failure" /\ e.kind.sensor = i
    BY <2>1 DEF Failure, Event
  <2>3. Good(e)
    BY <2>2 DEF Good, EventTypes
  <2>4. \A g, x : Followed(g, x) => (Writes(e, g, x) <=> g = "health" /\ x = i)
    BY <2>2 DEF Followed, Writes, Groups
  <2>5. Val(e, "health", i) = 0
    BY <2>2 DEF Val, Bit, Singles
  <2>6. ASSUME NEW g, NEW x, NEW v, Home(g, x) = i, Claimed(n, g, x, v), g # "health"
        PROVE  Claimed(p, g, x, v)
    <3>1. g = i
      BY <2>6 DEF Home
    <3>2. QED
      BY <1>1, <2>6, <3>1 DEF Claimed
  <2>7. ASSUME NEW x, NEW v, Home("health", x) = i, Claimed(n, "health", x, v)
        PROVE  x = i /\ v = 0
    BY <2>7, SMTT(20) DEF Home, Claimed, Singles
  <2>8. CASE i \in p.failed
    <3>1. q = <<>>
      BY <1>3, <2>8 DEF ReportFailure
    <3>2. Proper(q) /\ Len(q) = 0 /\ \A g, x : Silent(q, g, x)
      BY <3>1, EmptyFacts
    <3>3. \A g, x, v : Home(g, x) = i /\ Claimed(n, g, x, v) => Claimed(p, g, x, v)
      <4>1. Claimed(p, "health", i, 0)
        BY <2>8 DEF Claimed
      <4>2. QED
        BY <2>6, <2>7, <4>1
    <3>4. \A k \in 1..Len(q) : FALSE
      BY <3>2, SMTT(20)
    <3>5. QED
      BY <3>2, <3>3, <3>4 DEF Does
  <2>9. CASE i \notin p.failed
    <3>1. q = <<e>>
      BY <1>3, <2>1, <2>9 DEF ReportFailure
    <3>2. /\ Proper(q)
          /\ \A g, x : Writes(e, g, x) => Sets(q, g, x, Val(e, g, x))
          /\ \A g, x : ~Writes(e, g, x) => Silent(q, g, x)
      BY <2>3, <3>1, OneFacts
    <3>3. \A g, x : Followed(g, x) /\ Home(g, x) # i => Silent(q, g, x)
      BY <2>4, <3>2 DEF Home
    <3>4. ASSUME NEW g, NEW x, NEW v, Followed(g, x), Home(g, x) = i, Claimed(n, g, x, v)
          PROVE  Sets(q, g, x, v) \/ (Silent(q, g, x) /\ Claimed(p, g, x, v))
      <4>1. CASE g = "health"
        <5>1. x = i /\ v = 0
          BY <2>7, <3>4, <4>1
        <5>2. QED
          BY <2>4, <2>5, <3>2, <3>4, <4>1, <5>1
      <4>2. CASE g # "health"
        BY <2>4, <2>6, <3>2, <3>4, <4>2
      <4>3. QED
        BY <4>1, <4>2
    <3>5. QED
      BY <2>9, <3>2, <3>3, <3>4 DEF Does
  <2>10. QED
    BY <2>8, <2>9
<1>4. QED
  BY <1>2, <1>3

LEMMA ReportCases ==
  ASSUME NEW i, NEW first, NEW old, NEW new, NEW q, q = Report(i, first, old, new)
  PROVE  /\ i \in {"wifi", "network", "power"} => q = ReportValue(i, first, old, new)
         /\ i \in {"usb", "mounts"} => q = ReportSet(i, first, old, new)
         /\ i \in {"processes", "services"} => q = ReportMap(i, first, old, new)
         /\ i = "ports" => q = ReportPorts(first, old, new)
         /\ i = "sessions" => q = ReportSession(first, old, new)
         /\ i \in Files => q = ReportIntegrity(i, old, new)
<1>1. i \in {"wifi", "network", "power"} => q = ReportValue(i, first, old, new)
  BY DEF Report, Files
<1>2. i \in {"usb", "mounts"} => q = ReportSet(i, first, old, new)
  BY DEF Report, Files
<1>3. i \in {"processes", "services"} => q = ReportMap(i, first, old, new)
  BY DEF Report, Files
<1>4. i = "ports" => q = ReportPorts(first, old, new)
  BY DEF Report, Files
<1>5. i = "sessions" => q = ReportSession(first, old, new)
  BY DEF Report, Files
<1>6. i \in Files => q = ReportIntegrity(i, old, new)
  BY DEF Report, Files
<1>7. QED
  BY <1>1, <1>2, <1>3, <1>4, <1>5, <1>6

LEMMA ReadDoes ==
  ASSUME NEW p, PollOK(p), HostOK, NEW failing \in SUBSET Fallible, NEW n, n = CycleState(p, failing),
         NEW i \in Inputs \ failing, NEW q, q = Report(i, ~p.initialized, p.known[i], host[i])
  PROVE  Does(i, q, p, n)
<1> PICK old, new : old = p.known[i] /\ new = host[i]
  OBVIOUS
<1> PICK first : first = ~p.initialized
  OBVIOUS
<1>1. i \in Probes \cup Files /\ q = Report(i, first, old, new)
  BY InputNames
<1>2. n.initialized = TRUE /\ i \notin n.failed /\ n.known[i] = new
  <2>1. /\ n.initialized = TRUE /\ n.failed = failing \ Files
        /\ \A j \in Inputs : j \notin failing => n.known[j] = host[j]
    BY DEF CycleState
  <2>2. QED
    BY <2>1
<1>3. new \in Value[i] /\ old \in Value[i] \cup {Unknown(i)} /\ (~p.initialized => old = Unknown(i))
  BY SMTT(20) DEF PollOK, HostOK
<1>4. CASE i \in {"wifi", "network", "power"}
  <2>1. q = ReportValue(i, first, old, new)
    BY <1>1, <1>4, ReportCases, SMTT(20)
  <2>2. /\ Plain(i, q)
        /\ \A x : first \/ old # new => Sets(q, i, x, new)
        /\ \A x : ~(first \/ old # new) => Silent(q, i, x)
    BY <1>3, <1>4, <2>1, ValueReport, SMTT(20)
  <2>3. ASSUME NEW x, NEW v, Claimed(n, i, x, v)
        PROVE  Sets(q, i, x, v) \/ (Silent(q, i, x) /\ Claimed(p, i, x, v))
    <3>1. v = new /\ v # None
      BY <1>2, <1>4, <2>3 DEF Claimed
    <3>2. old = new => Claimed(p, i, x, v)
      BY <1>4, <3>1 DEF Claimed, Singles
    <3>3. QED
      BY <2>2, <3>1, <3>2
  <2>4. QED
    BY <1>1, <1>2, <2>2, <2>3, PlainDoes
<1>5. CASE i = "sessions"
  <2>1. q = ReportSession(first, old, new)
    BY <1>1, <1>5, ReportCases, SMTT(20)
  <2>2. /\ Plain(i, q)
        /\ \A x : first \/ old # new => Sets(q, i, x, new)
        /\ \A x : ~(first \/ old # new) => Silent(q, i, x)
    BY <1>3, <1>5, <2>1, SessionReport
  <2>3. ASSUME NEW x, NEW v, Claimed(n, i, x, v)
        PROVE  Sets(q, i, x, v) \/ (Silent(q, i, x) /\ Claimed(p, i, x, v))
    <3>1. v = new /\ v # None
      BY <1>2, <1>5, <2>3 DEF Claimed
    <3>2. old = new => Claimed(p, i, x, v)
      BY <1>5, <3>1, SMTT(20) DEF Claimed, Singles
    <3>3. QED
      BY <2>2, <3>1, <3>2
  <2>4. QED
    BY <1>1, <1>2, <2>2, <2>3, PlainDoes
<1>6. CASE i \in Files
  <2>1. q = ReportIntegrity(i, old, new)
    BY <1>1, <1>6, ReportCases
  <2>2. Plain(i, q)
    BY <1>6, <2>1, IntegrityReport
  <2>3. \A x, v : ~Claimed(n, i, x, v)
    BY <1>6, SMTT(20) DEF Claimed, Files, Singles
  <2>4. QED
    BY <1>1, <1>2, <2>2, <2>3, PlainDoes
<1>7. CASE i \in {"usb", "mounts"}
  <2>1. q = ReportSet(i, first, old, new)
    BY <1>1, <1>7, ReportCases
  <2>2. Unknown(i) = {}
    BY <1>7 DEF Unknown
  <2>3. IsFiniteSet(new) /\ IsFiniteSet(old) /\ (first => old = {})
    BY Zenon, <1>3, <1>7, <2>2, ValueAssumption, FS_EmptySet
  <2>4. /\ Plain(i, q)
        /\ i = "mounts" => \A x : x \in new \ old => Sets(q, i, x, 1)
        /\ i = "mounts" => \A x : x \in old \ new => Sets(q, i, x, 0)
        /\ i = "mounts" => \A x : (x \in new <=> x \in old) => Silent(q, i, x)
    BY <1>7, <2>1, <2>3, SetReport, SMTT(20)
  <2>5. ASSUME NEW x, NEW v, Claimed(n, i, x, v)
        PROVE  Sets(q, i, x, v) \/ (Silent(q, i, x) /\ Claimed(p, i, x, v))
    <3>1. i = "mounts" /\ ~restarted /\ v = Bit(x \in new)
      BY <1>2, <1>7, <2>5, SMTT(20) DEF Claimed, Singles
    <3>2. CASE x \in new \ old
      BY <2>4, <3>1, <3>2 DEF Bit
    <3>3. CASE x \in old \ new
      BY <2>4, <3>1, <3>3, SMTT(20) DEF Bit
    <3>4. CASE x \in new <=> x \in old
      <4>1. Claimed(p, i, x, v)
        BY <3>1, <3>4, SMTT(20) DEF Claimed, Bit
      <4>2. QED
        BY <2>4, <3>1, <3>4, <4>1
    <3>5. QED
      BY <3>2, <3>3, <3>4
  <2>6. QED
    BY <1>1, <1>2, <2>4, <2>5, PlainDoes
<1>8. CASE i \in {"processes", "services"}
  <2>1. q = ReportMap(i, first, old, new)
    BY <1>1, <1>8, ReportCases
  <2>2. IsFiniteSet(DOMAIN new)
    BY <1>3, <1>8, ValueAssumption
  <2>3. /\ Plain(i, q)
        /\ \A x \in DOMAIN new :
             \/ Sets(q, i, x, Bit(new[x]))
             \/ Silent(q, i, x) /\ ~first /\ x \in DOMAIN old /\ old[x] = new[x]
    BY ONLY <1>8, <2>1, <2>2, MapReport, SMTT(20)
  <2>4. ASSUME NEW x, NEW v, Claimed(n, i, x, v)
        PROVE  Sets(q, i, x, v) \/ (Silent(q, i, x) /\ Claimed(p, i, x, v))
    <3>1. x \in DOMAIN new /\ v = Bit(new[x])
      BY <1>2, <1>8, <2>4 DEF Claimed, Singles
    <3>2. x \in DOMAIN old /\ old[x] = new[x] => Claimed(p, i, x, v)
      BY <1>8, <3>1, SMTT(20) DEF Claimed
    <3>3. QED
      BY <2>3, <3>1, <3>2
  <2>5. QED
    BY <1>1, <1>2, <2>3, <2>4, PlainDoes
<1>9. CASE i = "ports"
  <2>1. q = ReportPorts(first, old, new)
    BY <1>1, <1>9, ReportCases
  <2>2. Unknown(i) = {}
    BY <1>9 DEF Unknown
  <2>3. new \subseteq RequiredPorts /\ old \subseteq RequiredPorts
    BY <1>3, <1>9, <2>2, ValueAssumption
  <2>4. /\ Plain("ports", q)
        /\ \A x \in RequiredPorts :
             \/ Sets(q, "ports", x, Bit(x \in new))
             \/ Silent(q, "ports", x) /\ ~first /\ (x \in old <=> x \in new)
    BY ONLY <2>1, <2>3, PortReport, SMTT(20)
  <2>5. ASSUME NEW x, NEW v, Claimed(n, i, x, v)
        PROVE  Sets(q, i, x, v) \/ (Silent(q, i, x) /\ Claimed(p, i, x, v))
    <3>1. x \in RequiredPorts /\ v = Bit(x \in new)
      BY <1>2, <1>9, <2>5 DEF Claimed, Singles
    <3>2. ~first /\ (x \in old <=> x \in new) => Claimed(p, i, x, v)
      BY Zenon, <1>9, <3>1 DEF Claimed, Bit
    <3>3. QED
      BY <1>9, <2>4, <3>1, <3>2
  <2>6. QED
    BY <1>1, <1>2, <1>9, <2>4, <2>5, PlainDoes
<1>10. QED
  BY <1>1, <1>4, <1>5, <1>6, <1>7, <1>8, <1>9 DEF Probes

LEMMA InputDoes ==
  ASSUME NEW p, PollOK(p), HostOK, NEW failing \in SUBSET Fallible, NEW n, n = CycleState(p, failing),
         NEW i \in Probes \cup Files, NEW q, q = InputEvents(i, p, failing)
  PROVE  Does(i, q, p, n)
<1>1. failing \subseteq Inputs /\ i # "health"
  BY InputNames, SMTT(20)
<1>2. CASE i \notin Inputs
  <2>1. q = <<>>
    BY <1>1, <1>2 DEF InputEvents
  <2>2. Proper(q) /\ Len(q) = 0 /\ \A g, x : Silent(q, g, x)
    BY <2>1, EmptyFacts
  <2>3. n.failed = failing \ Files
    BY DEF CycleState
  <2>4. ASSUME NEW g, NEW x, NEW v, Claimed(n, g, x, v) PROVE Home(g, x) # i
    <3>1. CASE g = "health"
      BY <1>1, <1>2, <2>3, <2>4, <3>1 DEF Claimed, Home, Singles
    <3>2. CASE g # "health"
      BY <1>2, <2>4, <3>2 DEF Claimed, Home
    <3>3. QED
      BY <3>1, <3>2
  <2>5. i \notin p.failed
    BY <1>2, InputNames DEF PollOK
  <2>6. QED
    BY <2>2, <2>4, <2>5 DEF Does
<1>3. CASE i \in Inputs /\ i \in failing
  <2>1. q = ReportFailure(i, p)
    BY <1>3 DEF InputEvents
  <2>2. QED
    BY <1>3, <2>1, FailedDoes
<1>4. CASE i \in Inputs /\ i \notin failing
  <2>1. q = Report(i, ~p.initialized, p.known[i], host[i])
    BY <1>4 DEF InputEvents
  <2>2. QED
    BY <1>4, <2>1, ReadDoes
<1>5. QED
  BY <1>2, <1>3, <1>4

(* The same for several inputs                                                 *)
Spans(N, q, p, n) ==
  /\ Proper(q)
  /\ \A g, x : Followed(g, x) /\ Home(g, x) \notin N => Silent(q, g, x)
  /\ \A g, x, v : Followed(g, x) /\ Home(g, x) \in N /\ Claimed(n, g, x, v) =>
       Sets(q, g, x, v) \/ (Silent(q, g, x) /\ Claimed(p, g, x, v))
  /\ \A s \in p.failed \cap N : \A k \in 1..Len(q) : q[k] # Failure(s)

LEMMA NoFailureIn ==
  ASSUME NEW q, NEW s \in Probes, Silent(q, "health", s)
  PROVE  \A k \in 1..Len(q) : q[k] # Failure(s)
<1>1. PICK e : e = Failure(s)
  OBVIOUS
<1>2. Writes(e, "health", s)
  BY <1>1 DEF Failure, Event, Writes
<1>3. \A k \in 1..Len(q) : q[k] # e
  BY <1>2, SMTT(20) DEF Silent
<1>4. QED
  BY <1>1, <1>3

LEMMA SpansOne ==
  ASSUME NEW i, NEW q, NEW p, NEW n, Does(i, q, p, n), NEW N, N = {i}
  PROVE  Spans(N, q, p, n)
<1>1. \A g, x : (Home(g, x) \notin N <=> Home(g, x) # i) /\ (Home(g, x) \in N <=> Home(g, x) = i)
  BY SMTT(20)
<1>2. \A s \in p.failed \cap N : \A k \in 1..Len(q) : q[k] # Failure(s)
  BY DEF Does
<1>3. QED
  BY <1>1, <1>2 DEF Does, Spans

LEMMA SpansMore ==
  ASSUME NEW N, NEW A, NEW p, NEW n, Spans(N, A, p, n), p.failed \subseteq Probes,
         NEW i, NEW B, Does(i, B, p, n), i \notin N, NEW C, C = A \o B, NEW M, M = N \cup {i}
  PROVE  Spans(M, C, p, n)
<1>1. Proper(A) /\ Proper(B)
  BY DEF Spans, Does
<1>2. Proper(C)
  BY Zenon, <1>1, ConcatFacts
<1>3. ASSUME NEW g, NEW x, Followed(g, x), Home(g, x) # i PROVE Silent(B, g, x)
  BY <1>3, SMTT(20) DEF Does
<1>4. ASSUME NEW g, NEW x, Followed(g, x), Home(g, x) \notin N PROVE Silent(A, g, x)
  BY <1>4 DEF Spans
<1>5. ASSUME NEW g, NEW x, Followed(g, x), Home(g, x) \notin M PROVE Silent(C, g, x)
  <2>1. Home(g, x) \notin N /\ Home(g, x) # i
    BY <1>5
  <2>2. Silent(A, g, x) /\ Silent(B, g, x)
    BY <1>3, <1>4, <1>5, <2>1, SMTT(20)
  <2>3. QED
    BY Zenon, <1>1, <2>2, SilentConcat
<1>6. ASSUME NEW g, NEW x, NEW v, Followed(g, x), Home(g, x) \in M, Claimed(n, g, x, v)
      PROVE  Sets(C, g, x, v) \/ (Silent(C, g, x) /\ Claimed(p, g, x, v))
  <2>1. CASE Home(g, x) \in N
    <3>1. Silent(B, g, x)
      BY <1>3, <1>6, <2>1, SMTT(20)
    <3>2. Sets(A, g, x, v) \/ (Silent(A, g, x) /\ Claimed(p, g, x, v))
      BY <1>6, <2>1 DEF Spans
    <3>3. CASE Sets(A, g, x, v)
      BY Zenon, <1>1, <3>1, <3>3, SetsFirst
    <3>4. CASE Silent(A, g, x) /\ Claimed(p, g, x, v)
      BY Zenon, <1>1, <3>1, <3>4, SilentConcat
    <3>5. QED
      BY <3>2, <3>3, <3>4, SMTT(20)
  <2>2. CASE Home(g, x) = i
    <3>1. Silent(A, g, x)
      BY <1>4, <1>6, <2>2, SMTT(20)
    <3>2. Sets(B, g, x, v) \/ (Silent(B, g, x) /\ Claimed(p, g, x, v))
      BY <1>6, <2>2 DEF Does
    <3>3. CASE Sets(B, g, x, v)
      BY Zenon, <1>1, <3>3, SetsLast
    <3>4. CASE Silent(B, g, x) /\ Claimed(p, g, x, v)
      BY Zenon, <1>1, <3>1, <3>4, SilentConcat
    <3>5. QED
      BY <3>2, <3>3, <3>4
  <2>3. QED
    BY <1>6, <2>1, <2>2, SMTT(20)
<1>7. ASSUME NEW s \in p.failed \cap M PROVE \A k \in 1..Len(C) : C[k] # Failure(s)
  <2>1. s \in Probes /\ Followed("health", s) /\ Home("health", s) = s
    BY DEF Followed, Groups, Home
  <2>2. \A k \in 1..Len(A) : A[k] # Failure(s)
    <3>1. CASE s \in N
      BY <3>1 DEF Spans
    <3>2. CASE s \notin N
      <4>1. Silent(A, "health", s)
        BY <1>4, <2>1, <3>2
      <4>2. QED
        BY <2>1, <4>1, NoFailureIn
    <3>3. QED
      BY <3>1, <3>2, SMTT(20)
  <2>3. \A k \in 1..Len(B) : B[k] # Failure(s)
    <3>1. CASE s = i
      BY <3>1 DEF Does
    <3>2. CASE s # i
      <4>1. Silent(B, "health", s)
        BY <1>3, <2>1, <3>2
      <4>2. QED
        BY <2>1, <4>1, NoFailureIn
    <3>3. QED
      BY <3>1, <3>2, SMTT(20)
  <2>4. ASSUME NEW k \in 1..Len(C) PROVE C[k] # Failure(s)
    <3>1. (\E m \in 1..Len(A) : C[k] = A[m]) \/ (\E m \in 1..Len(B) : C[k] = B[m])
      BY <1>1, ConcatEvery
    <3>2. QED
      BY <2>2, <2>3, <3>1
  <2>5. QED
    BY <2>4
<1>8. QED
  BY Zenon, <1>2, <1>5, <1>6, <1>7 DEF Spans

(* What a whole cycle does                                                     *)
LEMMA CycleDoes ==
  ASSUME NEW p, PollOK(p), HostOK, NEW failing \in SUBSET Fallible, NEW n, n = CycleState(p, failing),
         NEW E, E = CycleEvents(p, failing)
  PROVE  Spans(Probes \cup Files, E, p, n)
<1> DEFINE Of(i) == InputEvents(i, p, failing)
           A1 == Of("wifi")
           A2 == A1 \o Of("network")
           A3 == A2 \o Of("usb")
           A4 == A3 \o Of("mounts")
           A5 == A4 \o Of("processes")
           A6 == A5 \o Of("services")
           A7 == A6 \o Of("ports")
           A8 == A7 \o Of("sessions")
           A9 == A8 \o Of("power")
           A10 == A9 \o Of("configuration")
           A11 == A10 \o Of("binary")
           N1 == {"wifi"}
           N2 == N1 \cup {"network"}
           N3 == N2 \cup {"usb"}
           N4 == N3 \cup {"mounts"}
           N5 == N4 \cup {"processes"}
           N6 == N5 \cup {"services"}
           N7 == N6 \cup {"ports"}
           N8 == N7 \cup {"sessions"}
           N9 == N8 \cup {"power"}
           N10 == N9 \cup {"configuration"}
           N11 == N10 \cup {"binary"}
<1>1. E = A11
  BY DEF CycleEvents
<1>2. \A i \in Probes \cup Files : Does(i, Of(i), p, n)
  BY InputDoes
<1>3. p.failed \subseteq Probes
  BY InputNames DEF PollOK
<1>4. N11 = Probes \cup Files
  BY DEF Probes, Files
<1>5. /\ Does("wifi", Of("wifi"), p, n) /\ Does("network", Of("network"), p, n)
      /\ Does("usb", Of("usb"), p, n) /\ Does("mounts", Of("mounts"), p, n)
      /\ Does("processes", Of("processes"), p, n) /\ Does("services", Of("services"), p, n)
      /\ Does("ports", Of("ports"), p, n) /\ Does("sessions", Of("sessions"), p, n)
      /\ Does("power", Of("power"), p, n) /\ Does("configuration", Of("configuration"), p, n)
      /\ Does("binary", Of("binary"), p, n)
  <2> HIDE DEF Of
  <2>1. QED
    BY <1>2 DEF Probes, Files
<1>6. /\ "network" \notin N1 /\ "usb" \notin N2 /\ "mounts" \notin N3 /\ "processes" \notin N4
      /\ "services" \notin N5 /\ "ports" \notin N6 /\ "sessions" \notin N7 /\ "power" \notin N8
      /\ "configuration" \notin N9 /\ "binary" \notin N10
  OBVIOUS
<1> HIDE DEF Of
<1>11. Spans(N1, A1, p, n)
  BY <1>5, SpansOne
<1> HIDE DEF N1, A1
<1>12. Spans(N2, A2, p, n)
  BY Zenon, <1>3, <1>5, <1>6, <1>11, SpansMore
<1> HIDE DEF N2, A2
<1>13. Spans(N3, A3, p, n)
  BY Zenon, <1>3, <1>5, <1>6, <1>12, SpansMore
<1> HIDE DEF N3, A3
<1>14. Spans(N4, A4, p, n)
  BY Zenon, <1>3, <1>5, <1>6, <1>13, SpansMore
<1> HIDE DEF N4, A4
<1>15. Spans(N5, A5, p, n)
  BY Zenon, <1>3, <1>5, <1>6, <1>14, SpansMore
<1> HIDE DEF N5, A5
<1>16. Spans(N6, A6, p, n)
  BY Zenon, <1>3, <1>5, <1>6, <1>15, SpansMore
<1> HIDE DEF N6, A6
<1>17. Spans(N7, A7, p, n)
  BY Zenon, <1>3, <1>5, <1>6, <1>16, SpansMore
<1> HIDE DEF N7, A7
<1>18. Spans(N8, A8, p, n)
  BY Zenon, <1>3, <1>5, <1>6, <1>17, SpansMore
<1> HIDE DEF N8, A8
<1>19. Spans(N9, A9, p, n)
  BY Zenon, <1>3, <1>5, <1>6, <1>18, SpansMore
<1> HIDE DEF N9, A9
<1>20. Spans(N10, A10, p, n)
  BY Zenon, <1>3, <1>5, <1>6, <1>19, SpansMore
<1> HIDE DEF N10, A10
<1>21. Spans(N11, A11, p, n)
  BY Zenon, <1>3, <1>5, <1>6, <1>20, SpansMore
<1>22. QED
  BY Zenon, <1>1, <1>4, <1>21
-------------------------------------------------------------------------------
(* The channel and what the task still has to send, as one sequence            *)
LEMMA JoinEmpty ==
  ASSUME NEW q, Proper(q), NEW e, e = <<>>
  PROVE  q \o e = q /\ e \o q = q
<1>1. PICK S : q \in Seq(S)
  BY DEF Proper
<1>2. QED
  BY <1>1, JoinNothing

LEMMA JoinAppend ==
  ASSUME NEW q, Proper(q), NEW e, Good(e)
  PROVE  /\ Append(q, e) = q \o <<e>> /\ Proper(Append(q, e))
         /\ Len(q) \in Nat /\ Len(Append(q, e)) = Len(q) + 1
<1>1. PICK S : q \in Seq(S) /\ \A f \in S : Good(f)
  BY DEF Proper
<1>2. PICK T : T = S \cup {e}
  BY Zenon
<1>3. q \in Seq(T) /\ e \in T
  BY <1>1, <1>2, WiderSeq
<1>4. Append(q, e) = q \o <<e>>
  BY <1>3, AppendJoins
<1>5. Append(q, e) \in Seq(T) /\ Len(q) \in Nat /\ Len(Append(q, e)) = Len(q) + 1
  BY <1>3
<1>6. \A f \in T : Good(f)
  BY <1>1, <1>2
<1>7. Proper(Append(q, e))
  BY Zenon, <1>5, <1>6, ProperIf
<1>8. QED
  BY <1>4, <1>5, <1>7

LEMMA JoinMove ==
  ASSUME NEW q, NEW o, Proper(q), Proper(o), o # <<>>
  PROVE  Append(q, Head(o)) \o Tail(o) = q \o o
<1>1. PICK S : q \in Seq(S)
  BY DEF Proper
<1>2. PICK T : o \in Seq(T)
  BY DEF Proper
<1>3. PICK U : U = S \cup T
  BY Zenon
<1>4. q \in Seq(U) /\ o \in Seq(U)
  BY <1>1, <1>2, <1>3, WiderSeq
<1>5. PICK h, t : h = Head(o) /\ t = Tail(o)
  BY Zenon
<1>6. h \in U /\ t \in Seq(U) /\ <<h>> \in Seq(U)
  BY <1>4, <1>5
<1>7. <<h>> \o t = o
  BY <1>4, <1>5
<1>8. Append(q, h) = q \o <<h>>
  BY <1>4, <1>6, AppendJoins
<1>9. (q \o <<h>>) \o t = q \o (<<h>> \o t)
  BY <1>4, <1>6, JoinThree
<1>10. QED
  BY <1>5, <1>7, <1>8, <1>9

LEMMA JoinTail ==
  ASSUME NEW q, NEW o, Proper(q), Proper(o), q # <<>>
  PROVE  q \o o # <<>> /\ Head(q \o o) = Head(q) /\ Tail(q \o o) = Tail(q) \o o
<1>1. PICK S : q \in Seq(S)
  BY DEF Proper
<1>2. PICK T : o \in Seq(T)
  BY DEF Proper
<1>3. PICK U : U = S \cup T
  BY Zenon
<1>4. q \in Seq(U) /\ o \in Seq(U)
  BY <1>1, <1>2, <1>3, WiderSeq
<1>5. PICK h, t : h = Head(q) /\ t = Tail(q)
  BY Zenon
<1>6. h \in U /\ t \in Seq(U) /\ q = <<h>> \o t /\ <<h>> \in Seq(U)
  BY <1>4, <1>5
<1>7. PICK r : r = t \o o
  BY Zenon
<1>8. r \in Seq(U)
  BY <1>4, <1>6, <1>7
<1>9. q \o o = <<h>> \o r
  BY <1>4, <1>6, <1>7, JoinThree
<1>10. Head(<<h>> \o r) = h /\ Tail(<<h>> \o r) = r /\ <<h>> \o r # <<>>
  BY <1>6, <1>8
<1>11. QED
  BY <1>5, <1>7, <1>9, <1>10

LEMMA TripleFinite == \A a, b, c : IsFiniteSet({a, b, c})
<1> SUFFICES ASSUME NEW a, NEW b, NEW c PROVE IsFiniteSet({a, b, c})
  OBVIOUS
<1>1. PICK A, B, C : A = {a} /\ B = {b} /\ C = {c}
  BY Zenon
<1>2. IsFiniteSet(A) /\ IsFiniteSet(B) /\ IsFiniteSet(C)
  BY Zenon, <1>1, FS_Singleton
<1>3. PICK D : D = A \cup B
  BY Zenon
<1>4. IsFiniteSet(D)
  BY Zenon, <1>2, <1>3, FS_Union
<1>5. IsFiniteSet(D \cup C)
  BY Zenon, <1>2, <1>4, FS_Union
<1>6. D \cup C = {a, b, c}
  BY <1>1, <1>3
<1>7. QED
  BY <1>5, <1>6

LEMMA NamesFinite == \A failing \in SUBSET Fallible : Cardinality(failing) \in Nat
<1>1. IsFiniteSet({"wifi", "network", "usb"})
  BY Zenon, TripleFinite
<1>2. IsFiniteSet({"mounts", "processes", "services"})
  BY Zenon, TripleFinite
<1>3. IsFiniteSet({"ports", "sessions", "power"})
  BY Zenon, TripleFinite
<1>4. IsFiniteSet({"configuration", "binary"})
  <2>1. IsFiniteSet({"configuration", "binary", "binary"})
    BY Zenon, TripleFinite
  <2>2. QED
    BY <2>1
<1>5. PICK A, B, C, D : /\ A = {"wifi", "network", "usb"} /\ B = {"mounts", "processes", "services"}
                        /\ C = {"ports", "sessions", "power"} /\ D = {"configuration", "binary"}
  BY Zenon
<1>6. IsFiniteSet(A \cup B) /\ IsFiniteSet(C \cup D)
  BY Zenon, <1>1, <1>2, <1>3, <1>4, <1>5, FS_Union
<1>7. IsFiniteSet((A \cup B) \cup (C \cup D))
  BY Zenon, <1>6, FS_Union
<1>8. \A failing \in SUBSET Fallible : failing \subseteq (A \cup B) \cup (C \cup D)
  BY <1>5, InputNames DEF Probes, Files
<1>9. QED
  BY <1>7, <1>8, FS_Subset, FS_CardinalityType
-------------------------------------------------------------------------------
(* The inductive invariant.  Shape types the state.  Reported is the heart of  *)
(* it: applied to the snapshot, the events on their way give every cell the    *)
(* value that the poller has reported of it.                                   *)
Shape ==
  /\ HostOK /\ PollOK(poll) /\ poll.initialized \in BOOLEAN
  /\ phase \in {"tick", "cycle", "send"} /\ (phase = "send" <=> out # <<>>)
  /\ Len(queue) <= Buffer /\ alarms \subseteq Files
  /\ disturbances \in 0..MaxDisturbances
  /\ down \cap Fallible \subseteq poll.failed
  /\ IsSnapshot(snapshot) /\ snapshot.ports \subseteq RequiredPorts
  /\ Proper(queue) /\ Proper(out) /\ Proper(retired)
Reported ==
  gaps = {} => \A g, x, v : Claimed(poll, g, x, v) => Gives(queue \o out, snapshot, g, x, v)
PollInv == Shape /\ Reported

LEMMA DefaultFacts ==
  ASSUME NEW p, p = DefaultPollState
  PROVE  PollOK(p) /\ p.initialized = FALSE /\ p.failed = {}
<1>1. p.initialized = FALSE /\ p.failed = {} /\ \A i \in Inputs : p.known[i] = Unknown(i)
  BY DEF DefaultPollState
<1>2. QED
  BY <1>1 DEF PollOK

LEMMA DefaultClaims ==
  ASSUME NEW p, p = DefaultPollState, NEW g, NEW x, NEW v, Claimed(p, g, x, v)
  PROVE  g = "mounts" /\ v = 0
<1>1. p.initialized = FALSE /\ p.failed = {} /\ \A i \in Inputs : p.known[i] = Unknown(i)
  BY DEF DefaultPollState
<1>2. CASE g \in Singles \cap Inputs /\ v = p.known[g] /\ v # None
  <2>1. Unknown(g) = None
    BY <1>2 DEF Unknown, Singles
  <2>2. QED
    BY <1>1, <1>2, <2>1
<1>3. CASE g \in {"processes", "services"} \cap Inputs /\ x \in DOMAIN p.known[g]
  <2>1. Unknown(g) = <<>>
    BY <1>3 DEF Unknown
  <2>2. x \in DOMAIN <<>>
    BY <1>1, <1>3, <2>1
  <2>3. QED
    BY <2>2
<1>4. CASE g = "mounts" /\ g \in Inputs /\ v = Bit(x \in p.known["mounts"])
  <2>1. p.known["mounts"] = {}
    BY <1>1, <1>4 DEF Unknown
  <2>2. QED
    BY <1>4, <2>1 DEF Bit
<1>5. QED
  BY <1>1, <1>2, <1>3, <1>4 DEF Claimed

LEMMA FailureGood == \A s : Good(Failure(s))
<1> SUFFICES ASSUME NEW s PROVE Good(Failure(s))
  OBVIOUS
<1>1. PICK e : e = Failure(s)
  OBVIOUS
<1>2. e.kind.type = "sensor_failure"
  BY <1>1 DEF Failure, Event
<1>3. Good(e)
  BY <1>2 DEF Good, EventTypes
<1>4. QED
  BY <1>1, <1>3

LEMMA TickFacts ==
  ASSUME NEW e, e = Event("time", [type |-> "tick"])
  PROVE  Good(e) /\ \A g, x : Followed(g, x) => ~Writes(e, g, x)
<1>1. e.source = "time" /\ e.kind.type = "tick"
  BY DEF Event
<1>2. Good(e)
  BY <1>1 DEF Good, EventTypes
<1>3. \A g, x : Followed(g, x) => ~Writes(e, g, x)
  BY <1>1 DEF Followed, Writes, Probes, Groups
<1>4. QED
  BY <1>2, <1>3

LEMMA StartShape == Init => PollInv
<1> SUFFICES ASSUME Init PROVE PollInv
  OBVIOUS
<1>1. HostOK
  <2>1. PICK c : /\ c \in [Inputs -> UNION {{i} \X (IF i \in Files THEN {CHOOSE v \in Value[i] : TRUE} ELSE Value[i]) : i \in Inputs}]
                 /\ \A i \in Inputs : c[i][1] = i
                 /\ host = [i \in Inputs |-> c[i][2]]
    BY DEF Init, HostStates
  <2>2. ASSUME NEW i \in Inputs PROVE host[i] \in Value[i]
    <3>1. PICK j \in Inputs : c[i] \in {j} \X (IF j \in Files THEN {CHOOSE v \in Value[j] : TRUE} ELSE Value[j])
      BY <2>1
    <3>2. j = i /\ c[i][2] \in (IF i \in Files THEN {CHOOSE v \in Value[i] : TRUE} ELSE Value[i])
      BY <2>1, <3>1
    <3>3. (CHOOSE v \in Value[i] : TRUE) \in Value[i]
      BY ValueAssumption
    <3>4. QED
      BY <2>1, <3>2, <3>3
  <2>3. QED
    BY <2>2 DEF HostOK
<1>2. PollOK(poll) /\ poll.initialized = FALSE /\ poll.failed = {}
  BY Zenon, DefaultFacts DEF Init
<1>3. IsSnapshot(snapshot) /\ snapshot.ports = {} /\ snapshot.mounts = {}
  BY DEF Init, DefaultSnapshot, IsSnapshot
<1>4. Proper(queue) /\ Proper(out) /\ Proper(retired) /\ Len(queue) = 0
  BY EmptyFacts DEF Init
<1>5. Shape
  <2>1. phase = "tick" /\ out = <<>> /\ alarms = {} /\ down = {} /\ disturbances = 0
    BY DEF Init
  <2>2. disturbances \in 0..MaxDisturbances /\ Len(queue) <= Buffer
    BY <1>4, <2>1, BoundAssumption
  <2>3. QED
    BY Zenon, <1>1, <1>2, <1>3, <1>4, <2>1, <2>2 DEF Shape
<1>6. ASSUME NEW g, NEW x, NEW v, Claimed(poll, g, x, v) PROVE Gives(queue \o out, snapshot, g, x, v)
  <2>1. g = "mounts" /\ v = 0
    <3>1. poll = DefaultPollState
      BY DEF Init
    <3>2. PICK p : p = poll
      OBVIOUS
    <3>3. QED
      BY <1>6, <3>1, <3>2, DefaultClaims
  <2>2. CellOf(snapshot, g, x) = v
    BY <1>3, <2>1 DEF CellOf, Bit
  <2>3. queue \o out = <<>>
    BY <1>4, JoinEmpty DEF Init
  <2>4. QED
    BY <2>2, <2>3, EmptyFacts DEF Gives
<1>7. QED
  BY <1>5, <1>6 DEF PollInv, Reported

(* What is claimed depends on the poller's state and on whether it is the      *)
(* first one.                                                                  *)
LEMMA ClaimedNext ==
  ASSUME restarted' = restarted, NEW n, n = poll'
  PROVE  \A g, x, v : Claimed(poll, g, x, v)' <=> Claimed(n, g, x, v)
BY DEF Claimed

LEMMA FreshFacts ==
  ASSUME Fresh
  PROVE  /\ PollOK(poll)' /\ (poll.initialized \in BOOLEAN)' /\ (down \cap Fallible \subseteq poll.failed)'
         /\ \A g, x, v : ~Claimed(poll, g, x, v)'
<1>1. PICK p : p = DefaultPollState
  OBVIOUS
<1>2. poll' = p /\ restarted' = TRUE /\ down' = {}
  BY <1>1 DEF Fresh
<1>3. PollOK(p) /\ p.initialized = FALSE /\ p.failed = {}
  BY Zenon, <1>1, DefaultFacts
<1>4. PollOK(poll)'
  BY <1>2, <1>3 DEF PollOK
<1>5. ASSUME NEW g, NEW x, NEW v, Claimed(poll, g, x, v)' PROVE FALSE
  <2>1. CASE g = "mounts"
    BY <1>2, <1>5, <2>1 DEF Claimed, Singles
  <2>2. CASE g # "mounts"
    <3>1. Claimed(p, g, x, v)
      BY <1>2, <1>5, <2>2 DEF Claimed
    <3>2. QED
      BY <1>1, <2>2, <3>1, DefaultClaims
  <2>3. QED
    BY <2>1, <2>2
<1>6. QED
  BY Zenon, <1>2, <1>3, <1>4, <1>5

LEMMA DisturbFacts ==
  ASSUME NEW k \in Nat, Disturb(k), disturbances \in 0..MaxDisturbances
  PROVE  (disturbances \in 0..MaxDisturbances)'
BY BoundAssumption DEF Disturb

(* PollOK and HostOK read no variable that a step leaves alone.                *)
LEMMA SameState ==
  /\ host' = host /\ HostOK => HostOK'
  /\ poll' = poll /\ PollOK(poll) => PollOK(poll)'
BY DEF HostOK, PollOK

LEMMA ShapeTick == PollInv /\ Tick => Shape'
<1> SUFFICES ASSUME PollInv, Tick PROVE Shape'
  OBVIOUS
<1>1. PICK e : e = Event("time", [type |-> "tick"])
  OBVIOUS
<1>2. /\ phase = "tick" /\ Len(queue) < Buffer /\ queue' = Append(queue, e) /\ phase' = "cycle"
      /\ UNCHANGED <<host, poll, out, retired, snapshot, down, alarms, disturbances>>
  BY <1>1 DEF Tick, Room
<1>3. Good(e) /\ Proper(queue) /\ out = <<>>
  BY <1>1, <1>2, TickFacts DEF PollInv, Shape
<1>4. Proper(queue') /\ Len(queue) \in Nat /\ Len(queue') = Len(queue) + 1
  BY Zenon, <1>2, <1>3, JoinAppend
<1>5. Len(queue') <= Buffer
  BY <1>2, <1>4, BoundAssumption
<1>6. HostOK' /\ PollOK(poll)'
  BY <1>2, SameState DEF PollInv, Shape
<1>7. QED
  BY <1>2, <1>3, <1>4, <1>5, <1>6 DEF PollInv, Shape

LEMMA ShapeCycle == ASSUME PollInv, NEW failing \in SUBSET Fallible, Cycle(failing) PROVE Shape'
<1>1. PICK p, n, E : p = poll /\ n = poll' /\ E = out'
  BY SMTT(20)
<1>2. /\ phase = "cycle" /\ Disturb(Cardinality(failing))
      /\ E = CycleEvents(p, failing) /\ n = CycleState(p, failing)
      /\ phase' = PhaseAfter(E)
      /\ down' = {IF i \in Files THEN "integrity" ELSE i : i \in failing}
      /\ UNCHANGED <<host, retired, queue, snapshot, alarms>>
  BY <1>1 DEF Cycle
<1>3. PollOK(p) /\ HostOK /\ disturbances \in 0..MaxDisturbances
  BY <1>1 DEF PollInv, Shape
<1>4. (disturbances \in 0..MaxDisturbances)'
  <2>1. PICK k : k = Cardinality(failing)
    OBVIOUS
  <2>2. k \in Nat
    BY <2>1, NamesFinite
  <2>3. QED
    BY <1>2, <1>3, <2>1, <2>2, DisturbFacts
<1>5. Spans(Probes \cup Files, E, p, n)
  BY <1>2, <1>3, CycleDoes
<1>6. Proper(E)
  BY Zenon, <1>5 DEF Spans
<1>7. n.initialized = TRUE /\ n.failed = failing \ Files
  BY Zenon, <1>2 DEF CycleState
<1>8. PollOK(n)
  <2>1. \A i \in Inputs : (i \in failing => n.known[i] = p.known[i]) /\ (i \notin failing => n.known[i] = host[i])
    BY Zenon, <1>2 DEF CycleState
  <2>2. QED
    BY <1>3, <1>7, <2>1 DEF PollOK, HostOK
<1>9. PollOK(poll)' /\ HostOK'
  BY Zenon, <1>1, <1>2, <1>3, <1>8 DEF PollOK, HostOK
<1>10. "integrity" \notin Fallible
  BY InputNames DEF Probes, Files
<1>11. down' \cap Fallible \subseteq n.failed
  BY Zenon, <1>2, <1>7, <1>10
<1>12. phase' \in {"tick", "cycle", "send"} /\ (phase' = "send" <=> E # <<>>)
  BY <1>2, SMTT(20) DEF PhaseAfter
<1>13. QED
  BY Zenon, <1>1, <1>2, <1>4, <1>6, <1>7, <1>9, <1>11, <1>12 DEF PollInv, Shape

LEMMA ShapeLost == PollInv /\ CycleLost => Shape'
<1> SUFFICES ASSUME PollInv, CycleLost PROVE Shape'
  OBVIOUS
<1>1. PICK e : e = Failure("polling")
  OBVIOUS
<1>2. /\ Disturb(1) /\ out' = <<e>> /\ phase' = "send" /\ Fresh
      /\ UNCHANGED <<host, retired, queue, snapshot, alarms>>
  BY <1>1 DEF CycleLost
<1>3. Proper(out') /\ out' # <<>>
  BY <1>1, <1>2, FailureGood, OneFacts, SMTT(20)
<1>4. PollOK(poll)' /\ (poll.initialized \in BOOLEAN)' /\ (down \cap Fallible \subseteq poll.failed)'
  BY <1>2, FreshFacts
<1>5. (disturbances \in 0..MaxDisturbances)'
  BY <1>2, DisturbFacts DEF PollInv, Shape
<1>6. HostOK'
  BY <1>2, SameState DEF PollInv, Shape
<1>7. QED
  BY <1>2, <1>3, <1>4, <1>5, <1>6 DEF PollInv, Shape

LEMMA ShapeReload == PollInv /\ Reload => Shape'
<1> SUFFICES ASSUME PollInv, Reload PROVE Shape'
  OBVIOUS
<1>1. /\ Disturb(1) /\ retired' = out /\ out' = <<>> /\ phase' = "tick" /\ Fresh
      /\ UNCHANGED <<host, queue, snapshot, alarms>>
  BY DEF Reload
<1>2. Proper(out')
  BY <1>1, EmptyFacts
<1>3. PollOK(poll)' /\ (poll.initialized \in BOOLEAN)' /\ (down \cap Fallible \subseteq poll.failed)'
  BY <1>1, FreshFacts
<1>4. (disturbances \in 0..MaxDisturbances)'
  BY <1>1, DisturbFacts DEF PollInv, Shape
<1>5. HostOK'
  BY <1>1, SameState DEF PollInv, Shape
<1>6. QED
  BY <1>1, <1>2, <1>3, <1>4, <1>5 DEF PollInv, Shape

LEMMA ShapeSend == PollInv /\ Send => Shape'
<1> SUFFICES ASSUME PollInv, Send PROVE Shape'
  OBVIOUS
<1>1. /\ phase = "send" /\ Len(queue) < Buffer /\ queue' = Append(queue, Head(out))
      /\ out' = Tail(out) /\ phase' = PhaseAfter(out')
      /\ UNCHANGED <<host, poll, retired, snapshot, down, alarms, disturbances>>
  BY DEF Send, Room
<1>2. Proper(queue) /\ Proper(out) /\ out # <<>>
  BY <1>1 DEF PollInv, Shape
<1>3. Proper(out') /\ Good(Head(out))
  BY Zenon, <1>1, <1>2, TailFacts
<1>4. Proper(queue') /\ Len(queue) \in Nat /\ Len(queue') = Len(queue) + 1
  BY Zenon, <1>1, <1>2, <1>3, JoinAppend
<1>5. Len(queue') <= Buffer
  BY <1>1, <1>4, BoundAssumption
<1>6. HostOK' /\ PollOK(poll)'
  BY <1>1, SameState DEF PollInv, Shape
<1>7. phase' \in {"tick", "cycle", "send"} /\ (phase' = "send" <=> out' # <<>>)
  BY <1>1 DEF PhaseAfter
<1>8. QED
  BY <1>1, <1>3, <1>4, <1>5, <1>6, <1>7 DEF PollInv, Shape

LEMMA ShapeRetired == PollInv /\ (RetiredSend \/ RetiredEnd) => Shape'
<1> SUFFICES ASSUME PollInv, RetiredSend \/ RetiredEnd PROVE Shape'
  OBVIOUS
<1>1. UNCHANGED <<host, poll, phase, out, snapshot, down, alarms, disturbances>>
  BY DEF RetiredSend, RetiredEnd
<1>2. HostOK' /\ PollOK(poll)'
  BY <1>1, SameState DEF PollInv, Shape
<1>3. CASE RetiredEnd
  <2>1. queue' = queue /\ retired' = <<>>
    BY <1>3 DEF RetiredEnd
  <2>2. Proper(retired')
    BY <2>1, EmptyFacts
  <2>3. QED
    BY <1>1, <1>2, <2>1, <2>2 DEF PollInv, Shape
<1>4. CASE RetiredSend
  <2>1. /\ retired # <<>> /\ Len(queue) < Buffer /\ queue' = Append(queue, Head(retired))
        /\ retired' = Tail(retired)
    BY <1>4 DEF RetiredSend, Room
  <2>2. Proper(queue) /\ Proper(retired)
    BY DEF PollInv, Shape
  <2>3. Proper(retired') /\ Good(Head(retired))
    BY Zenon, <2>1, <2>2, TailFacts
  <2>4. Proper(queue') /\ Len(queue) \in Nat /\ Len(queue') = Len(queue) + 1
    BY Zenon, <2>1, <2>2, <2>3, JoinAppend
  <2>5. Len(queue') <= Buffer
    BY <2>1, <2>4, BoundAssumption, SMTT(20)
  <2>6. QED
    BY <1>1, <1>2, <2>3, <2>4, <2>5 DEF PollInv, Shape
<1>5. QED
  BY <1>3, <1>4

LEMMA ShapeReceive == PollInv /\ Receive => Shape'
<1> SUFFICES ASSUME PollInv, Receive PROVE Shape'
  OBVIOUS
<1>1. PICK e, t, s : e = Head(queue) /\ t = snapshot' /\ s = snapshot
  OBVIOUS
<1>2. /\ queue # <<>> /\ t = apply(s, e) /\ queue' = Tail(queue)
      /\ alarms' = alarms \cup (IF e.kind.type = "integrity" THEN {e.kind.component} ELSE {})
      /\ UNCHANGED <<host, poll, phase, out, retired, down, disturbances>>
  BY <1>1 DEF Receive
<1>3. Proper(queue) /\ IsSnapshot(s) /\ s.ports \subseteq RequiredPorts /\ alarms \subseteq Files /\ Len(queue) <= Buffer
  BY <1>1 DEF PollInv, Shape
<1>4. Proper(queue') /\ Good(e) /\ Len(queue) \in Nat /\ Len(queue') = Len(queue) - 1
  BY Zenon, <1>1, <1>2, <1>3, TailFacts
<1>5. Len(queue') <= Buffer
  BY <1>3, <1>4, BoundAssumption, SMTT(20)
<1>6. alarms' \subseteq Files
  BY <1>2, <1>3, <1>4 DEF Good
<1>7. FieldsAfter(s, e, t)
  BY <1>2, <1>3, <1>4, ApplyFields, SMTT(20) DEF Good
<1>8. IsSnapshot(t) /\ t.ports = IF e.kind.type = "port" THEN Toggle(s.ports, <<e.kind.protocol, e.kind.port>>, e.kind.open) ELSE s.ports
  BY <1>7 DEF FieldsAfter
<1>9. t.ports \subseteq RequiredPorts
  BY <1>3, <1>4, <1>8, SMTT(20) DEF Good, Toggle
<1>10. HostOK' /\ PollOK(poll)'
  BY <1>2, SameState DEF PollInv, Shape
<1>11. QED
  BY <1>1, <1>2, <1>4, <1>5, <1>6, <1>8, <1>9, <1>10 DEF PollInv, Shape

LEMMA ShapeDropped == PollInv /\ ReceiveFails => Shape'
<1> SUFFICES ASSUME PollInv, ReceiveFails PROVE Shape'
  OBVIOUS
<1>1. /\ queue # <<>> /\ queue' = Tail(queue) /\ Disturb(1)
      /\ UNCHANGED <<host, poll, phase, out, retired, snapshot, down, alarms>>
  BY DEF ReceiveFails
<1>2. (disturbances \in 0..MaxDisturbances)'
  BY <1>1, DisturbFacts DEF PollInv, Shape
<1>3. Proper(queue) /\ Len(queue) <= Buffer
  BY DEF PollInv, Shape
<1>4. Proper(queue') /\ Len(queue) \in Nat /\ Len(queue') = Len(queue) - 1
  BY Zenon, <1>1, <1>3, TailFacts
<1>5. Len(queue') <= Buffer
  BY <1>3, <1>4, BoundAssumption, SMTT(20)
<1>6. HostOK' /\ PollOK(poll)'
  BY <1>1, SameState, SMTT(20) DEF PollInv, Shape
<1>7. QED
  BY <1>1, <1>2, <1>4, <1>5, <1>6 DEF PollInv, Shape

LEMMA ShapeHost == ASSUME PollInv, NEW i \in Inputs, HostChanges(i) PROVE Shape'
<1>1. /\ Disturb(1) /\ \E v \in Value[i] : host' = [host EXCEPT ![i] = v]
      /\ UNCHANGED <<poll, phase, out, retired, queue, snapshot, down, alarms>>
  BY Zenon DEF HostChanges
<1>2. (disturbances \in 0..MaxDisturbances)'
  BY <1>1, DisturbFacts DEF PollInv, Shape
<1>3. \A j \in Inputs : host'[j] \in Value[j]
  <2>1. PICK v \in Value[i] : host' = [host EXCEPT ![i] = v]
    BY Zenon, <1>1
  <2>2. HostOK
    BY DEF PollInv, Shape
  <2>3. QED
    BY <2>1, <2>2 DEF HostOK
<1>4. HostOK' /\ PollOK(poll)'
  <2>1. PollOK(poll)'
    BY <1>1, SameState DEF PollInv, Shape
  <2>2. QED
    BY <1>3, <2>1 DEF HostOK
<1>5. QED
  BY <1>1, <1>2, <1>4 DEF PollInv, Shape

LEMMA ReportedTick == PollInv /\ Tick => Reported'
<1> SUFFICES ASSUME PollInv, Tick, gaps' = {}, NEW g, NEW x, NEW v, Claimed(poll, g, x, v)'
             PROVE  Gives(queue \o out, snapshot, g, x, v)'
  BY DEF Reported
<1>1. PICK e : e = Event("time", [type |-> "tick"])
  OBVIOUS
<1>2. /\ phase = "tick" /\ queue' = Append(queue, e)
      /\ UNCHANGED <<poll, out, snapshot, restarted, gaps>>
  BY <1>1 DEF Tick
<1>3. PollOK(poll) /\ Proper(queue) /\ out = <<>>
  BY <1>2 DEF PollInv, Shape
<1>4. Claimed(poll, g, x, v)
  BY <1>2, ClaimedNext
<1>5. Followed(g, x)
  BY <1>3, <1>4, ClaimedFollowed
<1>6. Gives(queue \o out, snapshot, g, x, v)
  BY <1>2, <1>4 DEF PollInv, Reported
<1>7. PICK A, B, C, s : A = queue /\ B = <<e>> /\ C = A \o B /\ s = snapshot
  BY Zenon
<1>8. Good(e) /\ ~Writes(e, g, x)
  BY <1>1, <1>5, TickFacts
<1>9. Proper(B) /\ Silent(B, g, x)
  BY <1>7, <1>8, OneFacts
<1>10. Proper(A) /\ Gives(A, s, g, x, v)
  BY <1>3, <1>6, <1>7, JoinEmpty
<1>11. Gives(C, s, g, x, v)
  BY Zenon, <1>7, <1>9, <1>10, GivesMore
<1>12. queue' = C /\ Proper(C)
  BY Zenon, <1>2, <1>3, <1>7, <1>8, JoinAppend
<1>13. queue' \o out' = C
  BY <1>2, <1>3, <1>12, JoinEmpty
<1>14. snapshot' = s
  BY <1>2, <1>7
<1>15. QED
  BY Zenon, <1>11, <1>13, <1>14 DEF Gives, CellOf

LEMMA ReportedCycle == ASSUME PollInv, NEW failing \in SUBSET Fallible, Cycle(failing) PROVE Reported'
<1> SUFFICES ASSUME gaps' = {}, NEW g, NEW x, NEW v, Claimed(poll, g, x, v)'
             PROVE  Gives(queue \o out, snapshot, g, x, v)'
  BY DEF Reported
<1>1. PICK p, n, E, A, C, s : /\ p = poll /\ n = poll' /\ E = out' /\ A = queue /\ s = snapshot
                              /\ C = A \o E
  BY Zenon
<1>2. /\ phase = "cycle" /\ E = CycleEvents(p, failing) /\ n = CycleState(p, failing)
      /\ UNCHANGED <<queue, snapshot, restarted, gaps>>
  BY <1>1 DEF Cycle
<1>3. PollOK(p) /\ HostOK /\ Proper(A) /\ out = <<>>
  BY Zenon, <1>1, <1>2 DEF PollInv, Shape
<1>4. Spans(Probes \cup Files, E, p, n)
  BY Zenon, <1>2, <1>3, CycleDoes
<1>5. Claimed(n, g, x, v)
  BY <1>1, <1>2, ClaimedNext, SMTT(20)
<1>6. PollOK(n)
  <2>1. Shape'
    BY ShapeCycle
  <2>2. QED
    BY <1>1, <2>1 DEF Shape, PollOK
<1>7. Followed(g, x)
  BY <1>5, <1>6, ClaimedFollowed
<1>8. Home(g, x) \in Probes \cup Files
  BY <1>7 DEF Followed, Home, Groups, Probes
<1>9. Proper(E) /\ (Sets(E, g, x, v) \/ (Silent(E, g, x) /\ Claimed(p, g, x, v)))
  BY Zenon, <1>4, <1>5, <1>7, <1>8 DEF Spans
<1>10. Claimed(p, g, x, v) => Gives(A, s, g, x, v)
  <2>1. Claimed(poll, g, x, v) => Gives(queue \o out, snapshot, g, x, v)
    BY <1>2 DEF PollInv, Reported
  <2>2. queue \o out = A
    BY <1>1, <1>3, JoinEmpty
  <2>3. QED
    BY <1>1, <2>1, <2>2
<1>11. Gives(C, s, g, x, v)
  BY Zenon, <1>1, <1>3, <1>9, <1>10, GivesMore
<1>12. queue' \o out' = C /\ snapshot' = s
  BY <1>1, <1>2, SMTT(20)
<1>13. QED
  BY Zenon, <1>11, <1>12 DEF Gives, CellOf

LEMMA ReportedFresh == Fresh => Reported'
BY FreshFacts DEF Reported

LEMMA ReportedSend == PollInv /\ Send => Reported'
<1> SUFFICES ASSUME PollInv, Send, gaps' = {}, NEW g, NEW x, NEW v, Claimed(poll, g, x, v)'
             PROVE  Gives(queue \o out, snapshot, g, x, v)'
  BY DEF Reported
<1>1. /\ phase = "send" /\ queue' = Append(queue, Head(out)) /\ out' = Tail(out)
      /\ UNCHANGED <<poll, snapshot, restarted, gaps>>
  BY DEF Send
<1>2. Proper(queue) /\ Proper(out) /\ out # <<>>
  BY Zenon, <1>1 DEF PollInv, Shape
<1>3. queue' \o out' = queue \o out
  BY <1>1, <1>2, JoinMove
<1>4. Claimed(poll, g, x, v)
  BY <1>1, ClaimedNext
<1>5. Gives(queue \o out, snapshot, g, x, v)
  BY <1>1, <1>4 DEF PollInv, Reported
<1>6. QED
  BY Zenon, <1>1, <1>3, <1>5 DEF Gives, CellOf

LEMMA ReportedReceive == PollInv /\ Receive => Reported'
<1> SUFFICES ASSUME PollInv, Receive, gaps' = {}, NEW g, NEW x, NEW v, Claimed(poll, g, x, v)'
             PROVE  Gives(queue \o out, snapshot, g, x, v)'
  BY DEF Reported
<1>1. /\ queue # <<>> /\ snapshot' = apply(snapshot, Head(queue)) /\ queue' = Tail(queue)
      /\ UNCHANGED <<poll, out, restarted, gaps>>
  BY DEF Receive
<1>2. PollOK(poll) /\ Proper(queue) /\ Proper(out) /\ IsSnapshot(snapshot)
  BY DEF PollInv, Shape
<1>3. Claimed(poll, g, x, v)
  BY <1>1, ClaimedNext
<1>4. Followed(g, x)
  BY <1>2, <1>3, ClaimedFollowed
<1>5. PICK q, t, s, r : q = queue \o out /\ t = Tail(q) /\ s = snapshot /\ r = apply(s, Head(q))
  BY Zenon
<1>6. Gives(q, s, g, x, v)
  BY <1>1, <1>3, <1>5 DEF PollInv, Reported
<1>7. q # <<>> /\ Head(q) = Head(queue) /\ t = Tail(queue) \o out
  BY <1>1, <1>2, <1>5, JoinTail
<1>8. Proper(q)
  BY Zenon, <1>2, <1>5, ConcatFacts
<1>9. Gives(t, r, g, x, v)
  BY Zenon, <1>2, <1>4, <1>5, <1>6, <1>7, <1>8, GivesApplied
<1>10. queue' \o out' = t /\ snapshot' = r
  BY <1>1, <1>5, <1>7
<1>11. QED
  BY Zenon, <1>9, <1>10 DEF Gives, CellOf

LEMMA ReportedSame ==
  PollInv /\ UNCHANGED <<poll, restarted, gaps, queue, out, snapshot>> => Reported'
<1> SUFFICES ASSUME PollInv, UNCHANGED <<poll, restarted, gaps, queue, out, snapshot>>, gaps' = {},
                    NEW g, NEW x, NEW v, Claimed(poll, g, x, v)'
             PROVE  Gives(queue \o out, snapshot, g, x, v)'
  BY DEF Reported
<1>1. Claimed(poll, g, x, v)
  BY ClaimedNext
<1>2. Gives(queue \o out, snapshot, g, x, v)
  BY <1>1 DEF PollInv, Reported
<1>3. QED
  BY Zenon, <1>2 DEF Gives, CellOf

LEMMA ShapeSame == PollInv /\ UNCHANGED vars => Shape'
<1> SUFFICES ASSUME PollInv, UNCHANGED vars PROVE Shape'
  OBVIOUS
<1>1. HostOK' /\ PollOK(poll)'
  BY SameState DEF PollInv, Shape, vars
<1>2. QED
  BY <1>1 DEF PollInv, Shape, vars

LEMMA PollInvNext == PollInv /\ [Next]_vars => PollInv'
<1> SUFFICES ASSUME PollInv, [Next]_vars PROVE PollInv'
  OBVIOUS
<1>1. CASE Tick
  BY <1>1, ShapeTick, ReportedTick DEF PollInv
<1>2. ASSUME NEW failing \in SUBSET Fallible, Cycle(failing) PROVE PollInv'
  <2>1. Shape'
    BY <1>2, ShapeCycle
  <2>2. Reported'
    BY <1>2, ReportedCycle
  <2>3. QED
    BY <2>1, <2>2 DEF PollInv
<1>3. CASE CycleLost
  <2>1. Fresh
    BY <1>3 DEF CycleLost
  <2>2. QED
    BY <1>3, <2>1, ShapeLost, ReportedFresh DEF PollInv
<1>4. CASE Send
  BY <1>4, ShapeSend, ReportedSend DEF PollInv
<1>5. CASE Receive
  BY <1>5, ShapeReceive, ReportedReceive DEF PollInv
<1>5a. CASE ReceiveFails
  <2>1. Reported'
    BY <1>5a DEF ReceiveFails, Reported
  <2>2. QED
    BY <1>5a, <2>1, ShapeDropped DEF PollInv
<1>6. CASE RetiredSend
  <2>1. Reported'
    BY <1>6, SMTT(20) DEF RetiredSend, Reported
  <2>2. QED
    BY <1>6, <2>1, ShapeRetired DEF PollInv
<1>7. CASE RetiredEnd
  <2>1. Reported'
    BY <1>7, ReportedSame DEF RetiredEnd
  <2>2. QED
    BY <1>7, <2>1, ShapeRetired DEF PollInv
<1>8. CASE Reload
  <2>1. Fresh
    BY <1>8 DEF Reload
  <2>2. QED
    BY <1>8, <2>1, ShapeReload, ReportedFresh DEF PollInv
<1>9. ASSUME NEW i \in Inputs, HostChanges(i) PROVE PollInv'
  <2>1. Shape'
    BY <1>9, ShapeHost
  <2>2. Reported'
    BY <1>9, ReportedSame DEF HostChanges
  <2>3. QED
    BY <2>1, <2>2 DEF PollInv
<1>10. CASE UNCHANGED vars
  <2>1. Reported'
    BY <1>10, ReportedSame DEF vars
  <2>2. QED
    BY <1>10, <2>1, ShapeSame DEF PollInv
<1>11. QED
  BY <1>1, <1>2, <1>3, <1>4, <1>5, <1>5a, <1>6, <1>7, <1>8, <1>9, <1>10, SMTT(20) DEF Next, Poller

(* Whatever the host and the probes do, the events of poll_cycle that are in   *)
(* the channel or still to be sent take the engine's snapshot to what the      *)
(* poller believes, until an aborted poller sends something late or the        *)
(* runtime drops an event.                                                     *)
THEOREM NothingUnreported == Spec => []PollInv
<1>1. Init => PollInv
  BY StartShape
<1>2. PollInv /\ [Next]_vars => PollInv'
  BY PollInvNext
<1>3. QED
  BY <1>1, <1>2, PTL DEF Spec
-------------------------------------------------------------------------------
(* What follows from it once everything is delivered                           *)
LEMMA ClaimsHold ==
  ASSUME PollInv, Delivered, NEW g, NEW x, NEW v, Claimed(poll, g, x, v)
  PROVE  CellOf(snapshot, g, x) = v
<1>1. queue = <<>> /\ out = <<>> /\ gaps = {}
  BY DEF PollInv, Shape, Delivered
<1>2. PICK q : q = queue \o out
  BY Zenon
<1>3. q = <<>>
  BY <1>1, <1>2, JoinEmpty, EmptyFacts
<1>4. Gives(q, snapshot, g, x, v)
  BY <1>1, <1>2 DEF PollInv, Reported
<1>5. ~Sets(q, g, x, v)
  <2>1. 1..Len(q) = {}
    BY <1>3
  <2>2. QED
    BY <2>1 DEF Sets
<1>6. QED
  BY <1>4, <1>5 DEF Gives

LEMMA SameHolds ==
  ASSUME PollInv, Delivered, NEW i \in Singles, NEW group, CellOf(snapshot, i, i) = group
  PROVE  Same(i, group, poll.known)
<1> SUFFICES ASSUME i \in Inputs, poll.known[i] # None PROVE poll.known[i] = group
  BY DEF Same
<1>1. PICK v : v = poll.known[i]
  OBVIOUS
<1>2. Claimed(poll, i, i, v)
  BY <1>1 DEF Claimed
<1>3. QED
  BY <1>1, <1>2, ClaimsHold

LEMMA SameNamesHold ==
  ASSUME PollInv, Delivered, NEW i \in {"processes", "services"}, NEW true,
         \A x : CellOf(snapshot, i, x) = Bit(x \in true)
  PROVE  SameNames(i, true, poll.known)
<1> SUFFICES ASSUME i \in Inputs, NEW x \in DOMAIN poll.known[i]
             PROVE  poll.known[i][x] = (x \in true)
  BY DEF SameNames
<1>1. PICK f, v : f = poll.known[i] /\ v = Bit(f[x])
  OBVIOUS
<1>2. f \in Value[i]
  <2>1. f \in Value[i] \cup {Unknown(i)}
    BY <1>1 DEF PollInv, Shape, PollOK
  <2>2. ASSUME f = Unknown(i) PROVE FALSE
    <3>1. f = <<>>
      BY Zenon, <2>2 DEF Unknown
    <3>2. x \in DOMAIN <<>>
      BY <1>1, <3>1
    <3>3. QED
      BY <3>2
  <2>3. QED
    BY <2>1, <2>2
<1>3. f[x] \in BOOLEAN
  BY <1>1, <1>2, ValueAssumption
<1>4. Claimed(poll, i, x, v)
  BY <1>1 DEF Claimed
<1>5. v = Bit(x \in true)
  BY <1>4, ClaimsHold
<1>6. f[x] <=> x \in true
  BY <1>1, <1>3, <1>5 DEF Bit
<1>7. QED
  BY <1>1, <1>3, <1>6

LEMMA PortsHold == PollInv /\ Delivered /\ "ports" \in Inputs => snapshot.ports = poll.known["ports"]
<1> SUFFICES ASSUME PollInv, Delivered, "ports" \in Inputs PROVE snapshot.ports = poll.known["ports"]
  OBVIOUS
<1>1. PICK S, K : S = snapshot.ports /\ K = poll.known["ports"]
  OBVIOUS
<1>2. S \subseteq RequiredPorts /\ poll.initialized
  BY <1>1 DEF PollInv, Shape, Delivered
<1>3. K \subseteq RequiredPorts
  <2>1. K \in Value["ports"] \cup {Unknown("ports")} /\ Unknown("ports") = {}
    BY <1>1 DEF PollInv, Shape, PollOK, Unknown
  <2>2. QED
    BY <2>1, ValueAssumption
<1>4. ASSUME NEW x \in RequiredPorts PROVE x \in S <=> x \in K
  <2>1. PICK v : v = Bit(x \in K)
    OBVIOUS
  <2>2. Claimed(poll, "ports", x, v)
    BY <1>1, <1>2, <2>1 DEF Claimed
  <2>3. CellOf(snapshot, "ports", x) = v
    BY <2>2, ClaimsHold
  <2>4. CellOf(snapshot, "ports", x) = Bit(x \in S)
    BY <1>1 DEF CellOf
  <2>5. QED
    BY <2>1, <2>3, <2>4 DEF Bit
<1>5. QED
  BY <1>1, <1>2, <1>3, <1>4

LEMMA MountsHold == PollInv /\ Delivered /\ ~restarted => MirrorsMounts(snapshot, poll.known)
<1> SUFFICES ASSUME PollInv, Delivered, ~restarted, "mounts" \in Inputs
             PROVE  snapshot.mounts = poll.known["mounts"]
  BY DEF MirrorsMounts
<1>1. PICK S, K : S = snapshot.mounts /\ K = poll.known["mounts"]
  OBVIOUS
<1>2. ASSUME NEW x PROVE x \in S <=> x \in K
  <2>1. PICK v : v = Bit(x \in K)
    OBVIOUS
  <2>2. Claimed(poll, "mounts", x, v)
    BY <1>1, <2>1 DEF Claimed
  <2>3. CellOf(snapshot, "mounts", x) = v
    BY <2>2, ClaimsHold
  <2>4. CellOf(snapshot, "mounts", x) = Bit(x \in S)
    BY <1>1 DEF CellOf
  <2>5. QED
    BY <2>1, <2>3, <2>4 DEF Bit
<1>3. S = K
  BY <1>2, SMTT(20)
<1>4. QED
  BY <1>1, <1>3

LEMMA MirrorsHold == PollInv => SnapshotMirrors
<1> SUFFICES ASSUME PollInv, Delivered PROVE Mirrors(snapshot, poll.known)
  BY DEF SnapshotMirrors
<1>1. Same("wifi", snapshot.wifi, poll.known)
  BY SameHolds DEF CellOf, Singles
<1>2. Same("network", snapshot.network, poll.known)
  BY SameHolds DEF CellOf, Singles
<1>3. Same("power", snapshot.power, poll.known)
  BY SameHolds DEF CellOf, Singles
<1>4. Same("sessions", snapshot.session, poll.known)
  BY SameHolds DEF CellOf, Singles
<1>5. SameNames("processes", snapshot.processes, poll.known)
  <2>1. \A x : CellOf(snapshot, "processes", x) = Bit(x \in snapshot.processes)
    BY DEF CellOf
  <2>2. QED
    BY <2>1, SameNamesHold
<1>6. SameNames("services", snapshot.services, poll.known)
  <2>1. \A x : CellOf(snapshot, "services", x) = Bit(x \in snapshot.services)
    BY DEF CellOf
  <2>2. QED
    BY <2>1, SameNamesHold
<1>7. "ports" \in Inputs => snapshot.ports = poll.known["ports"]
  BY PortsHold
<1>8. restarted \/ MirrorsMounts(snapshot, poll.known)
  BY MountsHold
<1>9. QED
  BY <1>1, <1>2, <1>3, <1>4, <1>5, <1>6, <1>7, <1>8 DEF Mirrors

LEMMA FailuresHold == PollInv => FailuresShow
<1> SUFFICES ASSUME PollInv, Delivered, NEW s, s \in down, s \in Fallible, s \in snapshot.sensor_health
             PROVE  FALSE
  BY DEF FailuresShow
<1>1. s \in poll.failed
  BY DEF PollInv, Shape
<1>2. Claimed(poll, "health", s, 0)
  BY <1>1 DEF Claimed
<1>3. CellOf(snapshot, "health", s) = 0
  BY <1>2, ClaimsHold
<1>4. CellOf(snapshot, "health", s) = Bit(s \in snapshot.sensor_health)
  BY DEF CellOf
<1>5. QED
  BY <1>3, <1>4 DEF Bit

(* poll_cycle and the channel keep PollState and the queue within their types  *)
(* and capacity.                                                               *)
THEOREM TypeCorrect == Spec => []TypeOK
<1>1. PollInv => TypeOK
  BY DEF PollInv, Shape, TypeOK, HostOK, PollOK
<1>2. QED
  BY <1>1, NothingUnreported, PTL

(* poll_cycle reports only differences; whatever the probes return and however *)
(* often they fail, once the events are delivered and none was dropped, the    *)
(* engine's snapshot is what the poller last read.                             *)
THEOREM DifferencesSuffice == Spec => []SnapshotMirrors
BY MirrorsHold, NothingUnreported, PTL

(* A probe that failed in the last cycle is unhealthy in the delivered         *)
(* snapshot, although probe_value reports only the first of several failures.  *)
THEOREM FailureStaysVisible == Spec => []FailuresShow
BY FailuresHold, NothingUnreported, PTL

LEMMA OnceStep == PollInv /\ [Next]_vars => [ReportsOnce(Fallible)]_vars
<1> SUFFICES ASSUME PollInv, Next, phase = "cycle", NEW s, s \in down, s \in Fallible,
                    NEW o, o = out', NEW k \in DOMAIN o, o[k] = Failure(s)
             PROVE  FALSE
  BY DEF ReportsOnce, Range
<1>1. s \in poll.failed /\ out = <<>>
  BY DEF PollInv, Shape
<1>2. ASSUME NEW failing \in SUBSET Fallible, Cycle(failing) PROVE FALSE
  <2>1. PICK p, n : p = poll /\ n = CycleState(p, failing)
    BY SMTT(20)
  <2>2. o = CycleEvents(p, failing)
    BY <1>2, <2>1, SMTT(20) DEF Cycle
  <2>3. PollOK(p) /\ HostOK
    BY <2>1 DEF PollInv, Shape
  <2>4. Spans(Probes \cup Files, o, p, n)
    BY <2>1, <2>2, <2>3, CycleDoes
  <2>5. s \in Probes \cup Files
    BY InputNames
  <2>6. DOMAIN o = 1..Len(o)
    <3>1. PICK S : o \in Seq(S)
      BY Zenon, <2>4 DEF Spans, Proper
    <3>2. QED
      BY <3>1
  <2>7. s \in p.failed \cap (Probes \cup Files)
    BY <1>1, <2>1, <2>5, SMTT(20)
  <2>8. \A j \in 1..Len(o) : o[j] # Failure(s)
    BY <2>4, <2>7 DEF Spans
  <2>9. QED
    BY <2>6, <2>8
<1>3. CASE CycleLost
  <2>1. o = <<Failure("polling")>>
    BY <1>3 DEF CycleLost
  <2>2. DOMAIN o = 1..1 /\ o[1] = Failure("polling")
    BY <2>1
  <2>3. Failure(s) = Failure("polling")
    BY <2>2
  <2>4. s = "polling"
    BY <2>3 DEF Failure, Event
  <2>5. QED
    BY <2>4, InputNames DEF Probes, Files
<1>4. CASE o = <<>>
  BY <1>4, SMTT(20)
<1>5. \/ Tick \/ Receive \/ ReceiveFails \/ RetiredSend \/ RetiredEnd \/ Reload
      \/ (\E i \in Inputs : HostChanges(i))
      => o = <<>>
  BY <1>1 DEF Tick, Receive, ReceiveFails, RetiredSend, RetiredEnd, Reload, HostChanges
<1>6. ~Send
  BY DEF Send
<1>7. QED
  BY <1>2, <1>3, <1>4, <1>5, <1>6, SMTT(20) DEF Next, Poller

(* A cycle reports the failure of a probe only if the probe worked in the      *)
(* cycle before: probe_value looks at PollState::failed.                       *)
THEOREM FailureReportedOnce == Spec => ProbeFailureOnce
<1>1. PollInv /\ [Next]_vars => [ReportsOnce(Fallible)]_vars
  BY OnceStep
<1>2. QED
  BY <1>1, NothingUnreported, PTL DEF Spec, ProbeFailureOnce
===============================================================================
