------------------------- MODULE ActionExecutorProofs -------------------------
(* Proofs about ActionExecutor, for all jobs, limits and numbers of processes, *)
(* and about what validate_config is worth to it.                              *)
EXTENDS ActionExecutor, ActionValidation, FiniteSetTheorems, TLAPS

Commanding == {"spawn", "stdin", "wait", "join"}

(* What a stage says of the action.                                            *)
StageFits ==
  /\ stage \in Commanding => Runs /\ step <= Len(Program(action, context))
  /\ stage = "scan" => action.type = "terminate_process"
  /\ stage = "internal" => Internal(action, context) /\ action.type # "terminate_process"

(* What one stream says: what was written was read or is in the pipe, and a    *)
(* reader is done at its limit or at the end of the output.                    *)
StreamFits(x) ==
  /\ read[x] \in 0..(OutputLimit + 1) /\ pipe[x] \in 0..PipeCapacity /\ written[x] \in Nat
  /\ read[x] + pipe[x] = written[x]
  /\ reader[x] \in {"none", "reading", "done", "failed"}
  /\ reader[x] = "reading" => read[x] <= OutputLimit
  /\ reader[x] = "none" => read[x] = 0
  /\ reader[x] = "done" =>
       read[x] = OutputLimit + 1 \/ (pipe[x] = 0 /\ child = "exited" /\ ~lingering)
  /\ stage = "stdin" => reader[x] = "none"
  /\ stage \in {"wait", "join"} => reader[x] # "none"

Streams ==
  /\ pipe \in [Stream -> Nat] /\ read \in [Stream -> Nat] /\ written \in [Stream -> Nat]
  /\ reader \in [Stream -> {"none", "reading", "done", "failed"}]
  /\ lingering \in BOOLEAN
  /\ \A x \in Stream : StreamFits(x)

(* The commands before this one succeeded.                                     *)
ChildFits ==
  /\ child \in {"none", "running", "exited"} /\ status \in {"none", "success", "failure"}
  /\ child = "running" => status = "none" /\ stage \in {"stdin", "wait"}
  /\ stage \in {"stdin", "wait"} => child # "none"
  /\ stage = "join" => child = "exited"
  /\ exits \in Seq({"success", "failure"})
  /\ stage = "spawn" => exits \in Seq({"success"}) /\ Len(exits) = step - 1
  /\ stage \in {"stdin", "wait"} /\ child = "running" =>
       exits \in Seq({"success"}) /\ Len(exits) = step - 1
  /\ stage \in {"stdin", "wait", "join"} /\ child = "exited" /\ status = "success" =>
       exits \in Seq({"success"}) /\ Len(exits) = step

(* The processes up to the cursor that had the name are signalled.             *)
WalkFits ==
  /\ host \in [Process -> {"named", "other", "gone"}]
  /\ cursor \in 0..Processes /\ aim \in {0, cursor}
  /\ since \subseteq Process /\ signalled \subseteq 1..cursor /\ aim \notin signalled
  /\ count = Cardinality(signalled)
  /\ stage = "scan" => /\ \A q \in since : host[q] = "named"
                       /\ \A q \in since : q <= cursor => q \in signalled \/ q = aim

ResultFits == SuccessHonest /\ OutputHonest /\ TerminateComplete

IInv ==
  /\ job \in Job /\ step \in 1..3
  /\ stage \in Commanding \cup {"idle", "scan", "internal"}
  /\ StageFits /\ Streams /\ ChildFits /\ WalkFits /\ ResultFits

(* The prefix of one and the program of the other actions.                     *)
LEMMA ProgramLength == ASSUME NEW a, NEW c PROVE Len(Program(a, c)) \in {1, 3}
<1>1. ASSUME NEW v PROVE Len(lock_vault(v)) = 1
  BY DEF lock_vault
<1>2. ASSUME NEW v PROVE Len(unlock_vault(v)) = 3
  <2>1. ASSUME NEW r, NEW s, NEW t PROVE Len(<<r, s>> \o <<t>>) = 3
    OBVIOUS
  <2>2. QED
    BY <2>1 DEF unlock_vault, read_keyring
<1>3. QED
  BY <1>1, <1>2 DEF Program

LEMMA StartsRight == Init => IInv
<1> SUFFICES ASSUME Init PROVE IInv
  OBVIOUS
<1> USE ExecutorAssumption DEF Init, Commanding
<1>1. StageFits
  BY DEF StageFits
<1>2. Streams
  <2>1. lingering \in BOOLEAN
    OBVIOUS
  <2>2. ASSUME NEW x \in Stream PROVE StreamFits(x)
    <3>1. read[x] = 0 /\ pipe[x] = 0 /\ written[x] = 0 /\ reader[x] = "none"
      OBVIOUS
    <3>2. QED
      BY <3>1 DEF StreamFits
  <2>3. QED
    BY <2>1, <2>2 DEF Streams
<1>3. ChildFits
  BY DEF ChildFits
<1>4. WalkFits
  BY FS_EmptySet DEF WalkFits
<1>5. ResultFits
  BY DEF ResultFits, SuccessHonest, OutputHonest, TerminateComplete, Outcome, Error
<1>6. QED
  BY <1>1, <1>2, <1>3, <1>4, <1>5 DEF IInv

-------------------------------------------------------------------------------
(* Only an outcome that is returned has to be looked at.                       *)
LEMMA NoOutcome ==
  ASSUME stage' # "idle" \/ (\E kind \in {"none", "refused", "failed"} : result' = Error(kind))
  PROVE  ResultFits'
<1>1. ~Outcome'
  BY DEF Outcome, Error
<1>2. QED
  BY <1>1 DEF ResultFits, SuccessHonest, OutputHonest, TerminateComplete

LEMMA DryRunFits == ASSUME result' = DryRun PROVE ResultFits'
<1>1. ~Outcome'
  BY DEF Outcome, DryRun, ActionOutcome, Error
<1>2. QED
  BY <1>1 DEF ResultFits, SuccessHonest, OutputHonest, TerminateComplete

(* The parts of the invariant that a step leaves alone.                        *)
LEMMA StreamsStay ==
  ASSUME IInv, UNCHANGED <<pipe, read, reader, written, lingering, child>>,
         stage' \in {"wait", "join"} => stage \in {"wait", "join"},
         stage' = "stdin" => stage = "stdin"
  PROVE  Streams'
<1>1. \A x \in Stream : StreamFits(x) => StreamFits(x)'
  BY DEF StreamFits
<1>2. Streams
  BY DEF IInv
<1>3. lingering' \in BOOLEAN
  BY <1>2 DEF Streams
<1>4. QED
  BY <1>1, <1>2, <1>3 DEF Streams

LEMMA WalkStays ==
  ASSUME IInv, UNCHANGED walk, UNCHANGED host, stage' = "scan" => stage = "scan"
  PROVE  WalkFits'
BY DEF IInv, WalkFits, walk

LEMMA StageStays ==
  ASSUME IInv, UNCHANGED <<job, step>>,
         stage' \in Commanding => stage \in Commanding,
         stage' = "scan" => stage = "scan", stage' = "internal" => stage = "internal"
  PROVE  StageFits'
BY DEF IInv, StageFits, Runs, action, context

-------------------------------------------------------------------------------
(* The steps of the command's environment and of the readers                   *)
LEMMA ChildWritesStep == ASSUME IInv, NEW y \in Stream, ChildWrites(y) PROVE IInv'
<1> USE DEF Commanding
<1>1. /\ UNCHANGED <<job, stage, step, result, child, status, lingering, read, reader, exits>>
      /\ UNCHANGED walk /\ UNCHANGED host /\ stage # "idle"
      /\ pipe' = [pipe EXCEPT ![y] = @ + 1] /\ written' = [written EXCEPT ![y] = @ + 1]
      /\ pipe[y] < PipeCapacity /\ reader[y] \in {"none", "reading"}
  BY DEF ChildWrites, call, Attended
<1>2. Streams
  BY DEF IInv
<1>3. Streams'
  <2>1. ASSUME NEW x \in Stream PROVE StreamFits(x)'
    <3>1. StreamFits(x) /\ pipe[x] \in Nat /\ written[x] \in Nat
      BY <1>2 DEF Streams
    <3>2. CASE x = y
      <4>1. pipe'[x] = pipe[x] + 1 /\ written'[x] = written[x] + 1
        BY <1>1, <1>2, <3>2 DEF Streams
      <4>2. QED
        BY <1>1, <3>1, <3>2, <4>1, ExecutorAssumption DEF StreamFits
    <3>3. CASE x # y
      <4>1. pipe'[x] = pipe[x] /\ written'[x] = written[x]
        BY <1>1, <1>2, <3>3 DEF Streams
      <4>2. QED
        BY <1>1, <3>1, <4>1 DEF StreamFits
    <3>4. QED
      BY <3>2, <3>3
  <2>2. pipe' \in [Stream -> Nat] /\ written' \in [Stream -> Nat]
    BY <1>1, <1>2 DEF Streams
  <2>3. lingering' \in BOOLEAN /\ read' = read /\ reader' = reader
    BY <1>1, <1>2 DEF Streams
  <2>4. QED
    BY <1>2, <2>1, <2>2, <2>3 DEF Streams
<1>4. StageFits' /\ WalkFits' /\ ResultFits'
  BY <1>1, StageStays, WalkStays, NoOutcome
<1>5. ChildFits'
  BY <1>1 DEF IInv, ChildFits
<1>6. QED
  BY <1>1, <1>3, <1>4, <1>5 DEF IInv

(* The child ends, by itself or killed: only then output may stay open.        *)
LEMMA ChildEnds ==
  ASSUME Streams, child = "running", child' = "exited", lingering' \in BOOLEAN,
         UNCHANGED <<pipe, read, reader, written>>,
         stage' \in {"stdin", "wait", "join"} => stage' = stage
  PROVE  Streams'
<1>1. ASSUME NEW x \in Stream PROVE StreamFits(x)'
  <2>1. StreamFits(x)
    BY DEF Streams
  <2>2. reader[x] = "done" => read[x] = OutputLimit + 1
    BY <2>1 DEF StreamFits
  <2>3. QED
    BY <2>1, <2>2 DEF StreamFits
<1>2. QED
  BY <1>1 DEF Streams

LEMMA ChildExitsStep == ASSUME IInv, ChildExits PROVE IInv'
<1> USE DEF Commanding
<1>1. /\ UNCHANGED <<job, stage, step, result, pipe, read, reader, written>>
      /\ UNCHANGED walk /\ UNCHANGED host /\ stage # "idle"
      /\ child = "running" /\ child' = "exited" /\ lingering' \in BOOLEAN
      /\ status' \in {"success", "failure"} /\ exits' = Append(exits, status')
  BY DEF ChildExits, call, Attended
<1>2. Streams'
  BY <1>1, ChildEnds DEF IInv
<1>3. StageFits' /\ WalkFits' /\ ResultFits'
  BY <1>1, StageStays, WalkStays, NoOutcome
<1>4. ChildFits'
  <2>1. ChildFits /\ step \in 1..3 /\ stage \in {"stdin", "wait"}
    BY <1>1 DEF IInv, ChildFits
  <2>2. exits \in Seq({"success"}) /\ Len(exits) = step - 1
    BY <1>1, <2>1 DEF ChildFits
  <2>3. exits' \in Seq({"success", "failure"})
    BY <1>1, <2>1 DEF ChildFits
  <2>4. status' = "success" => exits' \in Seq({"success"}) /\ Len(exits') = step'
    BY <1>1, <2>1, <2>2
  <2>5. QED
    BY <1>1, <2>1, <2>3, <2>4 DEF ChildFits
<1>5. QED
  BY <1>1, <1>2, <1>3, <1>4 DEF IInv

LEMMA DescendantEndsStep == ASSUME IInv, DescendantEnds PROVE IInv'
<1> USE DEF Commanding
<1>1. /\ UNCHANGED <<job, stage, step, result, child, status, pipe, read, reader, written, exits>>
      /\ UNCHANGED walk /\ UNCHANGED host /\ stage # "idle" /\ lingering' = FALSE /\ lingering
  BY DEF DescendantEnds, call, Attended
<1>2. Streams'
  <2>1. Streams /\ lingering' \in BOOLEAN
    BY <1>1 DEF IInv
  <2>2. ASSUME NEW x \in Stream PROVE StreamFits(x)'
    BY <1>1, <2>1 DEF Streams, StreamFits
  <2>3. QED
    BY <1>1, <2>1, <2>2 DEF Streams
<1>3. StageFits' /\ WalkFits' /\ ResultFits'
  BY <1>1, StageStays, WalkStays, NoOutcome
<1>4. ChildFits'
  BY <1>1 DEF IInv, ChildFits
<1>5. QED
  BY <1>1, <1>2, <1>3, <1>4 DEF IInv

LEMMA ReadStep == ASSUME IInv, NEW y \in Stream, Read(y) PROVE IInv'
<1> USE DEF Commanding
<1>1. /\ UNCHANGED <<job, stage, step, result, child, status, lingering, written, exits>>
      /\ UNCHANGED walk /\ UNCHANGED host /\ stage # "idle"
      /\ reader[y] = "reading" /\ pipe[y] > 0
      /\ pipe' = [pipe EXCEPT ![y] = @ - 1] /\ read' = [read EXCEPT ![y] = @ + 1]
      /\ reader' = [reader EXCEPT ![y] = IF read'[y] = OutputLimit + 1 THEN "done" ELSE @]
  BY DEF Read, call, Attended
<1>2. Streams
  BY DEF IInv
<1>3. Streams'
  <2>1. pipe' \in [Stream -> Nat] /\ read' \in [Stream -> Nat]
    <3>1. pipe[y] \in Nat /\ pipe[y] - 1 \in Nat /\ read[y] + 1 \in Nat
      BY <1>1, <1>2 DEF Streams
    <3>2. QED
      BY <1>1, <1>2, <3>1 DEF Streams
  <2>2. reader' \in [Stream -> {"none", "reading", "done", "failed"}]
    BY <1>1, <1>2 DEF Streams
  <2>3. ASSUME NEW x \in Stream PROVE StreamFits(x)'
    <3>1. StreamFits(x)
      BY <1>2 DEF Streams
    <3>2. CASE x = y
      <4>1. pipe'[x] = pipe[x] - 1 /\ read'[x] = read[x] + 1
        BY <1>1, <1>2, <3>2 DEF Streams
      <4>2. reader'[x] = IF read[x] + 1 = OutputLimit + 1 THEN "done" ELSE "reading"
        BY <1>1, <1>2, <3>2, <4>1 DEF Streams
      <4>3. QED
        BY <1>1, <3>1, <3>2, <4>1, <4>2, ExecutorAssumption DEF StreamFits
    <3>3. CASE x # y
      <4>1. pipe'[x] = pipe[x] /\ read'[x] = read[x] /\ reader'[x] = reader[x]
        BY <1>1, <1>2, <3>3 DEF Streams
      <4>2. QED
        BY <1>1, <3>1, <4>1 DEF StreamFits
    <3>4. QED
      BY <3>2, <3>3
  <2>4. lingering' \in BOOLEAN /\ written' = written
    BY <1>1, <1>2 DEF Streams
  <2>5. QED
    BY <1>2, <2>1, <2>2, <2>3, <2>4 DEF Streams
<1>4. StageFits' /\ WalkFits' /\ ResultFits'
  BY <1>1, StageStays, WalkStays, NoOutcome
<1>5. ChildFits'
  BY <1>1 DEF IInv, ChildFits
<1>6. QED
  BY <1>1, <1>3, <1>4, <1>5 DEF IInv

LEMMA ReadEndsStep ==
  ASSUME IInv, NEW y \in Stream, ReadEnds(y) \/ ReadFails(y) PROVE IInv'
<1> USE DEF Commanding
<1>1. /\ UNCHANGED <<job, stage, step, result, child, status, lingering, pipe, read, written, exits>>
      /\ UNCHANGED walk /\ UNCHANGED host /\ stage # "idle"
      /\ reader[y] = "reading"
  BY DEF ReadEnds, ReadFails, call, Attended
<1>2. PICK r \in {"done", "failed"} :
        /\ reader' = [reader EXCEPT ![y] = r]
        /\ r = "done" => pipe[y] = 0 /\ child = "exited" /\ ~lingering
  BY DEF ReadEnds, ReadFails
<1>3. Streams
  BY DEF IInv
<1>4. Streams'
  <2>1. reader' \in [Stream -> {"none", "reading", "done", "failed"}]
    BY <1>2, <1>3 DEF Streams
  <2>2. ASSUME NEW x \in Stream PROVE StreamFits(x)'
    <3>1. StreamFits(x)
      BY <1>3 DEF Streams
    <3>2. reader'[x] = IF x = y THEN r ELSE reader[x]
      BY <1>2, <1>3 DEF Streams
    <3>3. QED
      BY <1>1, <1>2, <3>1, <3>2 DEF StreamFits
  <2>3. lingering' \in BOOLEAN
    BY <1>1, <1>3 DEF Streams
  <2>4. QED
    BY <1>1, <1>3, <2>1, <2>2, <2>3 DEF Streams
<1>5. StageFits' /\ WalkFits' /\ ResultFits'
  BY <1>1, StageStays, WalkStays, NoOutcome
<1>6. ChildFits'
  BY <1>1 DEF IInv, ChildFits
<1>7. QED
  BY <1>1, <1>4, <1>5, <1>6 DEF IInv

-------------------------------------------------------------------------------
(* The task of the action: commands                                            *)
LEMMA ExecuteStep == ASSUME IInv, NEW j \in Job, execute(j) PROVE IInv'
<1> USE DEF Commanding
<1>1. /\ job' = j /\ step' = 1 /\ exits' = <<>> /\ NoChild /\ UNCHANGED host
      /\ cursor' = 0 /\ aim' = 0 /\ count' = 0 /\ signalled' = {} /\ since' = Named
  BY DEF execute
<1>2. \/ stage' = "idle" /\ (result' = DryRun \/ result' = Error("refused"))
      \/ /\ stage' = IF j.action.type = "terminate_process" THEN "scan"
                     ELSE IF Internal(j.action, j.context) THEN "internal" ELSE "spawn"
  BY DEF execute, Return
<1>3. StageFits'
  <2>1. Len(Program(j.action, j.context)) >= 1
    BY ProgramLength
  <2>2. action' = j.action /\ context' = j.context
    BY <1>1 DEF action, context
  <2>3. Runs' <=> j.action.type # "terminate_process" /\ ~Internal(j.action, j.context)
    BY <2>2 DEF Runs
  <2>4. Internal(action, context)' <=> Internal(j.action, j.context)
    BY <2>2
  <2>5. Len(Program(action, context))' = Len(Program(j.action, j.context))
    BY <2>2
  <2>6. QED
    BY <1>1, <1>2, <2>1, <2>2, <2>3, <2>4, <2>5 DEF StageFits
<1>4. Streams'
  <2>1. lingering' \in BOOLEAN
    BY <1>1 DEF NoChild
  <2>2. ASSUME NEW x \in Stream PROVE StreamFits(x)'
    <3>1. read'[x] = 0 /\ pipe'[x] = 0 /\ written'[x] = 0 /\ reader'[x] = "none"
      BY <1>1 DEF NoChild
    <3>2. QED
      BY <1>2, <3>1, ExecutorAssumption DEF StreamFits
  <2>3. QED
    BY <1>1, <2>1, <2>2 DEF Streams, NoChild
<1>5. ChildFits'
  BY <1>1, <1>2 DEF ChildFits, NoChild
<1>6. WalkFits'
  <2>1. \A q \in since' : q \in Process /\ host'[q] = "named"
    BY <1>1 DEF Named
  <2>2. \A q \in since' : ~(q <= cursor')
    BY <1>1, <2>1, ExecutorAssumption DEF Process
  <2>3. QED
    BY <1>1, <2>1, <2>2, FS_EmptySet, ExecutorAssumption DEF WalkFits, IInv
<1>7. ResultFits'
  BY <1>2, NoOutcome, DryRunFits
<1>8. QED
  BY <1>1, <1>2, <1>3, <1>4, <1>5, <1>6, <1>7 DEF IInv

LEMMA DoneInsideStep == ASSUME IInv, DoneInside PROVE IInv'
<1> USE DEF Commanding
<1>1. /\ UNCHANGED <<job, step, child, status, lingering, pipe, read, reader, written, exits>>
      /\ UNCHANGED walk /\ UNCHANGED host /\ stage = "internal" /\ stage' = "idle"
  BY DEF DoneInside, command, Return
<1>2. StageFits' /\ Streams' /\ WalkFits'
  BY <1>1, StageStays, StreamsStay, WalkStays
<1>3. ChildFits'
  BY <1>1 DEF IInv, ChildFits
<1>4. ~Runs' /\ action'.type # "terminate_process"
  BY <1>1 DEF IInv, StageFits, Runs, action, context
<1>5. ResultFits'
  BY <1>4 DEF ResultFits, SuccessHonest, OutputHonest, TerminateComplete
<1>6. QED
  BY <1>1, <1>2, <1>3, <1>5 DEF IInv

LEMMA SpawnStep == ASSUME IInv, Spawn PROVE IInv'
<1> USE DEF Commanding
<1>1. /\ UNCHANGED <<job, step, exits>> /\ UNCHANGED walk /\ UNCHANGED host /\ stage = "spawn"
      /\ child' = "running" /\ status' = "none" /\ lingering' = FALSE
      /\ pipe' = [x \in Stream |-> 0] /\ read' = [x \in Stream |-> 0]
      /\ written' = [x \in Stream |-> 0]
      /\ \/ stage' = "stdin" /\ reader' = [x \in Stream |-> "none"]
         \/ stage' = "wait" /\ reader' = [x \in Stream |-> "reading"]
  BY DEF Spawn, StartReaders
<1>2. StageFits' /\ WalkFits' /\ ResultFits'
  BY <1>1, StageStays, WalkStays, NoOutcome
<1>3. Streams'
  <2>1. lingering' \in BOOLEAN
    BY <1>1
  <2>2. ASSUME NEW x \in Stream PROVE StreamFits(x)'
    <3>1. read'[x] = 0 /\ pipe'[x] = 0 /\ written'[x] = 0
      BY <1>1
    <3>2. \/ stage' = "stdin" /\ reader'[x] = "none"
          \/ stage' = "wait" /\ reader'[x] = "reading"
      BY <1>1
    <3>3. QED
      BY <3>1, <3>2, ExecutorAssumption DEF StreamFits
  <2>3. QED
    BY <1>1, <2>1, <2>2 DEF Streams
<1>4. ChildFits'
  BY <1>1 DEF IInv, ChildFits
<1>5. QED
  BY <1>1, <1>2, <1>3, <1>4 DEF IInv

(* The ways out with an error that leave the command as it is.                 *)
LEMMA ErrorStep ==
  ASSUME IInv, stage # "idle", child # "running",
         UNCHANGED <<job, step, child, status, lingering, pipe, read, reader, written, exits>>,
         UNCHANGED walk, UNCHANGED host,
         stage' = "idle", \E kind \in {"none", "refused", "failed"} : result' = Error(kind)
  PROVE  IInv'
<1> USE DEF Commanding
<1>1. StageFits' /\ Streams' /\ WalkFits' /\ ResultFits'
  BY StageStays, StreamsStay, WalkStays, NoOutcome
<1>2. ChildFits'
  BY DEF IInv, ChildFits
<1>3. QED
  BY <1>1, <1>2 DEF IInv

LEMMA SpawnFailsStep == ASSUME IInv, SpawnFails PROVE IInv'
<1>1. child # "running"
  BY DEF SpawnFails, IInv, ChildFits
<1>2. QED
  BY <1>1, ErrorStep DEF SpawnFails, Return, command

LEMMA WriteKeyStep == ASSUME IInv, WriteKey PROVE IInv'
<1> USE DEF Commanding
<1>1. /\ UNCHANGED <<job, step, child, status, lingering, pipe, read, written, exits>>
      /\ UNCHANGED walk /\ UNCHANGED host /\ stage = "stdin" /\ stage' = "wait"
      /\ reader' = [x \in Stream |-> "reading"]
  BY DEF WriteKey, StartReaders
<1>2. StageFits' /\ WalkFits' /\ ResultFits'
  BY <1>1, StageStays, WalkStays, NoOutcome
<1>3. Streams'
  <2>1. Streams
    BY DEF IInv
  <2>2. ASSUME NEW x \in Stream PROVE StreamFits(x)'
    <3>1. StreamFits(x) /\ reader'[x] = "reading" /\ stage = "stdin"
      BY <1>1, <2>1 DEF Streams
    <3>2. read[x] <= OutputLimit
      BY <3>1, ExecutorAssumption DEF StreamFits
    <3>3. QED
      BY <1>1, <3>1, <3>2 DEF StreamFits
  <2>3. lingering' \in BOOLEAN
    BY <1>1, <2>1 DEF Streams
  <2>4. QED
    BY <1>1, <2>1, <2>2, <2>3 DEF Streams
<1>4. ChildFits'
  BY <1>1 DEF IInv, ChildFits
<1>5. QED
  BY <1>1, <1>2, <1>3, <1>4 DEF IInv

(* The ways out that drop the child.                                           *)
LEMMA KilledStep ==
  ASSUME IInv, stage \in {"stdin", "wait"}, Killed, UNCHANGED <<job, step>>,
         UNCHANGED walk, UNCHANGED host, stage' = "idle", result' = Error("failed")
  PROVE  IInv'
<1> USE DEF Commanding
<1>1. StageFits' /\ WalkFits' /\ ResultFits'
  BY StageStays, WalkStays, NoOutcome
<1>2. Streams'
  <2>1. CASE child = "running"
    BY <2>1, ChildEnds DEF IInv, Killed
  <2>2. CASE child # "running"
    <3>1. child = "exited"
      BY <2>2 DEF IInv, ChildFits
    <3>2. UNCHANGED <<pipe, read, reader, written, lingering, child>>
      BY <2>2, <3>1 DEF Killed
    <3>3. QED
      BY <3>2, StreamsStay
  <2>3. QED
    BY <2>1, <2>2
<1>3. ChildFits'
  <2>1. exits \in Seq({"success", "failure"})
    BY DEF IInv, ChildFits
  <2>2. exits' \in Seq({"success", "failure"})
    BY <2>1 DEF Killed
  <2>3. QED
    BY <2>2 DEF IInv, ChildFits, Killed
<1>4. QED
  BY <1>1, <1>2, <1>3 DEF IInv

LEMMA WaitedStep == ASSUME IInv, Waited PROVE IInv'
<1> USE DEF Commanding
<1>1. /\ UNCHANGED <<job, step, child, status, lingering, pipe, read, reader, written, exits>>
      /\ UNCHANGED walk /\ UNCHANGED host /\ stage = "wait" /\ stage' = "join" /\ child = "exited"
  BY DEF Waited, command
<1>2. StageFits' /\ Streams' /\ WalkFits' /\ ResultFits'
  BY <1>1, StageStays, StreamsStay, WalkStays, NoOutcome
<1>3. ChildFits'
  BY <1>1 DEF IInv, ChildFits
<1>4. QED
  BY <1>1, <1>2, <1>3 DEF IInv

(* A stream whose reader is done was read to its end, or past the limit.       *)
LEMMA ReadToTheEnd ==
  ASSUME IInv, NEW x \in Stream, reader[x] = "done"
  PROVE  /\ read[x] \in Nat /\ written[x] \in Nat
         /\ Least(read[x], OutputLimit) <= OutputLimit
         /\ read[x] > OutputLimit <=> Least(read[x], OutputLimit) # written[x]
<1>1. StreamFits(x)
  BY DEF IInv, Streams
<1>2. QED
  BY <1>1, ExecutorAssumption DEF StreamFits, Least

(* What run_command makes of n captured bytes.                                 *)
LEMMA ConversionHonest ==
  ASSUME NEW n \in Nat, NEW b \in [1..n -> Byte]
  PROVE  Len(b) = n /\ Honest(b, trim(from_utf8_lossy(b)))
<1> DEFINE u == from_utf8_lossy(b)
           t == trim(u)
<1>1. Len(b) = n
  OBVIOUS
<1>2. /\ DOMAIN u = 1..n /\ DOMAIN b = 1..n
      /\ \A i \in 1..n : /\ u[i] = "space" => b[i] = "space"
                         /\ (u[i] = b[i]) <=> b[i] \in {"text", "space"}
  BY DEF from_utf8_lossy, Byte
<1>3. DOMAIN t = Within(u) /\ Within(u) \subseteq 1..n /\ \A i \in Within(u) : t[i] = u[i]
  BY <1>2 DEF trim, Within
<1>4. ASSUME NEW i \in 1..n, i \notin Within(u) PROVE b[i] = "space"
  BY <1>2, <1>4 DEF Within
<1>5. Size(t) <= 3 * n
  <2> DEFINE A == {i \in DOMAIN t : t[i] # "nothing"}
             R == {i \in DOMAIN t : t[i] = "replacement"}
  <2>1. IsFiniteSet(1..n) /\ Cardinality(1..n) = n
    BY FS_Interval
  <2>2. A \subseteq 1..n /\ R \subseteq 1..n
    BY <1>3
  <2>3. Cardinality(A) \in Nat /\ Cardinality(A) <= n
    BY <2>1, <2>2, FS_Subset, FS_CardinalityType
  <2>4. Cardinality(R) \in Nat /\ Cardinality(R) <= n
    BY <2>1, <2>2, FS_Subset, FS_CardinalityType
  <2>5. Size(t) = Cardinality(A) + 2 * Cardinality(R)
    BY DEF Size
  <2>6. QED
    BY <2>3, <2>4, <2>5
<1>6. QED
  BY <1>1, <1>2, <1>3, <1>4, <1>5 DEF Honest

LEMMA OutcomeFields ==
  ASSUME NEW b
  PROVE  /\ CommandOutcome(b).success = (status = "success")
         /\ CommandOutcome(b).effect = (IF status = "success" THEN Effect(action) ELSE NoEffect)
         /\ CommandOutcome(b).output = [x \in Stream |-> trim(from_utf8_lossy(b[x]))]
         /\ CommandOutcome(b).captured = b
         /\ CommandOutcome(b).truncated = Truncated
BY Zenon DEF CommandOutcome, ActionOutcome, Error

LEMMA OneMore ==
  ASSUME NEW n \in {1, 3}, NEW k \in 1..3, k <= n, k # n
  PROVE  k + 1 \in 1..3 /\ k + 1 <= n
<1>1. CASE n = 1
  BY <1>1
<1>2. CASE n = 3
  BY <1>2
<1>3. QED
  BY <1>1, <1>2

LEMMA JoinedStep == ASSUME IInv, Joined PROVE IInv'
<1> USE DEF Commanding
<1>1. /\ UNCHANGED <<job, child, status, lingering, pipe, read, reader, written, exits>>
      /\ UNCHANGED walk /\ UNCHANGED host /\ stage = "join"
      /\ reader["stdout"] = "done" /\ reader["stderr"] = "done" /\ child = "exited"
  BY DEF Joined, command, Stream, IInv, ChildFits
<1>2. step \in 1..3 /\ step <= Len(Program(action, context))
      /\ Len(Program(action, context)) \in {1, 3}
  BY <1>1, ProgramLength DEF IInv, StageFits
<1>3. CASE step = Len(Program(action, context))
  <2> PICK o \in Captures("stdout"), e \in Captures("stderr") :
        Return(CommandOutcome([x \in Stream |-> IF x = "stdout" THEN o ELSE e])) /\ step' = step
    BY <1>3, Zenon DEF Joined, ReturnOutcome
  <2> DEFINE b == [x \in Stream |-> IF x = "stdout" THEN o ELSE e]
  <2>1. stage' = "idle" /\ result' = CommandOutcome(b) /\ step' = step
    BY Zenon DEF Return
  <2>1a. ASSUME NEW x \in Stream PROVE b[x] \in Captures(x)
    BY DEF Stream
  <2>1b. /\ result'.success = (status = "success")
         /\ result'.effect = (IF status = "success" THEN Effect(action) ELSE NoEffect)
         /\ result'.output = [x \in Stream |-> trim(from_utf8_lossy(b[x]))]
         /\ result'.captured = b /\ result'.truncated = Truncated
    BY <2>1, OutcomeFields, Zenon
  <2> HIDE DEF b
  <2>2. StageFits' /\ Streams' /\ WalkFits'
    BY <1>1, <2>1, StageStays, StreamsStay, WalkStays
  <2>3. ChildFits'
    BY <1>1, <2>1, SMTT(20) DEF IInv, ChildFits
  <2>4. Runs /\ action.type # "terminate_process" /\ UNCHANGED action /\ UNCHANGED context
    BY <1>1 DEF IInv, StageFits, Runs, action, context
  <2>5. SuccessHonest'
    <3>1. result'.success \/ result'.effect # NoEffect => status = "success"
      BY <2>1b
    <3>2. status = "success" => exits \in Seq({"success"}) /\ Len(exits) = step
      BY <1>1 DEF IInv, ChildFits
    <3>3. QED
      BY <1>1, <1>3, <2>4, <3>1, <3>2 DEF SuccessHonest
  <2>6. OutputHonest'
    <3>1. /\ result'.captured = b /\ result'.truncated = Truncated
          /\ \A x \in Stream : result'.output[x] = trim(from_utf8_lossy(b[x]))
      BY <2>1b
    <3>2. ASSUME NEW x \in Stream
          PROVE  /\ Len(b[x]) <= OutputLimit /\ Honest(b[x], trim(from_utf8_lossy(b[x])))
                 /\ read[x] > OutputLimit <=> Len(b[x]) # written[x]
      <4>1. PICK n : n = Least(read[x], OutputLimit)
        OBVIOUS
      <4>2. /\ n \in Nat /\ n <= OutputLimit
            /\ read[x] > OutputLimit <=> n # written[x]
        BY <1>1, <4>1, ReadToTheEnd, ExecutorAssumption DEF Stream, Least
      <4>3. b[x] \in [1..n -> Byte]
        BY <4>1, <2>1a DEF Captures
      <4>4. Len(b[x]) = n /\ Honest(b[x], trim(from_utf8_lossy(b[x])))
        BY <4>2, <4>3, ConversionHonest
      <4>5. QED
        BY <4>2, <4>4
    <3>3. Truncated <=> \E x \in Stream : Len(b[x]) # written[x]
      BY <3>2 DEF Truncated
    <3>4. QED
      BY <1>1, <3>1, <3>2, <3>3 DEF OutputHonest
  <2>7. TerminateComplete'
    BY <2>4 DEF TerminateComplete
  <2>8. QED
    BY <1>1, <2>1, <2>2, <2>3, <2>5, <2>6, <2>7 DEF IInv, ResultFits
<1>4. CASE step # Len(Program(action, context))
  <2>1. CASE KeyStep /\ step' = step + 1 /\ stage' = "spawn"
    <3>1. step' \in 1..3 /\ step' <= Len(Program(action, context))
      BY <1>2, <1>4, <2>1, OneMore
    <3>2. StageFits'
      <4>1. UNCHANGED action /\ UNCHANGED context /\ Runs /\ stage' = "spawn"
        BY <1>1, <2>1 DEF IInv, StageFits, action, context
      <4>2. Runs' /\ step' <= Len(Program(action, context))'
        BY <3>1, <4>1 DEF Runs
      <4>3. QED
        BY <4>1, <4>2 DEF StageFits
    <3>3. Streams' /\ WalkFits' /\ ResultFits'
      BY <1>1, <2>1, StreamsStay, WalkStays, NoOutcome
    <3>4. status = "success" /\ exits \in Seq({"success"}) /\ Len(exits) = step
      BY <1>1, <2>1 DEF IInv, ChildFits, KeyStep
    <3>5. ChildFits'
      BY <1>1, <1>2, <2>1, <3>4 DEF IInv, ChildFits
    <3>6. QED
      BY <1>1, <2>1, <3>1, <3>2, <3>3, <3>5 DEF IInv
  <2>2. CASE Return(Error("failed")) /\ UNCHANGED step
    BY <1>1, <2>2, ErrorStep DEF Return
  <2>3. QED
    BY <1>4, <2>1, <2>2 DEF Joined
<1>5. QED
  BY <1>3, <1>4

LEMMA JoinFailsStep == ASSUME IInv, JoinFails PROVE IInv'
<1>1. child # "running" /\ stage # "idle"
  BY DEF JoinFails, IInv, ChildFits
<1>2. QED
  BY <1>1, ErrorStep DEF JoinFails, Return, command

-------------------------------------------------------------------------------
(* The task of the action: the walk over the processes                         *)
LEMMA VisitStep == ASSUME IInv, Visit PROVE IInv'
<1> USE DEF Commanding
<1>1. /\ UNCHANGED <<job, stage, step, result, exits>> /\ stage = "scan" /\ aim = 0
      /\ UNCHANGED <<child, status, lingering, pipe, read, reader, written>>
      /\ UNCHANGED host /\ UNCHANGED <<count, signalled, since>>
      /\ cursor < Processes /\ cursor' = cursor + 1
      /\ aim' = IF host[cursor + 1] = "named" THEN cursor + 1 ELSE 0
  BY DEF Visit, call, command
<1>2. StageFits' /\ Streams' /\ ResultFits'
  BY <1>1, StageStays, StreamsStay, NoOutcome
<1>3. ChildFits'
  BY <1>1 DEF IInv, ChildFits
<1>4. WalkFits'
  <2>1. WalkFits /\ cursor \in Nat /\ cursor + 1 \in 0..Processes
    BY <1>1, ExecutorAssumption DEF IInv, WalkFits
  <2>2. signalled' \subseteq 1..cursor' /\ aim' \notin signalled'
    BY <1>1, <2>1 DEF WalkFits
  <2>3. \A q \in since' : host'[q] = "named" /\ (q <= cursor' => q \in signalled' \/ q = aim')
    BY <1>1, <2>1 DEF WalkFits, Process
  <2>4. QED
    BY <1>1, <2>1, <2>2, <2>3 DEF WalkFits
<1>5. QED
  BY <1>1, <1>2, <1>3, <1>4 DEF IInv

LEMMA SignalStep == ASSUME IInv, Signal PROVE IInv'
<1> USE DEF Commanding
<1>1. /\ UNCHANGED <<job, stage, step, result, exits>> /\ stage = "scan" /\ aim # 0
      /\ UNCHANGED <<child, status, lingering, pipe, read, reader, written>>
      /\ UNCHANGED host /\ UNCHANGED <<cursor, since>>
      /\ count' = count + 1 /\ signalled' = signalled \cup {aim} /\ aim' = 0
  BY DEF Signal, call, command
<1>2. StageFits' /\ Streams' /\ ResultFits'
  BY <1>1, StageStays, StreamsStay, NoOutcome
<1>3. ChildFits'
  BY <1>1 DEF IInv, ChildFits
<1>4. WalkFits'
  <2>1. WalkFits /\ cursor \in Nat /\ aim = cursor /\ aim \in 1..cursor
    BY <1>1, ExecutorAssumption DEF IInv, WalkFits
  <2>2. IsFiniteSet(signalled)
    <3>1. IsFiniteSet(1..cursor)
      BY <2>1, FS_Interval
    <3>2. QED
      BY <2>1, <3>1, FS_Subset DEF WalkFits
  <2>3. Cardinality(signalled') = count'
    BY <1>1, <2>1, <2>2, FS_AddElement DEF WalkFits
  <2>4. QED
    BY <1>1, <2>1, <2>3, ExecutorAssumption DEF WalkFits
<1>5. QED
  BY <1>1, <1>2, <1>3, <1>4 DEF IInv

LEMMA WalkFailsStep == ASSUME IInv, SignalFails \/ ScanFails PROVE IInv'
<1>1. child # "running"
  BY DEF SignalFails, ScanFails, IInv, ChildFits
<1>2. QED
  BY <1>1, ErrorStep DEF SignalFails, ScanFails, Return, command

LEMMA ScanEndsStep == ASSUME IInv, ScanEnds PROVE IInv'
<1> USE DEF Commanding
<1>1. /\ UNCHANGED <<job, step, child, status, lingering, pipe, read, reader, written, exits>>
      /\ UNCHANGED walk /\ UNCHANGED host /\ stage = "scan" /\ stage' = "idle"
      /\ aim = 0 /\ cursor = Processes
      /\ result' = [ActionOutcome(TRUE, NoEffect) EXCEPT !.count = count]
  BY DEF ScanEnds, command, Return
<1>2. StageFits' /\ Streams' /\ WalkFits'
  BY <1>1, StageStays, StreamsStay, WalkStays
<1>3. ChildFits'
  BY <1>1 DEF IInv, ChildFits
<1>4. action.type = "terminate_process" /\ UNCHANGED action /\ ~Runs'
  BY <1>1 DEF IInv, StageFits, action, Runs
<1>5. SuccessHonest' /\ OutputHonest'
  BY <1>4 DEF SuccessHonest, OutputHonest
<1>6. TerminateComplete'
  <2>1. result'.count = count
    BY <1>1 DEF ActionOutcome, Error
  <2>2. \A q \in since : q \in 1..Processes
    BY DEF IInv, WalkFits, Process
  <2>3. \A q \in since : q <= cursor /\ q # 0
    BY <1>1, <2>2, ExecutorAssumption
  <2>4. since \subseteq signalled /\ count = Cardinality(signalled)
    BY <1>1, <2>3 DEF IInv, WalkFits
  <2>5. QED
    BY <1>1, <2>1, <2>4 DEF TerminateComplete, walk
<1>7. QED
  BY <1>1, <1>2, <1>3, <1>5, <1>6 DEF IInv, ResultFits

LEMMA HostChangesStep == ASSUME IInv, NEW y \in Process, HostChanges(y) PROVE IInv'
<1> USE DEF Commanding
<1>1. /\ UNCHANGED <<job, stage, step, result, exits>> /\ stage = "scan"
      /\ UNCHANGED <<child, status, lingering, pipe, read, reader, written>>
      /\ UNCHANGED <<cursor, aim, count, signalled>> /\ since' = since \ {y}
  BY DEF HostChanges, call, command
<1>2. PICK v \in {"named", "other", "gone"} : host' = [host EXCEPT ![y] = v]
  BY DEF HostChanges
<1>3. StageFits' /\ Streams' /\ ResultFits'
  BY <1>1, StageStays, StreamsStay, NoOutcome
<1>4. ChildFits'
  BY <1>1 DEF IInv, ChildFits
<1>5. WalkFits'
  <2>1. WalkFits
    BY DEF IInv
  <2>2. host' \in [Process -> {"named", "other", "gone"}]
    BY <1>2, <2>1 DEF WalkFits
  <2>3. \A q \in since' : q \in since /\ q \in Process /\ host'[q] = host[q]
    BY <1>1, <1>2, <2>1 DEF WalkFits
  <2>4. QED
    BY <1>1, <2>1, <2>2, <2>3 DEF WalkFits
<1>6. QED
  BY <1>1, <1>3, <1>4, <1>5 DEF IInv

LEMMA StutterStep == ASSUME IInv, UNCHANGED vars PROVE IInv'
<1> USE DEF Commanding
<1>1. /\ UNCHANGED <<job, stage, step, result, exits>>
      /\ UNCHANGED <<child, status, lingering, pipe, read, reader, written>>
      /\ UNCHANGED walk /\ UNCHANGED host
  BY DEF vars, call, command
<1>2. StageFits' /\ Streams' /\ WalkFits'
  BY <1>1, StageStays, StreamsStay, WalkStays
<1>3. ChildFits'
  BY <1>1 DEF IInv, ChildFits
<1>4. ResultFits'
  BY <1>1 DEF IInv, ResultFits, SuccessHonest, OutputHonest, TerminateComplete, Outcome, Runs,
              action, context, walk
<1>5. QED
  BY <1>1, <1>2, <1>3, <1>4 DEF IInv

-------------------------------------------------------------------------------
(* The inductive invariant is kept by every step of the executor, of the       *)
(* readers, of the child and of the host.                                      *)
THEOREM Invariance == Spec => []IInv
<1>1. IInv /\ [Next]_vars => IInv'
  <2> SUFFICES ASSUME IInv, [Next]_vars PROVE IInv'
    OBVIOUS
  <2>1. CASE \E j \in Job : execute(j)
    BY <2>1, ExecuteStep
  <2>2. CASE WriteKeyFails \/ TimesOut
    BY <2>2, KilledStep DEF WriteKeyFails, TimesOut, Return
  <2>3. CASE Task /\ ~(WriteKeyFails \/ TimesOut)
    BY <2>3, DoneInsideStep, SpawnStep, SpawnFailsStep, WriteKeyStep, WaitedStep, JoinedStep,
       JoinFailsStep, VisitStep, SignalStep, WalkFailsStep, ScanEndsStep DEF Task
  <2>4. CASE \E x \in Stream : ChildWrites(x) \/ Read(x) \/ ReadEnds(x) \/ ReadFails(x)
    BY <2>4, ChildWritesStep, ReadStep, ReadEndsStep
  <2>5. CASE ChildExits \/ DescendantEnds
    BY <2>5, ChildExitsStep, DescendantEndsStep
  <2>6. CASE \E q \in Process : HostChanges(q)
    BY <2>6, HostChangesStep
  <2>7. CASE UNCHANGED vars
    BY <2>7, StutterStep
  <2>8. QED
    BY <2>1, <2>2, <2>3, <2>4, <2>5, <2>6, <2>7 DEF Next
<1>2. QED
  BY StartsRight, <1>1, PTL DEF Spec

(* Values; readers are at work as soon as the child is waited for, and none    *)
(* takes more than OUTPUT_LIMIT + 1.                                           *)
THEOREM TypeCorrect == Spec => []TypeOK
<1>1. IInv => TypeOK
  BY DEF IInv, StageFits, Streams, StreamFits, ChildFits, WalkFits, TypeOK, Commanding
<1>2. QED
  BY Invariance, <1>1, PTL

(* An action that runs commands reports success, and hands the daemon an       *)
(* effect to apply, only when all of them ran and exited with success.         *)
THEOREM SuccessIsHonest == Spec => []SuccessHonest
<1>1. IInv => SuccessHonest
  BY DEF IInv, ResultFits
<1>2. QED
  BY Invariance, <1>1, PTL

(* run_raw_command leaves no child running behind, on whatever way it ends.    *)
THEOREM ChildrenEnd == Spec => []NoChildLeft
<1>1. IInv => NoChildLeft
  BY DEF IInv, ChildFits, NoChildLeft
<1>2. QED
  BY Invariance, <1>1, PTL

(* The captured output is the whole output, or is marked as truncated and is;  *)
(* the text of the outcome leaves nothing out of it but white space at its     *)
(* ends, replaces what is not UTF-8 visibly, and is at most three times as     *)
(* long.                                                                       *)
THEOREM OutputIsHonest == Spec => []OutputHonest
<1>1. IInv => OutputHonest
  BY DEF IInv, ResultFits
<1>2. QED
  BY Invariance, <1>1, PTL

(* A successful terminate_process has signalled every process that had the     *)
(* name all along, however processes come and go during the walk.              *)
THEOREM TerminateIsComplete == Spec => []TerminateComplete
<1>1. IInv => TerminateComplete
  BY DEF IInv, ResultFits
<1>2. QED
  BY Invariance, <1>1, PTL
-------------------------------------------------------------------------------
(* What validation is worth to the executor.  An action is accepted when it    *)
(* belongs to a configuration whose vaults are valid and that validate_action  *)
(* accepts it for; its context is the one executor_for makes.                  *)
Accepted(j) ==
  \E c : /\ j.context = executor_for(c)
         /\ \A i \in DOMAIN c.vaults : ValidVault(c.vaults[i])
         /\ validate_action(j.action, c)

LEMMA AcceptedNotRefused ==
  ASSUME Matches = Text, NEW j, Accepted(j)
  PROVE  ~Refused(j.action, j.context)
<1>1. PICK c : j.context = executor_for(c) /\ validate_action(j.action, c)
  BY DEF Accepted
<1>2. PICK a, d : a = j.action /\ d = j.context
  OBVIOUS
<1>3. /\ d.vaults = c.vaults /\ d.allowed_executables = c.daemon.allowed_executables
      /\ d.managed_processes = c.daemon.managed_processes
  BY <1>1, <1>2 DEF executor_for
<1>4. validate_action(a, c)
  BY <1>1, <1>2
<1>5. a.type \in {"lock_vault", "unlock_vault"} => KnowsVault(d, a.vault)
  BY <1>3, <1>4, SMTT(20) DEF validate_action, Members, KnowsVault
<1>6. ~Refused(a, d)
  BY <1>3, <1>4, <1>5 DEF validate_action, Refused, Absolute, IsAbsolute
<1>7. QED
  BY <1>2, <1>6

LEMMA AcceptedVault ==
  ASSUME NEW j, Accepted(j), j.action.type \in {"lock_vault", "unlock_vault"},
         NEW v, v = vault(j.context, j.action.vault)
  PROVE  ValidVault(v)
<1>1. PICK c : /\ j.context = executor_for(c) /\ validate_action(j.action, c)
               /\ \A i \in DOMAIN c.vaults : ValidVault(c.vaults[i])
  BY DEF Accepted
<1>2. PICK S, name : S = c.vaults /\ name = j.action.vault
  OBVIOUS
<1>3. j.context.vaults = S
  BY <1>1, <1>2, SMTT(20) DEF executor_for
<1>4. \E i \in DOMAIN S : S[i].name = name
  BY <1>1, <1>2 DEF validate_action, Members
<1>5. PICK k : k = CHOOSE i \in DOMAIN S : S[i].name = name
  OBVIOUS
<1>6. k \in DOMAIN S
  BY <1>4, <1>5
<1>7. v = S[k]
  BY <1>2, <1>3, <1>5 DEF vault
<1>8. QED
  BY <1>1, <1>2, <1>6, <1>7

LEMMA CommandAllowed ==
  ASSUME Matches = Text, Nothing = None, NEW j, Accepted(j),
         NEW p, p = Program(j.action, j.context), NEW n \in 1..3, n <= Len(p), ~p[n].allowed
  PROVE  /\ j.action.type = "unlock_vault"
         /\ vault(j.context, j.action.vault).keyring_description = Nothing
<1>1. PICK a, v : a = j.action /\ v = vault(j.context, j.action.vault)
  OBVIOUS
<1>2. CASE a.type = "lock_vault"
  <2>1. p = lock_vault(v)
    BY <1>1, <1>2 DEF Program
  <2>2. Len(p) = 1 /\ p[1].allowed = (v.adapter = "gocryptfs" => v.mount_path # Nothing)
    BY <2>1 DEF lock_vault, Command
  <2>3. ValidVault(v)
    BY <1>1, <1>2, AcceptedVault
  <2>4. n = 1
    BY <2>2
  <2>5. v.adapter = "gocryptfs" => v.mount_path # Nothing
    BY <2>3 DEF ValidVault, AbsoluteOption
  <2>6. QED
    BY <2>2, <2>4, <2>5
<1>3. CASE a.type = "unlock_vault"
  <2>1. p = unlock_vault(v)
    BY <1>1, <1>3 DEF Program
  <2>2. ASSUME NEW r, NEW s, NEW t, NEW q, q = <<r, s>> \o <<t>> PROVE q[1] = r /\ q[2] = s /\ q[3] = t
    <3>1. PICK S : S = {r, s, t}
      OBVIOUS
    <3>2. <<r, s>> \in Seq(S) /\ <<t>> \in Seq(S) /\ Len(<<r, s>>) = 2 /\ Len(<<t>>) = 1
      BY <3>1
    <3>3. QED
      BY <2>2, <3>2
  <2>3. /\ p[1].allowed = (v.keyring_description \in Matches.description)
        /\ p[2].allowed = TRUE
        /\ p[3].allowed = (v.adapter = "gocryptfs" => v.encrypted_path # Nothing /\ v.mount_path # Nothing)
    BY <2>1, <2>2 DEF unlock_vault, read_keyring, Command
  <2>4. ValidVault(v)
    BY <1>1, <1>3, AcceptedVault
  <2>5. p[3].allowed /\ p[2].allowed
    BY <2>3, <2>4 DEF ValidVault, AbsoluteOption
  <2>6. n = 1
    BY <2>5
  <2>7. v.keyring_description \notin Matches.description
    BY <2>3, <2>6
  <2>8. v.keyring_description = Nothing
    BY <2>4, <2>7 DEF ValidVault
  <2>9. QED
    BY <1>1, <1>3, <2>8
<1>4. CASE a.type \notin {"lock_vault", "unlock_vault"}
  <2>1. p = <<Command>>
    BY <1>1, <1>4 DEF Program
  <2>2. Len(p) = 1 /\ p[1].allowed = TRUE
    BY <2>1 DEF Command
  <2>3. n = 1
    BY <2>2
  <2>4. QED
    BY <2>2, <2>3
<1>5. QED
  BY <1>2, <1>3, <1>4

LEMMA Kinds ==
  /\ \A k : Error(k).kind = k
  /\ \A s, e : ActionOutcome(s, e).kind = "outcome"
  /\ DryRun.kind = "outcome" /\ \A b : CommandOutcome(b).kind = "outcome"
  /\ \A n : [ActionOutcome(TRUE, NoEffect) EXCEPT !.count = n].kind = "outcome"
<1>1. \A k : Error(k).kind = k
  BY DEF Error
<1>2. \A s, e : "kind" \in DOMAIN ActionOutcome(s, e) /\ ActionOutcome(s, e).kind = "outcome"
  BY DEF ActionOutcome, Error
<1>3. DryRun.kind = "outcome"
  BY <1>2 DEF DryRun
<1>4. ASSUME NEW b PROVE CommandOutcome(b).kind = "outcome"
  <2>1. PICK s, e, x, y, z :
          CommandOutcome(b) = [ActionOutcome(s, e) EXCEPT !.output = x, !.captured = y, !.truncated = z]
    BY Zenon DEF CommandOutcome
  <2>2. PICK o : o = ActionOutcome(s, e)
    OBVIOUS
  <2>3. CommandOutcome(b) = [o EXCEPT !.output = x, !.captured = y, !.truncated = z]
    BY <2>1, <2>2
  <2>4. "kind" \in DOMAIN o /\ o.kind = "outcome"
    BY <1>2, <2>2
  <2>5. QED
    BY <2>3, <2>4
<1>5. \A n : [ActionOutcome(TRUE, NoEffect) EXCEPT !.count = n].kind = "outcome"
  BY <1>2
<1>6. \A s, e : ActionOutcome(s, e).kind = "outcome"
  BY <1>2
<1>7. QED
  BY <1>1, <1>3, <1>4, <1>5, <1>6

LEMMA RefusalStep ==
  ASSUME Matches = Text, Nothing = None, \A j \in Job : Accepted(j),
         IInv, RefusedOnlyForKey, [Next]_vars
  PROVE  RefusedOnlyForKey'
<1>1. CASE UNCHANGED <<job, result>>
  BY <1>1 DEF RefusedOnlyForKey, action, context
<1>2. CASE result'.kind # "refused"
  BY <1>2 DEF RefusedOnlyForKey
<1>3. ASSUME NEW j \in Job, execute(j) PROVE result'.kind # "refused"
  <2>1. ~Refused(j.action, j.context)
    BY AcceptedNotRefused
  <2>2. result' = DryRun \/ result' = Error("none")
    BY <1>3, <2>1 DEF execute, Return
  <2>3. QED
    BY <2>2, Kinds
<1>4. CASE SpawnFails
  <2>1. PICK p, n : p = Program(action, context) /\ n = step
    OBVIOUS
  <2>2. /\ stage = "spawn" /\ job' = job
        /\ result' = Error(IF p[n].allowed THEN "failed" ELSE "refused")
    BY <1>4, <2>1 DEF SpawnFails, Return
  <2>3. job \in Job /\ n \in 1..3 /\ n <= Len(p)
    BY <2>1, <2>2 DEF IInv, StageFits, Commanding
  <2>4. CASE p[n].allowed
    <3>1. result'.kind = "failed"
      BY <2>2, <2>4 DEF Error
    <3>2. QED
      BY <1>2, <3>1
  <2>5. CASE ~p[n].allowed
    <3>1. PICK j : j = job
      OBVIOUS
    <3>2. Accepted(j) /\ p = Program(j.action, j.context)
      BY <2>1, <2>3, <3>1 DEF action, context
    <3>3. j.action.type = "unlock_vault" /\ vault(j.context, j.action.vault).keyring_description = Nothing
      BY <2>3, <2>5, <3>2, CommandAllowed
    <3>4. job' = j
      BY <2>2, <3>1
    <3>5. QED
      BY <3>3, <3>4 DEF RefusedOnlyForKey, action, context
  <2>6. QED
    BY <2>4, <2>5
<1>5. CASE Task /\ ~SpawnFails
  <2>1. \/ UNCHANGED <<job, result>>
        \/ result' = ActionOutcome(TRUE, Effect(action)) \/ result' = Error("failed")
        \/ \E b : result' = CommandOutcome(b)
        \/ result' = [ActionOutcome(TRUE, NoEffect) EXCEPT !.count = count]
    BY <1>5 DEF Task, DoneInside, Spawn, WriteKey, WriteKeyFails, Waited, TimesOut, Joined, JoinFails,
                ReturnOutcome, Visit, Signal, SignalFails, ScanFails, ScanEnds, Return, call
  <2>2. UNCHANGED <<job, result>> \/ result'.kind # "refused"
    BY <2>1, Kinds
  <2>3. QED
    BY <1>1, <1>2, <2>2
<1>6. CASE \/ \E x \in Stream : ChildWrites(x) \/ Read(x) \/ ReadEnds(x) \/ ReadFails(x)
           \/ ChildExits \/ DescendantEnds
           \/ \E q \in Process : HostChanges(q)
  BY <1>1, <1>6 DEF ChildWrites, Read, ReadEnds, ReadFails, ChildExits, DescendantEnds, HostChanges, call
<1>7. CASE UNCHANGED vars
  BY <1>1, <1>7 DEF vars, call
<1>8. QED
  BY <1>2, <1>3, <1>4, <1>5, <1>6, <1>7 DEF Next

(* When every action comes from a configuration that validate_config accepts,  *)
(* execute refuses none of them, but for the unlocking of a vault that has no  *)
(* keyring description: the checks of the two crates agree.                    *)
THEOREM AcceptedIsExecutable ==
  ASSUME Matches = Text, Nothing = None, \A j \in Job : Accepted(j)
  PROVE  Spec => []RefusedOnlyForKey
<1>1. Init => RefusedOnlyForKey
  BY DEF Init, RefusedOnlyForKey, Error
<1>2. IInv /\ RefusedOnlyForKey /\ [Next]_vars => RefusedOnlyForKey'
  BY RefusalStep
<1>3. QED
  BY <1>1, <1>2, Invariance, PTL DEF Spec
===============================================================================
