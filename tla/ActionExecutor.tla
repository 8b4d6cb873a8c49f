---------------------------- MODULE ActionExecutor ----------------------------
(* kovert-actions: one ActionExecutor at work.  An action is refused, done     *)
(* inside the daemon, a walk over the processes of the host, or a program of   *)
(* one to three commands; a command is a child process with two pipes that are *)
(* read by tasks of their own.                                                 *)
(*                                                                             *)
(* Output is counted in bytes until it is converted, when their content        *)
(* begins to matter.  A child may leave a descendant behind that keeps its     *)
(* output open.  A kernel key is shorter than a pipe, so writing it to the     *)
(* child does not wait for the child.                                          *)
EXTENDS Naturals, Sequences, FiniteSets

CONSTANTS
  Nothing,
  Job,           \* the calls of execute: [context, action]
  Matches,       \* [pattern -> the texts that match it]
  Processes,     \* bound: process identifiers, without those of init and the daemon
  OutputLimit,   \* OUTPUT_LIMIT
  PipeCapacity,  \* of a pipe
  MaxOutput      \* bound: what a command writes to each stream

ASSUME ExecutorAssumption ==
  /\ OutputLimit \in Nat /\ PipeCapacity \in Nat \ {0} /\ MaxOutput \in Nat
  /\ Processes \in Nat

Process == 1..Processes
Stream == {"stdout", "stderr"}

VARIABLES
  job,        \* the call under way or the last one
  stage,      \* "idle", "spawn", "stdin", "wait", "join", "scan" or "internal"
  step,       \* the command of the program that is run
  child,      \* of that command: "none", "running" or "exited"
  status,     \* its exit status: "none", "success" or "failure"
  lingering,  \* a descendant holds its output open
  pipe,       \* per stream: what is in the pipe
  read,       \* per stream: what its reader has taken
  reader,     \* per stream: "none", "reading", "done" or "failed"
  result,     \* what the last call returned
  host,       \* per process: "named" (like the one to signal), "other" or "gone"
  cursor,     \* the last entry of /proc visited; they come in order
  aim,        \* the process whose name matched, about to be signalled, or 0
  count,      \* of processes signalled
  written,    \* history: per stream, what the command and its descendant wrote
  exits,      \* history: exit statuses of the commands of this call
  signalled,  \* history: processes signalled in this call
  since       \* history: processes that had the name all through this call

call == <<job, stage, step, result>>
command == <<child, status, lingering, pipe, read, reader, written>>
walk == <<cursor, aim, count, signalled, since>>
vars == <<call, command, host, walk, exits>>

action == job.action
context == job.context
-------------------------------------------------------------------------------
(* The context, from the configuration                                         *)
executor_for(c) ==
  [dry_run |-> c.daemon.dry_run, allowed_executables |-> c.daemon.allowed_executables,
   managed_processes |-> c.daemon.managed_processes, vaults |-> c.vaults,
   desktop_notifications |-> c.daemon.desktop_notifications]

(* Results                                                                     *)
NoEffect == <<"none">>
Error(kind) ==
  [kind |-> kind, success |-> FALSE, dry_run |-> FALSE, effect |-> NoEffect,
   output |-> [x \in Stream |-> <<>>], captured |-> [x \in Stream |-> <<>>],
   truncated |-> FALSE, count |-> 0]
ActionOutcome(success, effect) ==
  [Error("outcome") EXCEPT !.success = success, !.effect = effect]
DryRun == [ActionOutcome(TRUE, NoEffect) EXCEPT !.dry_run = TRUE]

Return(r) == stage' = "idle" /\ result' = r

-------------------------------------------------------------------------------
(* What each action runs.  A command is given the key or not, and is refused   *)
(* when something it needs is missing from the vault.                          *)
Absolute(path) == path # <<>> /\ path[1] = "/"
Command == [secret |-> FALSE, allowed |-> TRUE]

lock_vault(v) ==
  <<[Command EXCEPT !.allowed = v.adapter = "gocryptfs" => v.mount_path # Nothing]>>

read_keyring(v) ==
  <<[Command EXCEPT !.allowed = v.keyring_description \in Matches.description], Command>>

unlock_vault(v) ==
  read_keyring(v) \o
    <<[secret |-> TRUE,
       allowed |-> v.adapter = "gocryptfs" =>
                     v.encrypted_path # Nothing /\ v.mount_path # Nothing]>>

vault(c, name) == c.vaults[CHOOSE i \in DOMAIN c.vaults : c.vaults[i].name = name]
KnowsVault(c, name) == \E i \in DOMAIN c.vaults : c.vaults[i].name = name

Program(a, c) ==
  CASE a.type = "lock_vault" -> lock_vault(vault(c, a.vault))
    [] a.type = "unlock_vault" -> unlock_vault(vault(c, a.vault))
    [] OTHER -> <<Command>>

(* The checks before anything is run.                                          *)
Refused(a, c) ==
  \/ a.type \in {"lock_vault", "unlock_vault"} /\ ~KnowsVault(c, a.vault)
  \/ a.type = "unmount" /\ ~Absolute(a.path)
  \/ a.type = "interface_state" /\ a.interface \notin Matches.interface
  \/ a.type = "service" /\ a.name \notin Matches.unit
  \/ a.type = "terminate_process" /\ a.process \notin c.managed_processes
  \/ a.type = "capture_evidence" /\ ~(Absolute(a.destination)
                                        /\ \A i \in DOMAIN a.paths : Absolute(a.paths[i]))
  \/ a.type = "exec" /\ a.executable \notin c.allowed_executables

Internal(a, c) ==
  \/ a.type \in {"set_mode", "capture_evidence"}
  \/ a.type = "notify" /\ ~c.desktop_notifications

(* What the daemon is to apply after success.                                  *)
Effect(a) ==
  CASE a.type = "set_mode" -> <<"set_mode", a.mode>>
    [] a.type = "network_isolation" -> <<"network_isolation", a.enabled>>
    [] OTHER -> NoEffect

-------------------------------------------------------------------------------
NoChild ==
  /\ child' = "none" /\ status' = "none" /\ lingering' = FALSE
  /\ pipe' = [x \in Stream |-> 0] /\ read' = [x \in Stream |-> 0]
  /\ reader' = [x \in Stream |-> "none"] /\ written' = [x \in Stream |-> 0]

Init ==
  /\ job \in Job /\ stage = "idle" /\ step = 1 /\ result = Error("none")
  /\ child = "none" /\ status = "none" /\ lingering = FALSE
  /\ pipe = [x \in Stream |-> 0] /\ read = [x \in Stream |-> 0]
  /\ reader = [x \in Stream |-> "none"] /\ written = [x \in Stream |-> 0]
  /\ host \in [Process -> {"named", "other", "gone"}]
  /\ cursor = 0 /\ aim = 0 /\ count = 0 /\ signalled = {} /\ since = {} /\ exits = <<>>

Named == {q \in Process : host[q] = "named"}

execute(j) ==
  /\ stage = "idle"
  /\ job' = j /\ step' = 1 /\ exits' = <<>> /\ NoChild
  /\ cursor' = 0 /\ aim' = 0 /\ count' = 0 /\ signalled' = {} /\ since' = Named
  /\ IF j.context.dry_run THEN Return(DryRun)
     ELSE IF Refused(j.action, j.context) THEN Return(Error("refused"))
     ELSE /\ stage' = IF j.action.type = "terminate_process" THEN "scan"
                      ELSE IF Internal(j.action, j.context) THEN "internal" ELSE "spawn"
          /\ result' = Error("none")
  /\ UNCHANGED host

(* set_mode, a notification in the journal only, and capture_metadata, which   *)
(* alone can fail.                                                             *)
DoneInside ==
  /\ stage = "internal"
  /\ \/ Return(ActionOutcome(TRUE, Effect(action)))
     \/ action.type = "capture_evidence" /\ Return(Error("failed"))
  /\ UNCHANGED <<job, step, command, host, walk, exits>>

-------------------------------------------------------------------------------
(* run_raw_command: the task of the action                                     *)
StartReaders == reader' = [x \in Stream |-> "reading"]

Spawn ==
  LET c == Program(action, context)[step] IN
  /\ stage = "spawn" /\ c.allowed
  /\ child' = "running" /\ status' = "none" /\ lingering' = FALSE
  /\ pipe' = [x \in Stream |-> 0] /\ read' = [x \in Stream |-> 0]
  /\ written' = [x \in Stream |-> 0]
  /\ IF c.secret THEN stage' = "stdin" /\ reader' = [x \in Stream |-> "none"]
     ELSE stage' = "wait" /\ StartReaders
  /\ UNCHANGED <<job, step, result, host, walk, exits>>

(* The vault lacks something; or the tool is missing, the executable not as    *)
(* approved, or the process cannot be started.                                 *)
SpawnFails ==
  /\ stage = "spawn"
  /\ Return(Error(IF Program(action, context)[step].allowed THEN "failed" ELSE "refused"))
  /\ UNCHANGED <<job, step, command, host, walk, exits>>

WriteKey ==
  /\ stage = "stdin" /\ stage' = "wait" /\ StartReaders
  /\ UNCHANGED <<job, step, result, child, status, lingering, pipe, read, written,
                 host, walk, exits>>

(* A child that is dropped while it runs is killed.                            *)
Killed ==
  /\ child' = "exited"
  /\ IF child = "running"
     THEN status' = "failure" /\ lingering' \in BOOLEAN /\ exits' = Append(exits, "failure")
     ELSE UNCHANGED <<status, lingering, exits>>
  /\ UNCHANGED <<pipe, read, reader, written>>

(* The child has closed its standard input.                                    *)
WriteKeyFails ==
  /\ stage = "stdin" /\ Killed /\ Return(Error("failed"))
  /\ UNCHANGED <<job, step, host, walk>>

Waited ==
  /\ stage = "wait" /\ child = "exited" /\ stage' = "join"
  /\ UNCHANGED <<job, step, result, command, host, walk, exits>>

(* The child is left alone.                                                    *)
TimesOutMutant ==
  /\ stage = "wait" /\ Return(Error("failed"))
  /\ UNCHANGED <<job, step, command, host, walk, exits>>

(* There is no timeout.                                                        *)
TimesOutMutantNever == FALSE /\ UNCHANGED vars

(* The timeout, which kills the child, or an error of wait.                    *)
TimesOut ==
  /\ stage = "wait" /\ Killed /\ Return(Error("failed"))
  /\ UNCHANGED <<job, step, host, walk>>

Least(m, n) == IF m < n THEN m ELSE n
Truncated == \E x \in Stream : read[x] > OutputLimit

(* The rest of read_keyring after its first and its second command.            *)
KeyStep ==
  /\ status = "success" /\ read["stdout"] > 0
  /\ step = 2 => ~Truncated

(* Bytes of text, of white space, and the first and the other bytes of a       *)
(* sequence that is not UTF-8, such as a character that the limit cuts in two. *)
Byte == {"text", "space", "bad", "part"}

(* What read_limited returned for a stream.                                    *)
Captures(x) ==
  {b \in [1..Least(read[x], OutputLimit) -> Byte] :
     \A i \in DOMAIN b : b[i] = "part" => i > 1 /\ b[i - 1] \in {"bad", "part"}}

(* Each such sequence becomes one replacement character.                       *)
from_utf8_lossy(b) ==
  [i \in DOMAIN b |-> CASE b[i] = "bad" -> "replacement"
                        [] b[i] = "part" -> "nothing"
                        [] OTHER -> b[i]]

(* The text from its first to its last character that is not white space, each *)
(* at the place of the byte it comes from.  An empty text is as good as none.  *)
Within(t) ==
  {i \in DOMAIN t : \E a, z \in DOMAIN t : a <= i /\ i <= z /\ t[a] # "space" /\ t[z] # "space"}
trim(t) == [i \in Within(t) |-> t[i]]

CommandOutcome(captured) ==
  [ActionOutcome(status = "success", IF status = "success" THEN Effect(action) ELSE NoEffect)
     EXCEPT !.output = [x \in Stream |-> trim(from_utf8_lossy(captured[x]))],
            !.captured = captured,
            !.truncated = Truncated]

ReturnOutcome ==
  \E o \in Captures("stdout"), e \in Captures("stderr") :
    Return(CommandOutcome([x \in Stream |-> IF x = "stdout" THEN o ELSE e]))

(* The lookup is not asked whether it succeeded.                               *)
JoinedMutant ==
  /\ stage = "join" /\ \A x \in Stream : reader[x] = "done"
  /\ IF step = Len(Program(action, context))
     THEN ReturnOutcome /\ UNCHANGED step
     ELSE \/ read["stdout"] > 0 /\ step' = step + 1 /\ stage' = "spawn" /\ UNCHANGED result
          \/ Return(Error("failed")) /\ UNCHANGED step
  /\ UNCHANGED <<job, command, host, walk, exits>>

(* Both readers are done: the result of the last command is the outcome; the   *)
(* serial that the first one of a key printed may be malformed.                *)
Joined ==
  /\ stage = "join" /\ \A x \in Stream : reader[x] = "done"
  /\ IF step = Len(Program(action, context))
     THEN ReturnOutcome /\ UNCHANGED step
     ELSE \/ KeyStep /\ step' = step + 1 /\ stage' = "spawn" /\ UNCHANGED result
          \/ (KeyStep => step = 1) /\ Return(Error("failed")) /\ UNCHANGED step
  /\ UNCHANGED <<job, command, host, walk, exits>>

JoinFails ==
  /\ stage = "join"
  /\ reader["stdout"] = "failed" \/ (reader["stdout"] = "done" /\ reader["stderr"] = "failed")
  /\ Return(Error("failed"))
  /\ UNCHANGED <<job, step, command, host, walk, exits>>

-------------------------------------------------------------------------------
(* The child and its descendant, as long as the action is concerned with them  *)
Attended == stage \in {"stdin", "wait", "join"}

ChildWrites(x) ==
  /\ Attended /\ (child = "running" \/ lingering) /\ reader[x] \in {"none", "reading"}
  /\ pipe[x] < PipeCapacity /\ written[x] < MaxOutput
  /\ pipe' = [pipe EXCEPT ![x] = @ + 1] /\ written' = [written EXCEPT ![x] = @ + 1]
  /\ UNCHANGED <<call, child, status, lingering, read, reader, host, walk, exits>>

ChildExits ==
  /\ Attended /\ child = "running" /\ child' = "exited"
  /\ status' \in {"success", "failure"} /\ lingering' \in BOOLEAN
  /\ exits' = Append(exits, status')
  /\ UNCHANGED <<call, pipe, read, reader, written, host, walk>>

DescendantEnds ==
  /\ Attended /\ lingering /\ lingering' = FALSE
  /\ UNCHANGED <<call, child, status, pipe, read, reader, written, host, walk, exits>>

-------------------------------------------------------------------------------
(* read_limited takes up to OUTPUT_LIMIT.                                      *)
ReadMutant(x) ==
  /\ Attended /\ reader[x] = "reading" /\ pipe[x] > 0
  /\ pipe' = [pipe EXCEPT ![x] = @ - 1] /\ read' = [read EXCEPT ![x] = @ + 1]
  /\ reader' = [reader EXCEPT ![x] = IF read'[x] = OutputLimit THEN "done" ELSE @]
  /\ UNCHANGED <<call, child, status, lingering, written, host, walk, exits>>

(* read_limited takes up to OUTPUT_LIMIT + 1 and then closes the pipe.         *)
Read(x) ==
  /\ Attended /\ reader[x] = "reading" /\ pipe[x] > 0
  /\ pipe' = [pipe EXCEPT ![x] = @ - 1] /\ read' = [read EXCEPT ![x] = @ + 1]
  /\ reader' = [reader EXCEPT ![x] = IF read'[x] = OutputLimit + 1 THEN "done" ELSE @]
  /\ UNCHANGED <<call, child, status, lingering, written, host, walk, exits>>

(* The end of the output, when nobody can write any more.                      *)
ReadEnds(x) ==
  /\ Attended /\ reader[x] = "reading"
  /\ pipe[x] = 0 /\ child = "exited" /\ ~lingering
  /\ reader' = [reader EXCEPT ![x] = "done"]
  /\ UNCHANGED <<call, child, status, lingering, pipe, read, written, host, walk, exits>>

(* An error of the read, which nothing brings about.                           *)
ReadFails(x) ==
  /\ Attended /\ reader[x] = "reading"
  /\ reader' = [reader EXCEPT ![x] = "failed"]
  /\ UNCHANGED <<call, child, status, lingering, pipe, read, written, host, walk, exits>>

-------------------------------------------------------------------------------
(* terminate_named_processes                                                   *)
Visit ==
  /\ stage = "scan" /\ aim = 0 /\ cursor < Processes
  /\ cursor' = cursor + 1
  /\ aim' = IF host[cursor + 1] = "named" THEN cursor + 1 ELSE 0
  /\ UNCHANGED <<call, command, host, count, signalled, since, exits>>

Signal ==
  /\ stage = "scan" /\ aim # 0 /\ host[aim] # "gone"
  /\ count' = count + 1 /\ signalled' = signalled \cup {aim} /\ aim' = 0
  /\ UNCHANGED <<call, command, host, cursor, since, exits>>

(* A process that cannot be signalled ends the walk with what was done.        *)
SignalFailsMutant ==
  /\ stage = "scan" /\ aim # 0
  /\ Return([ActionOutcome(TRUE, NoEffect) EXCEPT !.count = count])
  /\ UNCHANGED <<job, step, command, host, walk, exits>>

(* The process has gone since its name was read, or may not be signalled: an   *)
(* error, and the walk is over.                                                *)
SignalFails ==
  /\ stage = "scan" /\ aim # 0 /\ Return(Error("failed"))
  /\ UNCHANGED <<job, step, command, host, walk, exits>>

ScanFails ==
  /\ stage = "scan" /\ aim = 0 /\ Return(Error("failed"))
  /\ UNCHANGED <<job, step, command, host, walk, exits>>

ScanEnds ==
  /\ stage = "scan" /\ aim = 0 /\ cursor = Processes
  /\ Return([ActionOutcome(TRUE, NoEffect) EXCEPT !.count = count])
  /\ UNCHANGED <<job, step, command, host, walk, exits>>

(* Processes end, start and change their names; this matters to the walk only. *)
HostChanges(q) ==
  /\ stage = "scan"
  /\ \E h \in {"named", "other", "gone"} \ {host[q]} : host' = [host EXCEPT ![q] = h]
  /\ since' = since \ {q}
  /\ UNCHANGED <<call, command, cursor, aim, count, signalled, exits>>

-------------------------------------------------------------------------------
Task ==
  \/ DoneInside \/ Spawn \/ SpawnFails \/ WriteKey \/ WriteKeyFails
  \/ Waited \/ TimesOut \/ Joined \/ JoinFails
  \/ Visit \/ Signal \/ SignalFails \/ ScanFails \/ ScanEnds

Next ==
  \/ \E j \in Job : execute(j)
  \/ Task
  \/ \E x \in Stream : ChildWrites(x) \/ Read(x) \/ ReadEnds(x) \/ ReadFails(x)
  \/ ChildExits \/ DescendantEnds
  \/ \E q \in Process : HostChanges(q)

(* The task and the readers go on when they can, and the timer of the timeout  *)
(* goes off.  Nothing is assumed of children, descendants and processes, nor   *)
(* that a read fails: a reader with nothing to read, whose pipe is held open,  *)
(* may wait for ever.                                                          *)
Spec ==
  /\ Init /\ [][Next]_vars /\ WF_vars(Task)
  /\ \A x \in Stream : WF_vars(Read(x) \/ ReadEnds(x))
-------------------------------------------------------------------------------
(* Values, and what the stages have in common: readers are at work as soon as  *)
(* the child is waited for, and no reader takes more than its limit.           *)
TypeOK ==
  /\ job \in Job /\ step \in 1..3
  /\ stage \in {"idle", "spawn", "stdin", "wait", "join", "scan", "internal"}
  /\ child \in {"none", "running", "exited"} /\ status \in {"none", "success", "failure"}
  /\ child = "running" => status = "none"
  /\ \A x \in Stream : /\ read[x] \in 0..(OutputLimit + 1) /\ pipe[x] \in 0..PipeCapacity
                        /\ read[x] + pipe[x] = written[x]
                        /\ stage \in {"wait", "join"} => reader[x] # "none"
  /\ stage = "join" => child = "exited"
  /\ cursor \in 0..Processes /\ aim \in {0, cursor} /\ count = Cardinality(signalled)

Outcome == stage = "idle" /\ result.kind = "outcome" /\ ~result.dry_run
Runs == action.type # "terminate_process" /\ ~Internal(action, context)

(* execute, unlock_vault and read_keyring: an action that runs commands        *)
(* reports success, and the daemon is told to apply its effect, only when      *)
(* every command of its program was run and exited with success.               *)
SuccessHonest ==
  Outcome /\ Runs /\ (result.success \/ result.effect # NoEffect) =>
    exits \in Seq({"success"}) /\ Len(exits) = Len(Program(action, context))

(* run_raw_command: no way out of it, the timeout, a failed write of the key   *)
(* and a failed reader included, leaves a child running behind an action that  *)
(* has returned.                                                               *)
NoChildLeft == stage \notin {"stdin", "wait"} => child # "running"

(* In bytes: a replacement character has three.                                *)
Size(t) ==
  Cardinality({i \in DOMAIN t : t[i] # "nothing"})
    + 2 * Cardinality({i \in DOMAIN t : t[i] = "replacement"})

(* The text t made of the bytes b has all but white space at its ends, says    *)
(* where b is not UTF-8, and is at most three times as long as b.              *)
Honest(b, t) ==
  /\ \A i \in DOMAIN b : i \notin DOMAIN t => b[i] = "space"
  /\ \A i \in DOMAIN t : i \in DOMAIN b /\ ((t[i] = b[i]) <=> b[i] \in {"text", "space"})
  /\ Size(t) <= 3 * Len(b)

(* read_limited and run_command: an outcome is marked as truncated if and only *)
(* if the bytes captured of some stream, at most OUTPUT_LIMIT, are not all     *)
(* that was written.  The text made of them drops nothing but white space at   *)
(* its ends, says where bytes were not UTF-8, and may be three times as long.  *)
OutputHonest ==
  Outcome /\ Runs =>
    /\ result.truncated <=> \E x \in Stream : Len(result.captured[x]) # written[x]
    /\ \A x \in Stream : /\ Len(result.captured[x]) <= OutputLimit
                          /\ Honest(result.captured[x], result.output[x])

(* validate_config and execute: what the loader accepts, the executor does not *)
(* refuse, but for the unlocking of a vault that has no keyring description.   *)
RefusedOnlyForKey ==
  result.kind = "refused" =>
    action.type = "unlock_vault" /\ vault(context, action.vault).keyring_description = Nothing

(* terminate_named_processes: when it reports success, every process that had  *)
(* the name from beginning to end was signalled, and the count is right.       *)
TerminateComplete ==
  Outcome /\ action.type = "terminate_process" =>
    since \subseteq signalled /\ result.count = Cardinality(signalled)

(* execute comes back: the timeout ends children that do not end, output that  *)
(* is too long ends its reader.  A descendant that never closes the output it  *)
(* inherited is excluded, for then execute does not come back: the readers are *)
(* joined without a timeout.                                                   *)
Returns == []<>(~lingering) => (stage # "idle" ~> stage = "idle")
===============================================================================
