--------------------------- MODULE ActionValidation ---------------------------
(* The part of kovert-core/src/validation.rs that is about vaults and actions. *)
(*                                                                             *)
(* What a pattern admits is a set of Text: identifiers, key names, interface   *)
(* names, unit names, descriptions, digests and environment keys.              *)
EXTENDS Snapshot, Sequences

CONSTANT Text    \* [pattern -> the texts that match it]

IsAbsolute(path) == path # <<>> /\ path[1] = "/"
AbsoluteOption(path) == path # None /\ IsAbsolute(path)

Members(section) == {section[i].name : i \in DOMAIN section}

ValidVault(v) ==
  /\ IsAbsolute(v.path)
  /\ v.adapter = "gocryptfs" => AbsoluteOption(v.encrypted_path) /\ AbsoluteOption(v.mount_path)
  /\ v.keyring_description = None \/ v.keyring_description \in Text.description

(* The process of a terminate action need not be managed.                      *)
validate_actionMutant(a, c) ==
  /\ a.type \in {"lock_vault", "unlock_vault"} => a.vault \in Members(c.vaults)
  /\ a.type = "unmount" => IsAbsolute(a.path)
  /\ a.type = "exec" => /\ a.executable \in c.daemon.allowed_executables
                        /\ a.expected_sha256 \in Text.digest

validate_action(a, c) ==
  /\ a.type \in {"lock_vault", "unlock_vault"} => a.vault \in Members(c.vaults)
  /\ a.type = "unmount" => IsAbsolute(a.path)
  /\ a.type = "interface_state" => a.interface \in Text.interface
  /\ a.type = "service" => a.name \in Text.unit
  /\ a.type = "terminate_process" => a.process \in c.daemon.managed_processes
  /\ a.type = "capture_evidence" => /\ IsAbsolute(a.destination)
                                    /\ \A i \in DOMAIN a.paths : IsAbsolute(a.paths[i])
  /\ a.type = "set_mode" => a.mode \in Members(c.modes)
  /\ a.type = "exec" => /\ IsAbsolute(a.executable)
                        /\ a.executable \in c.daemon.allowed_executables
                        /\ a.expected_sha256 \in Text.digest
                        /\ a.environment \subseteq Text.environment_key
===============================================================================
