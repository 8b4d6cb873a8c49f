--------------------------- MODULE MCActionExecutor ---------------------------
(* Small instances of ActionExecutor: the actions of configurations that       *)
(* validate.                                                                   *)
EXTENDS ActionExecutor, Validation

SmallText ==
  [identifier |-> {"a", "b"}, key |-> {"K"}, interface |-> {"eth0"}, unit |-> {"u"},
   description |-> {"k"}, digest |-> {"x"}, environment_key |-> {"V"}]

Dir == <<"/", "d">>
Relative == <<"d">>
Fscrypt ==
  [name |-> "a", adapter |-> "fscrypt", path |-> Dir, encrypted_path |-> None,
   mount_path |-> None, keyring_description |-> "k"]
Gocryptfs ==
  [name |-> "b", adapter |-> "gocryptfs", path |-> Dir, encrypted_path |-> Dir,
   mount_path |-> Dir, keyring_description |-> None]

SomeActions ==
  {[type |-> "lock_vault", vault |-> "b"], [type |-> "unlock_vault", vault |-> "a"],
   [type |-> "unlock_vault", vault |-> "b"], [type |-> "unlock_vault", vault |-> "c"],
   [type |-> "network_isolation", enabled |-> TRUE],
   [type |-> "unmount", path |-> Relative], [type |-> "service", name |-> "/"],
   [type |-> "interface_state", interface |-> "/", up |-> TRUE],
   [type |-> "terminate_process", process |-> "sh"],
   [type |-> "terminate_process", process |-> "cc"],
   [type |-> "notify"], [type |-> "set_mode", mode |-> "a"],
   [type |-> "capture_evidence", paths |-> <<Dir>>, destination |-> Relative],
   [type |-> "capture_evidence", paths |-> <<Dir>>, destination |-> Dir],
   [type |-> "exec", executable |-> Dir, expected_sha256 |-> "x", environment |-> {}],
   [type |-> "exec", executable |-> <<"/", "e">>, expected_sha256 |-> "x", environment |-> {}]}

Config(dry_run, action_) ==
  [version |-> 1,
   daemon |-> [socket_path |-> <<"/", "s">>, state_path |-> <<"/", "t">>, poll_interval |-> 5,
               event_buffer |-> 16, allowed_executables |-> {Dir}, managed_processes |-> {"sh"},
               dry_run |-> dry_run, desktop_notifications |-> FALSE],
   modes |-> <<[name |-> "a", initial |-> TRUE]>>, vaults |-> <<Fscrypt, Gocryptfs>>,
   hotkeys |-> <<>>,
   rules |-> <<[id |-> "a", trigger |-> [type |-> "manual", name |-> "a"], when |-> None,
                actions |-> <<action_>>]>>]

Jobs ==
  {[context |-> executor_for(Config(d, a)), action |-> a] :
     <<d, a>> \in {da \in BOOLEAN \X SomeActions :
                     /\ validate_config(Config(da[1], da[2]))
                     /\ da[1] => da[2].type = "network_isolation"}}
===============================================================================
