----------------------------- MODULE MCScripts -----------------------------
(* Small instances of Scripts for TLC.                                       *)
EXTENDS Scripts, TLC

CONSTANTS staging, production, TOKEN, SSH, DSN, LEVEL, PORT

Operations == {"sync", "env", "edit", "project", "provision", "run", "source", "traefik"}
Only(load) == load @@ [op \in Operations |-> 0]

\* SHARED-like secrets go to the repository; SSH keys not to .env.
SecretRules ==
  TOKEN :> [env |-> TRUE, github |-> TRUE, sourced |-> TRUE, scope |-> "env"]
  @@ SSH :> [env |-> FALSE, github |-> TRUE, sourced |-> TRUE, scope |-> "env"]
  @@ DSN :> [env |-> TRUE, github |-> TRUE, sourced |-> FALSE, scope |-> "repo"]

ScriptOf == staging :> "app" @@ production :> "server"

SyncLoad == {Only([sync |-> 2, edit |-> 1])}
EnvLoad == {Only([env |-> 2, project |-> 3, edit |-> 1])}
KeyLoad == {Only([provision |-> 3])}
RunLoad == {Only([run |-> 2, traefik |-> 1]), Only([run |-> 1, source |-> 3])}
StationLoads == SyncLoad \cup EnvLoad \cup KeyLoad \cup RunLoad
=============================================================================
