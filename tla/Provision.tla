------------------------------ MODULE Provision ------------------------------
(***************************************************************************)
(* New SSH keys for a deployment (scripts/provision_app.py and             *)
(* provision_server_access.py): a pair is made, its private half and its   *)
(* public half are stored in the vault, the public half is written to a    *)
(* file of the management repository, the secrets are synced to GitHub and *)
(* a workflow is told the public key. One operator runs one script at a    *)
(* time; every command may fail, also after it had its effect, and the     *)
(* operator runs the script again. A pair is known by its number.          *)
(***************************************************************************)
EXTENDS Secrets

CONSTANTS
  Ssh,        \* the key of the private half, SSH_PRIVATE_KEY
  Script,     \* by target: the script that provisions it, "app" or "server"
  MaxPair     \* bound: pairs that are ever made

ASSUME ProvisionAssumption == Ssh \in Keys /\ MaxPair \in Nat

VARIABLES
  public,   \* by target: the public half in the vault, or None
  pubfile,  \* by target: the file <key>.pub, or None
  pairs,    \* pairs made so far
  prov      \* the running script: [pc, target, force, private, public, writes]

provisionVars == <<public, pubfile, pairs, prov>>

NoScript == [pc |-> "idle", target |-> None, force |-> FALSE,
             private |-> None, public |-> None, writes |-> {}]

\* The vault starts with the private half of pair 1.
ProvisionInit ==
  /\ public = [t \in Targets |-> None]
  /\ pubfile = [t \in Targets |-> None]
  /\ pairs = 1
  /\ prov = NoScript

Prov(pc) == prov' = [prov EXCEPT !.pc = pc]
Fails == prov' = [NoScript EXCEPT !.pc = "failed"]

Provision(t, force) ==
  /\ prov.pc \in {"idle", "failed", "crashed"}
  /\ Call("provision")
  /\ prov' = [NoScript EXCEPT !.target = t, !.force = force, !.pc =
       IF Script[t] = "server" THEN "private"
       ELSE IF pubfile[t] # None /\ ~force THEN "reuse" ELSE "make"]
  /\ UNCHANGED <<secretVars, public, pubfile, pairs>>

-------------------------------------------------------------------------------
(* provision-app: a file of an earlier run is written again from the vault.  *)

\* A bug to be found: the public key of the file is taken for the vault's.
BugReuse ==
  LET t == prov.target IN
  /\ prov.pc = "reuse"
  /\ prov' = [prov EXCEPT !.public = pubfile[t], !.pc = "github"]
  /\ UNCHANGED <<secretVars, left, public, pubfile, pairs>>

Reuse ==
  LET t == prov.target IN
  /\ prov.pc = "reuse"
  /\ \E key \in {public[t], vault[t][Ssh], None} :
       IF key = None THEN Fails /\ UNCHANGED pubfile
       ELSE /\ prov' = [prov EXCEPT !.public = key, !.pc = "github"]
            /\ pubfile' = [pubfile EXCEPT ![t] = key]
  /\ UNCHANGED <<secretVars, left, public, pairs>>

\* The item is updated with both halves in one command.
Make ==
  LET t == prov.target IN
  /\ prov.pc = "make"
  /\ pairs < MaxPair
  /\ pairs' = pairs + 1
  /\ \/ /\ vault' = [vault EXCEPT ![t][Ssh] = pairs']
        /\ public' = [public EXCEPT ![t] = pairs']
        /\ \/ prov' = [prov EXCEPT !.public = pairs', !.pc = "file"]
           \/ Fails
     \/ Fails /\ UNCHANGED <<vault, public>>
  /\ UNCHANGED <<provider, values, github, project, dotenv, made, sync, left, pubfile>>

WriteFile ==
  /\ prov.pc = "file"
  /\ pubfile' = [pubfile EXCEPT ![prov.target] = prov.public]
  /\ Prov("github")
  /\ UNCHANGED <<secretVars, left, public, pairs>>

-------------------------------------------------------------------------------
(* provision-server-access: what the vault holds is kept, and completed; a   *)
(* fetch that fails passes for a key that is absent.                         *)

ReadPrivate ==
  /\ prov.pc = "private"
  /\ \E key \in Fetched(prov.target, Ssh) :
       IF prov.force \/ key = None
       THEN /\ pairs < MaxPair
            /\ pairs' = pairs + 1
            /\ prov' = [prov EXCEPT !.private = pairs', !.public = pairs', !.pc = "public",
                                    !.writes = {"private"}]
       ELSE /\ prov' = [prov EXCEPT !.private = key, !.public = key, !.pc = "public"]
            /\ UNCHANGED pairs
  /\ UNCHANGED <<secretVars, left, public, pubfile>>

ReadPublic ==
  /\ prov.pc = "public"
  /\ \E key \in {public[prov.target], None} :
       prov' = [prov EXCEPT !.pc = "infra",
                  !.writes = IF key = prov.public THEN @ ELSE @ \cup {"public"}]
  /\ UNCHANGED <<secretVars, left, public, pubfile, pairs>>

WriteInfra ==
  /\ prov.pc = "infra"
  /\ pubfile' = [pubfile EXCEPT ![prov.target] = prov.public]
  /\ Prov("vault")
  /\ UNCHANGED <<secretVars, left, public, pairs>>

UpdateVault ==
  LET t == prov.target IN
  /\ prov.pc = "vault"
  /\ \/ /\ vault' = IF "private" \in prov.writes
                    THEN [vault EXCEPT ![t][Ssh] = prov.private] ELSE vault
        /\ public' = IF "public" \in prov.writes
                     THEN [public EXCEPT ![t] = prov.public] ELSE public
        /\ \/ Prov("github")
           \/ prov.writes # {} /\ Fails
     \/ prov.writes # {} /\ Fails /\ UNCHANGED <<vault, public>>
  /\ UNCHANGED <<provider, values, github, project, dotenv, made, sync, left, pubfile, pairs>>

-------------------------------------------------------------------------------
\* Both scripts call sync_github without its argument has_proton: the call
\* raises TypeError, and the workflow that follows is never triggered.
SyncGithub ==
  /\ prov.pc = "github"
  /\ Prov("crashed")
  /\ UNCHANGED <<secretVars, left, public, pubfile, pairs>>

Interrupted ==
  /\ prov.pc \notin {"idle", "failed", "crashed"}
  /\ Fails
  /\ UNCHANGED <<secretVars, left, public, pubfile, pairs>>

ProvisionStep ==
  \/ \E t \in Targets, force \in BOOLEAN : Provision(t, force)
  \/ Reuse
  \/ Make
  \/ WriteFile
  \/ ReadPrivate
  \/ ReadPublic
  \/ WriteInfra
  \/ UpdateVault
  \/ SyncGithub
  \/ Interrupted
===============================================================================
