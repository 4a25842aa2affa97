------------------------------- MODULE Secrets -------------------------------
(***************************************************************************)
(* The secrets of an application and where its scripts carry them          *)
(* (scripts/sync_secrets.py, generate_env.py, drift_check.py): from the    *)
(* vault of the team or a local values file to the environments of GitHub  *)
(* and to the developer's .env, which also holds what project.yaml         *)
(* declares. Fetches and pushes are commands that may fail; a failed fetch *)
(* and an absent secret look alike.                                        *)
(***************************************************************************)
EXTENDS Naturals, FiniteSets

CONSTANTS
  Targets,       \* server targets
  Deploy,        \* the target of the local .env
  Keys,          \* names in secrets.yaml
  Rules,         \* by key: [env, github, sourced: BOOLEAN, scope]
  Names,         \* names that project.yaml may declare
  Platform,      \* names generate_env computes itself
  Filtered,      \* names generate_env never writes: SSH_ and GITHUB_
  Environments,  \* environments that the repository has on GitHub
  Providers,     \* bound: the sources of secrets to explore
  Syncs,         \* processes running sync-secrets
  Loads,         \* bound: the loads to explore, each [operation -> calls]
  None

\* A filtered secret that is not excluded would be missing from every .env.
ASSUME SecretsAssumption ==
  /\ Deploy \in Targets /\ None \notin Nat
  /\ Names \cap Filtered = {} /\ \A k \in Keys \cap Filtered : ~Rules[k].env

VARIABLES
  provider,  \* "proton", "yaml" or "auto", with a values file but for "proton"
  vault,     \* by target and key: the value in the vault, or None
  values,    \* the same of the values file
  github,    \* by place and key: the value of the secret on GitHub, or None
  project,   \* project.yaml: [app, over], each [some names -> value]
  dotenv,    \* the file .env: [names -> value], or None
  made,      \* history: the project.yaml that .env was made from
  sync,      \* by process: where it is and what it holds
  left       \* bound: calls still to come, by operation

secretVars == <<provider, vault, values, github, project, dotenv, made, sync>>

Call(op) == left[op] > 0 /\ left' = [left EXCEPT ![op] = @ - 1]

NoSync == [pc |-> "idle", all |-> {}, rest |-> {}, target |-> None, file |-> None, todo |-> {},
           plan |-> {}, missing |-> {}, failed |-> {}, pushed |-> {}]

SecretsInit ==
  /\ provider \in Providers
  /\ vault = [t \in Targets |-> [k \in Keys |-> 1]]
  /\ values = [t \in Targets |-> [k \in Keys |-> 1]]
  /\ github = [p \in Targets \cup {"repo"} |-> [k \in Keys |-> None]]
  /\ project = [app |-> <<>>, over |-> <<>>]
  /\ dotenv = None /\ made = None
  /\ sync = [p \in Syncs |-> NoSync]
  /\ left \in Loads

-------------------------------------------------------------------------------
(* Resolving: resolve_secret_value. get_proton_secret gives up after its     *)
(* retries.                                                                  *)

Fetched(t, k) == {None, vault[t][k]}

Offers(t, k, file) ==
  CASE provider = "yaml" -> {file[k]}
    [] provider = "auto" /\ file[k] # None -> {file[k]}
    [] OTHER -> IF Rules[k].sourced THEN Fetched(t, k) ELSE {None}

\* All values are resolved before any write.
Preflight == provider # "proton"

Wanted == {k \in Keys : Rules[k].github /\ (provider = "proton" => Rules[k].sourced)}

Place(t, k) == IF Rules[k].scope = "env" THEN t ELSE "repo"

-------------------------------------------------------------------------------
(* generate_env and drift_check, for the local environment.                  *)

\* The dictionary of both, where upper wins.
Over(upper, lower) ==
  [n \in DOMAIN upper \cup DOMAIN lower |-> IF n \in DOMAIN upper THEN upper[n] ELSE lower[n]]

Empty == 0
Computed == 9
EnvKeys == {k \in Keys : Rules[k].env}

\* Secrets < app_env < env_overrides < the names the platform computes.
Lines(secrets) ==
  LET inputs == Over(project.over, Over(project.app, secrets)) IN
  Over([n \in Platform |-> Computed], [n \in DOMAIN inputs \ Filtered |-> inputs[n]])

\* A missing value is written as an empty one.
WriteEnv ==
  /\ \E secrets \in [EnvKeys -> UNION {Offers(Deploy, k, values[Deploy]) : k \in EnvKeys}] :
       /\ \A k \in EnvKeys : secrets[k] \in Offers(Deploy, k, values[Deploy])
       /\ dotenv' = Lines([k \in EnvKeys |-> IF secrets[k] = None THEN Empty ELSE secrets[k]])
  /\ made' = project

GenerateEnv ==
  /\ Call("env")
  /\ WriteEnv
  /\ UNCHANGED <<provider, vault, values, github, project, sync>>

\* A bug to be found: the overrides of the environment lose to app_env.
BugExpected == [n \in (DOMAIN project.app \cup DOMAIN project.over) \ Platform |->
                  Over(project.app, project.over)[n]]

Expected == [n \in (DOMAIN project.app \cup DOMAIN project.over) \ Platform |->
               Over(project.over, project.app)[n]]

Missing == (DOMAIN Expected \cup EnvKeys) \ DOMAIN dotenv
Changed == {n \in DOMAIN Expected \cap DOMAIN dotenv : dotenv[n] # Expected[n]}

\* check_env_drift has nothing to warn of.
Quiet == dotenv = None \/ (Missing = {} /\ Changed = {})

-------------------------------------------------------------------------------
(* sync-secrets: with no argument .env first, then every target; or one.     *)

Goes(p, s) == sync' = [sync EXCEPT ![p] = s]

BeginAll(p, bare) ==
  /\ sync[p].pc \notin {"verify", "next", "collect", "push"}
  /\ Call("sync")
  /\ Goes(p, [NoSync EXCEPT !.pc = "verify", !.all = Targets, !.rest = Targets])
  /\ IF bare THEN WriteEnv ELSE UNCHANGED <<dotenv, made>>
  /\ UNCHANGED <<provider, vault, values, github, project>>

BeginOne(p, t) ==
  /\ sync[p].pc \notin {"verify", "next", "collect", "push"}
  /\ Call("sync")
  /\ Goes(p, [NoSync EXCEPT !.pc = "next", !.all = {t}, !.rest = {t}])
  /\ UNCHANGED <<provider, vault, values, github, project, dotenv, made>>

\* Targets derived from project.yaml must be the environments; an explicit
\* list, or a listing that fails, gives a warning only.
Verify(p) ==
  /\ sync[p].pc = "verify"
  /\ \/ Goes(p, [sync[p] EXCEPT !.pc = "next"])
     \/ Targets # Environments /\ Goes(p, [sync[p] EXCEPT !.pc = "failed"])
  /\ UNCHANGED <<provider, vault, values, github, project, dotenv, made, left>>

\* The values file is read once for a target.
NextTarget(p) ==
  /\ sync[p].pc = "next"
  /\ IF sync[p].rest = {} THEN Goes(p, [sync[p] EXCEPT !.pc = "done"])
     ELSE \E t \in sync[p].rest :
            Goes(p, [sync[p] EXCEPT !.pc = "collect", !.target = t, !.rest = @ \ {t},
                                    !.file = values[t], !.todo = Wanted])
  /\ UNCHANGED <<provider, vault, values, github, project, dotenv, made, left>>

Collect(p) ==
  LET t == sync[p].target
      found(k) == Offers(t, k, sync[p].file) IN
  /\ sync[p].pc = "collect"
  /\ \E k \in sync[p].todo, v \in {None} \cup UNION {found(x) : x \in sync[p].todo} :
       /\ v \in found(k)
       /\ Goes(p, IF v = None
                  THEN [sync[p] EXCEPT !.todo = @ \ {k}, !.missing = @ \cup {k}]
                  ELSE [sync[p] EXCEPT !.todo = @ \ {k}, !.plan = @ \cup {<<t, k, v>>}])
  /\ UNCHANGED <<provider, vault, values, github, project, dotenv, made, left>>

Planned(s) == {x \in s.plan : x[1] = s.target}

\* A bug to be found: what is missing is left out in every mode.
BugCollected(p) ==
  /\ sync[p].pc = "collect" /\ sync[p].todo = {}
  /\ Goes(p, [sync[p] EXCEPT !.pc = "push", !.file = None, !.missing = {},
                             !.todo = Planned(sync[p])])
  /\ UNCHANGED <<provider, vault, values, github, project, dotenv, made, left>>

\* Without the preflight, what could not be fetched is left out.
Collected(p) ==
  LET s == sync[p] IN
  /\ s.pc = "collect" /\ s.todo = {}
  /\ Goes(p, IF Preflight /\ s.missing # {} THEN [s EXCEPT !.pc = "failed"]
             ELSE [s EXCEPT !.pc = "push", !.file = None, !.missing = {},
                            !.todo = Planned(s)])
  /\ UNCHANGED <<provider, vault, values, github, project, dotenv, made, left>>

\* gh secret set, up to three times; a failure does not stop the others.
Push(p) ==
  /\ sync[p].pc = "push"
  /\ \E x \in sync[p].todo :
       \/ /\ github' = [github EXCEPT ![Place(x[1], x[2])][x[2]] = x[3]]
          /\ Goes(p, [sync[p] EXCEPT !.todo = @ \ {x}, !.pushed = @ \cup {x}])
       \/ /\ Goes(p, [sync[p] EXCEPT !.todo = @ \ {x}, !.failed = @ \cup {x}])
          /\ UNCHANGED github
  /\ UNCHANGED <<provider, vault, values, project, dotenv, made, left>>

Pushed(p) ==
  /\ sync[p].pc = "push" /\ sync[p].todo = {}
  /\ Goes(p, [sync[p] EXCEPT !.pc = IF sync[p].failed # {} THEN "failed" ELSE "next"])
  /\ UNCHANGED <<provider, vault, values, github, project, dotenv, made, left>>

\* The operator stops it, or a command raises.
Killed(p) ==
  /\ sync[p].pc \in {"verify", "next", "collect", "push"}
  /\ Goes(p, [sync[p] EXCEPT !.pc = "killed"])
  /\ UNCHANGED <<provider, vault, values, github, project, dotenv, made, left>>

-------------------------------------------------------------------------------
(* Meanwhile people edit the vault, the values file and project.yaml.        *)

EditVault(t, k) ==
  /\ Call("edit")
  /\ vault' = [vault EXCEPT ![t][k] = IF @ = None THEN 1 ELSE None]
  /\ UNCHANGED <<provider, values, github, project, dotenv, made, sync>>

EditValues(t, k) ==
  /\ Preflight
  /\ Call("edit")
  /\ values' = [values EXCEPT ![t][k] = IF @ = None THEN 1 ELSE None]
  /\ UNCHANGED <<provider, vault, github, project, dotenv, made, sync>>

EditProject(part, n, v) ==
  /\ Call("project")
  /\ project' = [project EXCEPT ![part] =
       IF v = None THEN [m \in DOMAIN @ \ {n} |-> @[m]] ELSE Over([m \in {n} |-> v], @)]
  /\ UNCHANGED <<provider, vault, values, github, dotenv, made, sync>>

SecretsStep ==
  \/ GenerateEnv
  \/ \E p \in Syncs, bare \in BOOLEAN : BeginAll(p, bare)
  \/ \E p \in Syncs, t \in Targets : BeginOne(p, t)
  \/ \E p \in Syncs : Verify(p)
  \/ \E p \in Syncs : NextTarget(p)
  \/ \E p \in Syncs : Collect(p)
  \/ \E p \in Syncs : Collected(p)
  \/ \E p \in Syncs : Push(p)
  \/ \E p \in Syncs : Pushed(p)
  \/ \E p \in Syncs : Killed(p)
  \/ \E t \in Targets, k \in Keys : EditVault(t, k)
  \/ \E t \in Targets, k \in Keys : EditValues(t, k)
  \/ \E part \in {"app", "over"}, n \in Names, v \in {1, 2, None} : EditProject(part, n, v)
===============================================================================
