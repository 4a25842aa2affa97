------------------------------- MODULE Scripts -------------------------------
(***************************************************************************)
(* The command-line scripts of an application's repository: the secrets,   *)
(* the SSH keys of its deployments and the developer's runner (Secrets,    *)
(* Provision, RunDev). They share the vault, project.yaml and .env.        *)
(***************************************************************************)
EXTENDS Provision, RunDev

vars == <<secretVars, left, provisionVars, devVars>>

Init == SecretsInit /\ ProvisionInit /\ RunDevInit

Next ==
  \/ SecretsStep /\ UNCHANGED <<provisionVars, devVars>>
  \/ ProvisionStep /\ UNCHANGED devVars
  \/ RunDevStep /\ UNCHANGED provisionVars

\* The runner's process goes on; nothing obliges the developer to do so.
Spec == Init /\ [][Next]_vars /\ WF_vars(DevStep /\ UNCHANGED provisionVars)

-------------------------------------------------------------------------------
\* With a values file nothing is written for a target unless every wanted
\* secret of it has a value (collect_github_secret_values: "before any write"),
\* and a run that reports success has pushed all of them to all its targets.
SyncIsWhole ==
  Preflight => \A p \in Syncs :
    LET s == sync[p]
        Has(set, t, k) == \E x \in set : x[1] = t /\ x[2] = k IN
    /\ \A x \in s.pushed, k \in Wanted : Has(s.plan, x[1], k)
    /\ s.pc = "done" => \A t \in s.all, k \in Wanted : Has(s.pushed, t, k)

\* The two halves agree on what .env should be: a file made from project.yaml as
\* it is gives no warning ("silent on a clean start", drift_check.py), and
\* without one, what is declared now is what generate-env would write.
DriftTellsTruth ==
  dotenv # None =>
    /\ made = project => Quiet
    /\ Quiet =>
         LET now == Lines([k \in EnvKeys |-> Empty])
             declared == DOMAIN project.app \cup DOMAIN project.over IN
         /\ DOMAIN now \subseteq DOMAIN dotenv
         /\ \A n \in declared : dotenv[n] = now[n]

\* Whatever earlier runs were interrupted or failed in, a script that reaches the
\* sync of the secrets has one pair in the vault and in the file it publishes
\* (provision_app: the key is never taken from a file of an earlier run).
PublishedIsVaults ==
  prov.pc = "github" =>
    LET t == prov.target IN
    /\ pubfile[t] = prov.public /\ vault[t][Ssh] = prov.public
    /\ public[t] \in {None, prov.public}

\* "Run a full 'vite build' host-side after every frontend source change" (--watch):
\* once the loop has built, later changes are served in the end, also those made
\* while it builds, or the loop has ended.
ChangesAreServed ==
  (dev.loop /\ dev.rebuilt /\ active.index # src)
    ~> (active = [index |-> src, assets |-> {src}] \/ dev.pc = "ended")

\* "4. Syncs GitHub secrets for the current app from Proton." (provision_app.py):
\* no run ends in an exception of its own.
ProvisioningCompletes == prov.pc # "crashed"

===============================================================================
