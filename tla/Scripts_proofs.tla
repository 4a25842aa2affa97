---------------------------- MODULE Scripts_proofs ----------------------------
(***************************************************************************)
(* What the scripts' secrets, .env file and SSH keys keep, for every set of *)
(* targets, secrets, rules and processes: the safety properties of Scripts.*)
(***************************************************************************)
EXTENDS Scripts, TLAPS

Fields == {"pc", "all", "rest", "target", "file", "todo", "plan", "missing", "failed", "pushed"}

\* The variables hold functions on these domains; EXCEPT relies on it.
Shaped ==
  /\ DOMAIN sync = Syncs
  /\ \A p \in Syncs : DOMAIN sync[p] = Fields

Has(set, t, k) == \E x \in set : x[1] = t /\ x[2] = k

Busy == {"collect", "push"}

\* With a values file: what one sync has planned and pushed at each step.
Whole(s) ==
  /\ \A x \in s.pushed, k \in Wanted : Has(s.plan, x[1], k)
  /\ s.pc = "collect" =>
       \A k \in Wanted : k \in s.todo \/ k \in s.missing \/ Has(s.plan, s.target, k)
  /\ s.pc = "push" =>
       /\ \A k \in Wanted : Has(s.plan, s.target, k)
       /\ s.todo \subseteq Planned(s)
       /\ Planned(s) \subseteq s.todo \cup s.pushed \cup s.failed
  /\ s.pc \in {"verify", "next", "collect", "push", "done"} =>
       \A t \in s.all \ s.rest, k \in Wanted :
         Has(s.pushed, t, k) \/ (s.pc \in Busy /\ t = s.target)
  /\ s.pc \in {"verify", "next", "collect"} => s.failed = {}
  /\ s.pc = "done" => s.rest = {}

SyncInv == Shaped /\ (Preflight => \A p \in Syncs : Whole(sync[p]))

-------------------------------------------------------------------------------
(* The syncs.                                                                *)

\* A sync that moves on has to be whole again; the others stay as they are.
LEMMA OneGoes ==
  ASSUME SyncInv, NEW p \in Syncs, NEW s, Goes(p, s), UNCHANGED provider,
         DOMAIN s = Fields, Preflight => Whole(s)
  PROVE  SyncInv'
<1>1. /\ DOMAIN sync' = Syncs /\ sync'[p] = s
      /\ \A q \in Syncs \ {p} : sync'[q] = sync[q]
  BY DEF Goes, SyncInv, Shaped
<1>2. Shaped'
  BY <1>1 DEF SyncInv, Shaped
<1>3. Preflight' = Preflight /\ Wanted' = Wanted
  BY DEF Preflight, Wanted
<1>4. ASSUME Preflight PROVE \A q \in Syncs : Whole(sync[q])'
  <2> TAKE q \in Syncs
  <2>1. Whole(sync[q])' <=> Whole(sync'[q])
    BY <1>3 DEF Whole, Planned
  <2>2. CASE q = p
    BY <1>1, <1>4, <2>1, <2>2
  <2>3. CASE q # p
    BY <1>1, <1>4, <2>1, <2>3 DEF SyncInv
  <2> QED BY <2>2, <2>3
<1> QED BY <1>2, <1>3, <1>4 DEF SyncInv

\* A step that touches neither the provider nor a sync keeps them.
LEMMA SyncStays ==
  ASSUME SyncInv, UNCHANGED <<provider, sync>>
  PROVE  SyncInv'
BY DEF SyncInv, Shaped, Preflight, Wanted, Whole, Planned

\* A sync begins with all its targets ahead of it.
LEMMA Begins ==
  ASSUME SyncInv, NEW p \in Syncs, NEW all, NEW pc \in {"verify", "next"}, UNCHANGED provider,
         Goes(p, [NoSync EXCEPT !.pc = pc, !.all = all, !.rest = all])
  PROVE  SyncInv'
<1> DEFINE s == [NoSync EXCEPT !.pc = pc, !.all = all, !.rest = all]
<1>1. /\ DOMAIN s = Fields /\ s.pc = pc /\ s.all = all /\ s.rest = all
      /\ s.pushed = {} /\ s.failed = {}
  BY DEF NoSync, Fields
<1>2. Goes(p, s)
  OBVIOUS
<1> HIDE DEF s
<1>3. Whole(s)
  BY <1>1 DEF Whole
<1> QED BY <1>1, <1>2, <1>3, OneGoes

\* Steps that leave a sync's plan alone and end in a state that promises
\* nothing, or in one that promises what held before.
LEMMA Leaves ==
  ASSUME SyncInv, NEW p \in Syncs, NEW pc, UNCHANGED provider,
         Goes(p, [sync[p] EXCEPT !.pc = pc]),
         \/ pc \in {"failed", "killed"}
         \/ sync[p].pc = "verify" /\ pc = "next"
         \/ sync[p].pc = "next" /\ pc = "done" /\ sync[p].rest = {}
  PROVE  SyncInv'
<1> DEFINE s == [sync[p] EXCEPT !.pc = pc]
<1>1. DOMAIN sync[p] = Fields
  BY DEF SyncInv, Shaped
<1>2. /\ DOMAIN s = Fields /\ s.pc = pc /\ s.all = sync[p].all /\ s.rest = sync[p].rest
      /\ s.plan = sync[p].plan /\ s.pushed = sync[p].pushed /\ s.failed = sync[p].failed
  BY <1>1 DEF Fields
<1>3. Goes(p, s)
  OBVIOUS
<1> HIDE DEF s
<1>4. ASSUME Whole(sync[p]) PROVE Whole(s)
  BY <1>2, <1>4 DEF Whole, Busy
<1>5. Preflight => Whole(s)
  BY <1>4 DEF SyncInv
<1> QED BY <1>2, <1>3, <1>5, OneGoes

\* It turns to its next target, or is over.
LEMMA NextTargetWhole ==
  ASSUME SyncInv, NEW p \in Syncs, NextTarget(p)
  PROVE  SyncInv'
<1>1. CASE sync[p].rest = {}
  BY <1>1, Leaves DEF NextTarget
<1>2. CASE sync[p].rest # {}
  <2>1. PICK t \in sync[p].rest :
          Goes(p, [sync[p] EXCEPT !.pc = "collect", !.target = t, !.rest = @ \ {t},
                                  !.file = values[t], !.todo = Wanted])
    BY <1>2 DEF NextTarget
  <2> DEFINE s == [sync[p] EXCEPT !.pc = "collect", !.target = t, !.rest = @ \ {t},
                                  !.file = values[t], !.todo = Wanted]
  <2>2. DOMAIN sync[p] = Fields
    BY DEF SyncInv, Shaped
  <2>3. /\ DOMAIN s = Fields /\ s.pc = "collect" /\ s.all = sync[p].all
        /\ s.rest = sync[p].rest \ {t} /\ s.target = t /\ s.todo = Wanted
        /\ s.plan = sync[p].plan /\ s.pushed = sync[p].pushed /\ s.failed = sync[p].failed
    BY <2>2 DEF Fields
  <2>4. Goes(p, s) /\ sync[p].pc = "next" /\ UNCHANGED provider
    BY <2>1 DEF NextTarget
  <2> HIDE DEF s
  <2>5. ASSUME Whole(sync[p]) PROVE Whole(s)
    BY <2>3, <2>4, <2>5 DEF Whole, Busy
  <2>6. Preflight => Whole(s)
    BY <2>5 DEF SyncInv
  <2> QED BY <2>3, <2>4, <2>6, OneGoes
<1> QED BY <1>1, <1>2

\* It reads one value of the target, or notes that it is missing.
LEMMA CollectWhole ==
  ASSUME SyncInv, NEW p \in Syncs, Collect(p)
  PROVE  SyncInv'
<1>1. DOMAIN sync[p] = Fields /\ UNCHANGED provider /\ sync[p].pc = "collect"
  BY DEF SyncInv, Shaped, Collect
<1>2. PICK k \in sync[p].todo : \E v :
        Goes(p, IF v = None
                THEN [sync[p] EXCEPT !.todo = @ \ {k}, !.missing = @ \cup {k}]
                ELSE [sync[p] EXCEPT !.todo = @ \ {k},
                                     !.plan = @ \cup {<<sync[p].target, k, v>>}])
  BY DEF Collect
<1>3. PICK v :
        Goes(p, IF v = None
                THEN [sync[p] EXCEPT !.todo = @ \ {k}, !.missing = @ \cup {k}]
                ELSE [sync[p] EXCEPT !.todo = @ \ {k},
                                     !.plan = @ \cup {<<sync[p].target, k, v>>}])
  BY <1>2
<1>4. CASE v = None
  <2> DEFINE s == [sync[p] EXCEPT !.todo = @ \ {k}, !.missing = @ \cup {k}]
  <2>1. /\ DOMAIN s = Fields /\ s.pc = "collect" /\ s.all = sync[p].all
        /\ s.rest = sync[p].rest /\ s.target = sync[p].target /\ s.todo = sync[p].todo \ {k}
        /\ s.missing = sync[p].missing \cup {k}
        /\ s.plan = sync[p].plan /\ s.pushed = sync[p].pushed /\ s.failed = sync[p].failed
    BY <1>1 DEF Fields
  <2>2. Goes(p, s)
    BY <1>3, <1>4
  <2> HIDE DEF s
  <2>3. ASSUME Whole(sync[p]) PROVE Whole(s)
    BY <1>1, <2>1, <2>3 DEF Whole, Busy
  <2>4. Preflight => Whole(s)
    BY <2>3 DEF SyncInv
  <2> QED BY <1>1, <2>1, <2>2, <2>4, OneGoes
<1>5. CASE v # None
  <2> DEFINE x == <<sync[p].target, k, v>>
             s == [sync[p] EXCEPT !.todo = @ \ {k}, !.plan = @ \cup {x}]
  <2>1. /\ DOMAIN s = Fields /\ s.pc = "collect" /\ s.all = sync[p].all
        /\ s.rest = sync[p].rest /\ s.target = sync[p].target /\ s.todo = sync[p].todo \ {k}
        /\ s.missing = sync[p].missing
        /\ s.plan = sync[p].plan \cup {x} /\ s.pushed = sync[p].pushed
        /\ s.failed = sync[p].failed
    BY <1>1 DEF Fields
  <2>2. Goes(p, s)
    BY <1>3, <1>5
  <2>3. Has(s.plan, s.target, k)
    <3>1. x[1] = sync[p].target /\ x[2] = k /\ x \in s.plan
      BY <2>1
    <3> QED BY <2>1, <3>1 DEF Has
  <2> HIDE DEF s, x
  <2>4. \A t, j : Has(sync[p].plan, t, j) => Has(s.plan, t, j)
    BY <2>1 DEF Has
  <2>5. ASSUME Whole(sync[p]) PROVE Whole(s)
    BY <1>1, <2>1, <2>3, <2>4, <2>5 DEF Whole, Busy
  <2>6. Preflight => Whole(s)
    BY <2>5 DEF SyncInv
  <2> QED BY <1>1, <2>1, <2>2, <2>6, OneGoes
<1> QED BY <1>4, <1>5

\* With every value read it stops where one is missing, else it plans what to push.
LEMMA CollectedWhole ==
  ASSUME SyncInv, NEW p \in Syncs, Collected(p)
  PROVE  SyncInv'
<1>1. DOMAIN sync[p] = Fields /\ UNCHANGED provider /\ sync[p].pc = "collect" /\ sync[p].todo = {}
  BY DEF SyncInv, Shaped, Collected
<1>2. CASE Preflight /\ sync[p].missing # {}
  BY <1>2, Leaves DEF Collected
<1>3. CASE ~ (Preflight /\ sync[p].missing # {})
  <2> DEFINE plan == Planned(sync[p])
             s == [sync[p] EXCEPT !.pc = "push", !.file = None, !.missing = {}, !.todo = plan]
  <2>1. /\ DOMAIN s = Fields /\ s.pc = "push" /\ s.all = sync[p].all
        /\ s.rest = sync[p].rest /\ s.target = sync[p].target /\ s.todo = plan
        /\ s.plan = sync[p].plan /\ s.pushed = sync[p].pushed
    BY <1>1 DEF Fields
  <2>2. Goes(p, s)
    BY <1>3 DEF Collected
  <2>3. Planned(s) = s.todo
    BY <2>1 DEF Planned
  <2> HIDE DEF s, plan
  <2>4. ASSUME Whole(sync[p]), Preflight PROVE Whole(s)
    BY <1>1, <1>3, <2>1, <2>3, <2>4 DEF Whole, Busy
  <2>5. Preflight => Whole(s)
    BY <2>4 DEF SyncInv
  <2> QED BY <1>1, <2>1, <2>2, <2>5, OneGoes
<1> QED BY <1>2, <1>3

\* It pushes one value, or fails half way.
LEMMA PushWhole ==
  ASSUME SyncInv, NEW p \in Syncs, Push(p)
  PROVE  SyncInv'
<1>1. DOMAIN sync[p] = Fields /\ UNCHANGED provider /\ sync[p].pc = "push"
  BY DEF SyncInv, Shaped, Push
<1>2. PICK x \in sync[p].todo :
        \/ Goes(p, [sync[p] EXCEPT !.todo = @ \ {x}, !.pushed = @ \cup {x}])
        \/ Goes(p, [sync[p] EXCEPT !.todo = @ \ {x}, !.failed = @ \cup {x}])
  BY DEF Push
<1>3. ASSUME Goes(p, [sync[p] EXCEPT !.todo = @ \ {x}, !.pushed = @ \cup {x}])
      PROVE  SyncInv'
  <2> DEFINE s == [sync[p] EXCEPT !.todo = @ \ {x}, !.pushed = @ \cup {x}]
  <2>1. /\ DOMAIN s = Fields /\ s.pc = "push" /\ s.all = sync[p].all
        /\ s.rest = sync[p].rest /\ s.target = sync[p].target /\ s.todo = sync[p].todo \ {x}
        /\ s.plan = sync[p].plan /\ s.pushed = sync[p].pushed \cup {x}
        /\ s.failed = sync[p].failed
    BY <1>1 DEF Fields
  <2>2. Goes(p, s)
    BY <1>3
  <2>3. Planned(s) = Planned(sync[p])
    BY <2>1 DEF Planned
  <2> HIDE DEF s
  <2>4. \A t, k : Has(sync[p].pushed, t, k) => Has(s.pushed, t, k)
    BY <2>1 DEF Has
  <2>5. ASSUME Whole(sync[p]) PROVE Whole(s)
    <3>1. x \in Planned(sync[p])
      BY <1>1, <2>5 DEF Whole
    <3>2. x[1] = s.target
      BY <2>1, <3>1 DEF Planned
    <3>3. \A k \in Wanted : Has(s.plan, x[1], k)
      BY <1>1, <2>1, <2>5, <3>2 DEF Whole
    <3>4. \A y \in s.pushed, k \in Wanted : Has(s.plan, y[1], k)
      BY <2>1, <2>5, <3>3 DEF Whole
    <3>5. s.todo \subseteq Planned(s) /\ Planned(s) \subseteq s.todo \cup s.pushed \cup s.failed
      BY <1>1, <2>1, <2>3, <2>5 DEF Whole
    <3> QED BY <1>1, <2>1, <2>4, <2>5, <3>4, <3>5 DEF Whole, Busy
  <2>6. Preflight => Whole(s)
    BY <2>5 DEF SyncInv
  <2> QED BY <1>1, <2>1, <2>2, <2>6, OneGoes
<1>4. ASSUME Goes(p, [sync[p] EXCEPT !.todo = @ \ {x}, !.failed = @ \cup {x}])
      PROVE  SyncInv'
  <2> DEFINE s == [sync[p] EXCEPT !.todo = @ \ {x}, !.failed = @ \cup {x}]
  <2>1. /\ DOMAIN s = Fields /\ s.pc = "push" /\ s.all = sync[p].all
        /\ s.rest = sync[p].rest /\ s.target = sync[p].target /\ s.todo = sync[p].todo \ {x}
        /\ s.plan = sync[p].plan /\ s.pushed = sync[p].pushed
        /\ s.failed = sync[p].failed \cup {x}
    BY <1>1 DEF Fields
  <2>2. Goes(p, s)
    BY <1>4
  <2>3. Planned(s) = Planned(sync[p])
    BY <2>1 DEF Planned
  <2> HIDE DEF s
  <2>5. ASSUME Whole(sync[p]) PROVE Whole(s)
    BY <1>1, <2>1, <2>3, <2>5 DEF Whole, Busy
  <2>6. Preflight => Whole(s)
    BY <2>5 DEF SyncInv
  <2> QED BY <1>1, <2>1, <2>2, <2>6, OneGoes
<1> QED BY <1>2, <1>3, <1>4

\* With every value pushed the target is whole.
LEMMA PushedWhole ==
  ASSUME SyncInv, NEW p \in Syncs, Pushed(p)
  PROVE  SyncInv'
<1>1. /\ DOMAIN sync[p] = Fields /\ UNCHANGED provider
      /\ sync[p].pc = "push" /\ sync[p].todo = {}
  BY DEF SyncInv, Shaped, Pushed
<1>2. CASE sync[p].failed # {}
  BY <1>1, <1>2, Leaves DEF Pushed
<1>3. CASE sync[p].failed = {}
  <2> DEFINE s == [sync[p] EXCEPT !.pc = "next"]
  <2>1. /\ DOMAIN s = Fields /\ s.pc = "next" /\ s.all = sync[p].all
        /\ s.rest = sync[p].rest /\ s.plan = sync[p].plan /\ s.pushed = sync[p].pushed
        /\ s.failed = {}
    BY <1>1, <1>3 DEF Fields
  <2>2. Goes(p, s)
    BY <1>3 DEF Pushed
  <2> HIDE DEF s
  <2>3. ASSUME Whole(sync[p]) PROVE Whole(s)
    <3>1. Planned(sync[p]) \subseteq s.pushed
      BY <1>1, <1>3, <2>1, <2>3 DEF Whole
    <3>2. \A k \in Wanted : Has(s.pushed, sync[p].target, k)
      BY <1>1, <2>3, <3>1 DEF Whole, Has, Planned
    <3> QED BY <1>1, <2>1, <2>3, <3>2 DEF Whole, Busy
  <2>4. Preflight => Whole(s)
    BY <2>3 DEF SyncInv
  <2> QED BY <1>1, <2>1, <2>2, <2>4, OneGoes
<1> QED BY <1>2, <1>3

\* One step per action of the syncs; the other scripts leave them alone.
LEMMA SyncInvKept == SyncInv /\ [Next]_vars => SyncInv'
<1> SUFFICES ASSUME SyncInv, [Next]_vars PROVE SyncInv'
  OBVIOUS
<1>1. ASSUME NEW p \in Syncs, NEW bare \in BOOLEAN, BeginAll(p, bare) PROVE SyncInv'
  BY <1>1, Begins DEF BeginAll
<1>2. ASSUME NEW p \in Syncs, NEW t \in Targets, BeginOne(p, t) PROVE SyncInv'
  BY <1>2, Begins DEF BeginOne
<1>3. ASSUME NEW p \in Syncs, Verify(p) PROVE SyncInv'
  BY <1>3, Leaves DEF Verify
<1>4. ASSUME NEW p \in Syncs, Killed(p) PROVE SyncInv'
  BY <1>4, Leaves DEF Killed
<1>5. ASSUME UNCHANGED <<provider, sync>> PROVE SyncInv'
  BY <1>5, SyncStays
<1>6. CASE SecretsStep
  <2>1. CASE GenerateEnv
    BY <1>5, <2>1 DEF GenerateEnv
  <2>2. ASSUME NEW t \in Targets, NEW k \in Keys, EditVault(t, k) \/ EditValues(t, k)
        PROVE  SyncInv'
    BY <1>5, <2>2 DEF EditVault, EditValues
  <2>3. ASSUME NEW part, NEW n, NEW v, EditProject(part, n, v) PROVE SyncInv'
    BY <1>5, <2>3 DEF EditProject
  <2> QED
    BY <1>1, <1>2, <1>3, <1>4, <1>6, <2>1, <2>2, <2>3, NextTargetWhole, CollectWhole,
       CollectedWhole, PushWhole, PushedWhole DEF SecretsStep
<1>7. ProvisionStep => UNCHANGED <<provider, sync>>
  BY DEF ProvisionStep, Provision, Reuse, Make, WriteFile, ReadPrivate, ReadPublic, WriteInfra,
         UpdateVault, SyncGithub, Interrupted, secretVars
<1>8. RunDevStep => UNCHANGED <<provider, sync>>
  <2>1. DevStep => UNCHANGED <<provider, sync>>
    BY DEF DevStep, DevEnv, InspectTraefik, RemoveTraefik, RemoveStale, BuildImages, CleanNext,
           Compile, SyncStatic, SyncIndex, Up, Maintain, Snapshot, Poll, Debounce, Stop, secretVars
  <2> QED BY <2>1 DEF RunDevStep, Start, Interrupt, EditSource, OtherTraefik, secretVars
<1>9. UNCHANGED vars => UNCHANGED <<provider, sync>>
  BY DEF vars, secretVars
<1> QED BY <1>5, <1>6, <1>7, <1>8, <1>9 DEF Next

\* collect_github_secret_values: with a values file nothing is written for a
\* target before every wanted secret of it has a value, and a sync that reports
\* success has pushed all of them to all its targets (sync_secrets.py).
THEOREM SyncsAreWhole == Spec => []SyncIsWhole
<1>1. Init => SyncInv
  BY DEF Init, SecretsInit, SyncInv, Shaped, Whole, NoSync, Fields
<1>2. SyncInv => SyncIsWhole
  <2> SUFFICES ASSUME SyncInv, Preflight, NEW p \in Syncs
               PROVE  /\ \A x \in sync[p].pushed, k \in Wanted : Has(sync[p].plan, x[1], k)
                      /\ sync[p].pc = "done" =>
                           \A t \in sync[p].all, k \in Wanted : Has(sync[p].pushed, t, k)
    BY DEF SyncIsWhole, Has
  <2> QED BY DEF SyncInv, Whole, Busy
<1> QED BY <1>1, <1>2, SyncInvKept, PTL DEF Spec

-------------------------------------------------------------------------------
(* The .env file.                                                            *)

\* What generate_env wrote: the lines of some secrets and of a project.yaml.
Written(from, secrets) ==
  LET inputs == Over(from.over, Over(from.app, secrets)) IN
  Over([n \in Platform |-> Computed], [n \in DOMAIN inputs \ Filtered |-> inputs[n]])

Declares(from) ==
  /\ DOMAIN from = {"app", "over"}
  /\ DOMAIN from.app \subseteq Names /\ DOMAIN from.over \subseteq Names

DriftInv ==
  /\ Declares(project)
  /\ dotenv # None =>
       \E secrets : /\ DOMAIN secrets = EnvKeys
                    /\ Declares(made)
                    /\ dotenv = Written(made, secrets)

\* The writer of the .env file writes the keys of both sources.
LEMMA WritesEnv ==
  ASSUME DriftInv, WriteEnv, UNCHANGED project
  PROVE  DriftInv'
<1>1. PICK secrets : /\ DOMAIN secrets = EnvKeys
                     /\ dotenv' = Lines(secrets)
  <2>1. PICK found : dotenv' = Lines([k \in EnvKeys |-> IF found[k] = None THEN Empty ELSE found[k]])
    BY DEF WriteEnv
  <2> WITNESS [k \in EnvKeys |-> IF found[k] = None THEN Empty ELSE found[k]]
  <2> QED BY <2>1
<1>2. dotenv' = Written(made', secrets)
  BY <1>1 DEF WriteEnv, Lines, Written
<1> QED BY <1>1, <1>2 DEF DriftInv, WriteEnv, Declares, EnvKeys

\* Somebody edits a source of the project.
LEMMA EditsProject ==
  ASSUME DriftInv, NEW part \in {"app", "over"}, NEW n \in Names, NEW v, EditProject(part, n, v)
  PROVE  DriftInv'
<1> DEFINE old == project[part]
           new == IF v = None THEN [m \in DOMAIN old \ {n} |-> old[m]]
                  ELSE Over([m \in {n} |-> v], old)
<1>1. DOMAIN project = {"app", "over"} /\ DOMAIN old \subseteq Names
  BY DEF DriftInv, Declares
<1>2. project' = [project EXCEPT ![part] = new]
  BY DEF EditProject
<1>3. DOMAIN new \subseteq Names
  BY <1>1 DEF Over
<1> HIDE DEF new, old
<1>4. Declares(project)'
  <2>1. DOMAIN project' = {"app", "over"}
    BY <1>1, <1>2
  <2>2. project'[part] = new
    BY <1>1, <1>2
  <2>3. \A q \in {"app", "over"} \ {part} : project'[q] = project[q]
    BY <1>1, <1>2
  <2>4. \A q \in {"app", "over"} : DOMAIN project'[q] \subseteq Names
    BY <1>3, <2>2, <2>3 DEF DriftInv, Declares
  <2> QED BY <2>1, <2>4 DEF Declares
<1>5. UNCHANGED <<dotenv, made>>
  BY DEF EditProject
<1> QED BY <1>4, <1>5 DEF DriftInv, EnvKeys

\* Every step keeps what the drift check relies on.
LEMMA DriftInvKept == DriftInv /\ [Next]_vars => DriftInv'
<1> SUFFICES ASSUME DriftInv, [Next]_vars PROVE DriftInv'
  OBVIOUS
<1>1. ASSUME UNCHANGED <<project, dotenv, made>> PROVE DriftInv'
  BY <1>1 DEF DriftInv, EnvKeys
<1>2. ASSUME UNCHANGED project, WriteEnv \/ UNCHANGED <<dotenv, made>> PROVE DriftInv'
  BY <1>1, <1>2, WritesEnv
<1>3. CASE SecretsStep
  <2>1. ASSUME NEW part \in {"app", "over"}, NEW n \in Names, NEW v \in {1, 2, None},
               EditProject(part, n, v)
        PROVE  DriftInv'
    BY <2>1, EditsProject
  <2>2. CASE GenerateEnv
    BY <1>2, <2>2 DEF GenerateEnv
  <2>3. ASSUME NEW p \in Syncs, NEW bare \in BOOLEAN, BeginAll(p, bare) PROVE DriftInv'
    BY <1>2, <2>3 DEF BeginAll
  <2>4. ASSUME NEW p \in Syncs, NEW t \in Targets, BeginOne(p, t) PROVE DriftInv'
    BY <1>1, <2>4 DEF BeginOne
  <2>5. ASSUME NEW p \in Syncs,
               \/ Verify(p) \/ NextTarget(p) \/ Collect(p) \/ Collected(p)
               \/ Push(p) \/ Pushed(p) \/ Killed(p)
        PROVE  DriftInv'
    BY <1>1, <2>5 DEF Verify, NextTarget, Collect, Collected, Push, Pushed, Killed
  <2>6. ASSUME NEW t \in Targets, NEW k \in Keys, EditVault(t, k) \/ EditValues(t, k)
        PROVE  DriftInv'
    BY <1>1, <2>6 DEF EditVault, EditValues
  <2> QED BY <1>3, <2>1, <2>2, <2>3, <2>4, <2>5, <2>6 DEF SecretsStep
<1>4. ProvisionStep => UNCHANGED <<project, dotenv, made>>
  BY DEF ProvisionStep, Provision, Reuse, Make, WriteFile, ReadPrivate, ReadPublic, WriteInfra,
         UpdateVault, SyncGithub, Interrupted, secretVars
<1>5. RunDevStep => UNCHANGED project /\ (WriteEnv \/ UNCHANGED <<dotenv, made>>)
  <2>1. DevStep => UNCHANGED project /\ (WriteEnv \/ UNCHANGED <<dotenv, made>>)
    BY DEF DevStep, DevEnv, InspectTraefik, RemoveTraefik, RemoveStale, BuildImages, CleanNext,
           Compile, SyncStatic, SyncIndex, Up, Maintain, Snapshot, Poll, Debounce, Stop, secretVars
  <2> QED BY <2>1 DEF RunDevStep, Start, Interrupt, EditSource, OtherTraefik, secretVars
<1>6. UNCHANGED vars => UNCHANGED <<project, dotenv, made>>
  BY DEF vars, secretVars
<1> QED BY <1>1, <1>2, <1>3, <1>4, <1>5, <1>6 DEF Next

\* A file that was made from project.yaml as it is now gives no warning.
LEMMA CleanIsQuiet ==
  ASSUME DriftInv, dotenv # None, made = project
  PROVE  Quiet
<1>1. PICK secrets : /\ DOMAIN secrets = EnvKeys
                     /\ Declares(project)
                     /\ dotenv = Written(project, secrets)
  BY DEF DriftInv
<1> DEFINE app == project.app
           over == project.over
<1>2. /\ DOMAIN app \subseteq Names /\ DOMAIN over \subseteq Names /\ Names \cap Filtered = {}
      /\ EnvKeys \cap Filtered = {}
  BY <1>1, SecretsAssumption DEF Declares, EnvKeys
<1>3. DOMAIN dotenv = Platform \cup ((DOMAIN over \cup DOMAIN app \cup EnvKeys) \ Filtered)
  BY <1>1 DEF Written, Over
<1>4. \A n \in (DOMAIN over \cup DOMAIN app) \ Platform : dotenv[n] = Over(over, app)[n]
  BY <1>1, <1>2 DEF Written, Over
<1>5. /\ DOMAIN Expected = (DOMAIN app \cup DOMAIN over) \ Platform
      /\ \A n \in (DOMAIN app \cup DOMAIN over) \ Platform : Expected[n] = Over(over, app)[n]
  BY DEF Expected
<1> HIDE DEF app, over
<1>6. Missing = {}
  BY <1>2, <1>3, <1>5 DEF Missing
<1>7. Changed = {}
  BY <1>4, <1>5 DEF Changed
<1> QED BY <1>6, <1>7 DEF Quiet

\* Without a warning, .env has what is declared now.
LEMMA QuietIsClean ==
  ASSUME DriftInv, dotenv # None, Quiet
  PROVE  LET now == Lines([k \in EnvKeys |-> Empty])
         IN  /\ DOMAIN now \subseteq DOMAIN dotenv
             /\ \A n \in DOMAIN project.app \cup DOMAIN project.over : dotenv[n] = now[n]
<1> DEFINE app == project.app
           over == project.over
           now == Lines([k \in EnvKeys |-> Empty])
<1>1. PICK secrets : dotenv = Written(made, secrets)
  BY DEF DriftInv
<1>2. Platform \subseteq DOMAIN dotenv /\ \A n \in Platform : dotenv[n] = Computed
  BY <1>1 DEF Written, Over
<1>3. DOMAIN app \subseteq Names /\ DOMAIN over \subseteq Names /\ Names \cap Filtered = {}
  BY SecretsAssumption DEF DriftInv, Declares
<1>4. DOMAIN now = Platform \cup ((DOMAIN over \cup DOMAIN app \cup EnvKeys) \ Filtered)
  BY DEF Lines, Over
<1>5. /\ \A n \in Platform : now[n] = Computed
      /\ \A n \in (DOMAIN app \cup DOMAIN over) \ Platform : now[n] = Over(over, app)[n]
  BY <1>3 DEF Lines, Over
<1>6. /\ DOMAIN Expected = (DOMAIN app \cup DOMAIN over) \ Platform
      /\ \A n \in (DOMAIN app \cup DOMAIN over) \ Platform : Expected[n] = Over(over, app)[n]
  BY DEF Expected
<1> HIDE DEF app, over, now
<1>7. Missing = {} /\ Changed = {}
  BY DEF Quiet
<1>8. DOMAIN now \subseteq DOMAIN dotenv
  BY <1>2, <1>4, <1>6, <1>7 DEF Missing
<1>9. ASSUME NEW n \in DOMAIN app \cup DOMAIN over PROVE dotenv[n] = now[n]
  <2>1. CASE n \in Platform
    BY <1>2, <1>5, <2>1
  <2>2. CASE n \notin Platform
    <3>1. n \in DOMAIN Expected \cap DOMAIN dotenv
      BY <1>6, <1>7, <2>2 DEF Missing
    <3>2. dotenv[n] = Expected[n]
      BY <1>7, <3>1 DEF Changed
    <3> QED BY <1>5, <1>6, <2>2, <3>2
  <2> QED BY <2>1, <2>2
<1> QED BY <1>8, <1>9 DEF app, over, now

\* check_env_drift and generate_env agree on what .env should be: a file made
\* from project.yaml as it is gives no warning, and a silent check means that
\* everything declared now is in the file with its value (drift_check.py).
THEOREM DriftIsTold == Spec => []DriftTellsTruth
<1>1. Init => DriftInv
  BY DEF Init, SecretsInit, DriftInv, Declares
<1>2. DriftInv => DriftTellsTruth
  BY CleanIsQuiet, QuietIsClean DEF DriftTellsTruth
<1> QED BY <1>1, <1>2, DriftInvKept, PTL DEF Spec

-------------------------------------------------------------------------------
(* The SSH keys of a deployment.                                             *)

\* Nobody edits the vault by hand where keys are provisioned: an edit between
\* two steps of a script would separate the halves, whatever the script does.
OneHand ==
  \A load \in Loads : /\ {"edit", "provision"} \subseteq DOMAIN load
                      /\ load["edit"] = 0 \/ load["provision"] = 0

ScriptFields == {"pc", "target", "force", "private", "public", "writes"}
Rests == {"idle", "failed", "crashed"}

VaultShaped ==
  /\ DOMAIN vault = Targets /\ \A t \in Targets : DOMAIN vault[t] = Keys
  /\ DOMAIN public = Targets /\ DOMAIN pubfile = Targets
  /\ DOMAIN prov = ScriptFields
  /\ {"edit", "provision"} \subseteq DOMAIN left
  /\ pairs \in Nat

\* Either the vault is edited or keys are provisioned.
Apart ==
  \/ left["edit"] = 0
  \/ left["provision"] = 0 /\ prov.pc = "idle" /\ \A t \in Targets : public[t] = None

\* Between runs, and at every step of one: how far the pair has got.
HalvesAgree == \A t \in Targets : public[t] \in {None, vault[t][Ssh]}
PairOnItsWay ==
  LET t == prov.target IN
  prov.pc \notin Rests =>
    /\ t \in Targets
    /\ prov.pc = "file" => vault[t][Ssh] = prov.public
    /\ prov.pc \in {"public", "infra", "vault"} =>
         /\ prov.private = prov.public /\ prov.public # None
         /\ "private" \in prov.writes \/ vault[t][Ssh] = prov.public
    /\ prov.pc \in {"infra", "vault"} => "public" \in prov.writes \/ public[t] = prov.public
    /\ prov.pc = "vault" => pubfile[t] = prov.public
    /\ prov.pc = "github" => pubfile[t] = prov.public /\ vault[t][Ssh] = prov.public

KeyInv == VaultShaped /\ Apart /\ HalvesAgree /\ PairOnItsWay

\* A script that ends or fails leaves only the agreement of the halves.
LEMMA Failing ==
  ASSUME KeyInv, Fails, UNCHANGED <<left, pubfile>>, left["edit"] = 0,
         DOMAIN vault' = Targets, \A t \in Targets : DOMAIN vault'[t] = Keys,
         DOMAIN public' = Targets, pairs' \in Nat, HalvesAgree'
  PROVE  KeyInv'
<1>1. DOMAIN prov' = ScriptFields /\ prov'.pc = "failed"
  BY DEF Fails, NoScript, ScriptFields
<1> QED BY <1>1 DEF KeyInv, VaultShaped, Apart, PairOnItsWay, Rests

\* A step that touches no vault, file or key pair keeps them.
LEMMA KeyStays ==
  ASSUME KeyInv, UNCHANGED <<vault, public, pubfile, pairs, prov, left>>
  PROVE  KeyInv'
BY DEF KeyInv, VaultShaped, Apart, HalvesAgree, PairOnItsWay

\* A call of another operation.
LEMMA OtherCalls ==
  ASSUME KeyInv, UNCHANGED <<vault, public, pubfile, pairs, prov>>,
         NEW op, op \notin {"edit", "provision"}, Call(op)
  PROVE  KeyInv'
<1>1. left'["edit"] = left["edit"] /\ left'["provision"] = left["provision"]
      /\ DOMAIN left' = DOMAIN left
  BY DEF Call, KeyInv, VaultShaped
<1> QED BY <1>1 DEF KeyInv, VaultShaped, Apart, HalvesAgree, PairOnItsWay

\* An edit of the values file.
LEMMA OtherEdits ==
  ASSUME KeyInv, UNCHANGED <<vault, public, pubfile, pairs, prov>>, Call("edit")
  PROVE  KeyInv'
<1>1. /\ left["edit"] # 0
      /\ left'["provision"] = left["provision"] /\ DOMAIN left' = DOMAIN left
  BY DEF Call, KeyInv, VaultShaped
<1>2. left["provision"] = 0 /\ prov.pc = "idle" /\ \A u \in Targets : public[u] = None
  BY <1>1 DEF KeyInv, Apart
<1> QED BY <1>1, <1>2 DEF KeyInv, VaultShaped, Apart, HalvesAgree, PairOnItsWay

\* A hand edits a vault: then no keys are provisioned.
LEMMA EditsVault ==
  ASSUME KeyInv, NEW t \in Targets, NEW k \in Keys, EditVault(t, k),
         UNCHANGED <<public, pubfile, pairs, prov>>
  PROVE  KeyInv'
<1>1. left["edit"] # 0
  BY DEF EditVault, Call, KeyInv, VaultShaped
<1>2. left["provision"] = 0 /\ prov.pc = "idle" /\ \A u \in Targets : public[u] = None
  BY <1>1 DEF KeyInv, Apart
<1>3. left'["provision"] = 0 /\ DOMAIN left' = DOMAIN left
  BY <1>2 DEF EditVault, Call, KeyInv, VaultShaped
<1>4. DOMAIN vault' = Targets /\ \A u \in Targets : DOMAIN vault'[u] = Keys
  BY DEF EditVault, KeyInv, VaultShaped
<1> QED BY <1>2, <1>3, <1>4
        DEF KeyInv, VaultShaped, Apart, HalvesAgree, PairOnItsWay, Rests

\* A script that is running keeps the vault to itself.
LEMMA Alone ==
  ASSUME KeyInv, prov.pc # "idle"
  PROVE  left["edit"] = 0
BY DEF KeyInv, Apart

\* A step of the script, with what it has to establish.
LEMMA Works ==
  ASSUME KeyInv, left["edit"] = 0, UNCHANGED left,
         NEW to, prov' = to, DOMAIN to = ScriptFields,
         DOMAIN vault' = Targets, \A t \in Targets : DOMAIN vault'[t] = Keys,
         DOMAIN public' = Targets, DOMAIN pubfile' = Targets, pairs' \in Nat,
         HalvesAgree', PairOnItsWay'
  PROVE  KeyInv'
BY DEF KeyInv, VaultShaped, Apart

\* A provisioning begins.
LEMMA ProvisionKept ==
  ASSUME KeyInv, NEW t \in Targets, NEW force, Provision(t, force)
  PROVE  KeyInv'
<1>1. left["provision"] # 0
  BY DEF Provision, Call
<1>2. left["edit"] = 0
  BY <1>1 DEF KeyInv, Apart
<1>3. DOMAIN left' = DOMAIN left /\ left'["edit"] = 0
  BY <1>2 DEF Provision, Call, KeyInv, VaultShaped
<1>4. /\ DOMAIN prov' = ScriptFields /\ prov'.target = t /\ prov'.pc \in {"private", "reuse", "make"}
  BY DEF Provision, NoScript, ScriptFields
<1>5. UNCHANGED <<vault, public, pubfile, pairs>>
  BY DEF Provision, secretVars
<1> QED BY <1>3, <1>4, <1>5
        DEF KeyInv, VaultShaped, Apart, HalvesAgree, PairOnItsWay, Rests

\* It finds the pair of an earlier run and reuses it ...
LEMMA ReuseKept ==
  ASSUME KeyInv, Reuse
  PROVE  KeyInv'
<1> DEFINE t == prov.target
<1>1. /\ left["edit"] = 0 /\ t \in Targets /\ prov.pc = "reuse"
      /\ UNCHANGED <<vault, left, public, pairs>>
  BY Alone DEF Reuse, KeyInv, PairOnItsWay, Rests, secretVars
<1>2. DOMAIN prov = ScriptFields /\ DOMAIN pubfile = Targets /\ HalvesAgree'
  BY <1>1 DEF KeyInv, VaultShaped, HalvesAgree
<1>3. CASE Fails /\ UNCHANGED pubfile
  BY <1>1, <1>2, <1>3, Failing DEF KeyInv, VaultShaped
<1>4. ASSUME NEW key \in {public[t], vault[t][Ssh], None}, key # None,
             prov' = [prov EXCEPT !.public = key, !.pc = "github"],
             pubfile' = [pubfile EXCEPT ![t] = key]
      PROVE  KeyInv'
  <2>1. vault[t][Ssh] = key
    BY <1>1, <1>4 DEF KeyInv, HalvesAgree
  <2>2. /\ DOMAIN prov' = ScriptFields /\ prov'.pc = "github" /\ prov'.target = t
        /\ prov'.public = key
    BY <1>2, <1>4 DEF ScriptFields
  <2>3. DOMAIN pubfile' = Targets /\ pubfile'[t] = key
    BY <1>1, <1>2, <1>4
  <2>4. PairOnItsWay'
    BY <1>1, <2>1, <2>2, <2>3 DEF PairOnItsWay
  <2> QED BY <1>1, <1>2, <2>2, <2>3, <2>4, Works DEF KeyInv, VaultShaped
<1> QED BY <1>3, <1>4 DEF Reuse

\* ... or makes a new one.
LEMMA MakeKept ==
  ASSUME KeyInv, Make
  PROVE  KeyInv'
<1> DEFINE t == prov.target
<1>1. /\ left["edit"] = 0 /\ t \in Targets /\ prov.pc = "make"
      /\ UNCHANGED <<left, pubfile>> /\ pairs' \in Nat
  BY Alone DEF VaultShaped, Make, KeyInv, PairOnItsWay, Rests
<1>2. CASE Fails /\ UNCHANGED <<vault, public>>
  BY <1>1, <1>2, Failing DEF KeyInv, VaultShaped, HalvesAgree
<1>3. CASE /\ vault' = [vault EXCEPT ![t][Ssh] = pairs']
           /\ public' = [public EXCEPT ![t] = pairs']
  <2>1. /\ DOMAIN vault' = Targets /\ \A u \in Targets : DOMAIN vault'[u] = Keys
        /\ DOMAIN public' = Targets /\ vault'[t][Ssh] = pairs' /\ public'[t] = pairs'
        /\ \A u \in Targets \ {t} : vault'[u] = vault[u] /\ public'[u] = public[u]
    BY <1>1, <1>3, ProvisionAssumption DEF KeyInv, VaultShaped
  <2>2. HalvesAgree'
    BY <2>1 DEF KeyInv, HalvesAgree
  <2>3. CASE Fails
    BY <1>1, <2>1, <2>2, <2>3, Failing
  <2>4. CASE prov' = [prov EXCEPT !.public = pairs', !.pc = "file"]
    <3>1. /\ DOMAIN prov' = ScriptFields /\ prov'.pc = "file" /\ prov'.target = t
          /\ prov'.public = pairs'
      BY <2>4 DEF KeyInv, VaultShaped, ScriptFields
    <3>2. PairOnItsWay'
      BY <1>1, <2>1, <3>1 DEF PairOnItsWay
    <3> QED BY <1>1, <2>1, <2>2, <3>1, <3>2, Works DEF KeyInv, VaultShaped
  <2> QED BY <1>3, <2>3, <2>4, <1>2 DEF Make
<1> QED BY <1>2, <1>3 DEF Make

\* It writes the public half where the infrastructure reads it.
LEMMA WritesPubfile ==
  ASSUME KeyInv, WriteFile \/ WriteInfra
  PROVE  KeyInv'
<1> DEFINE t == prov.target
<1>1. /\ left["edit"] = 0 /\ t \in Targets
      /\ UNCHANGED <<vault, left, public, pairs>>
  BY Alone DEF WriteFile, WriteInfra, KeyInv, PairOnItsWay, Rests, secretVars
<1>2. /\ DOMAIN prov = ScriptFields /\ DOMAIN pubfile = Targets /\ HalvesAgree'
  BY <1>1 DEF KeyInv, VaultShaped, HalvesAgree
<1>3. DOMAIN pubfile' = Targets /\ pubfile'[t] = prov.public
  BY <1>1, <1>2 DEF WriteFile, WriteInfra
<1>4. /\ DOMAIN prov' = ScriptFields /\ prov'.target = t /\ prov'.public = prov.public
      /\ prov'.private = prov.private /\ prov'.writes = prov.writes
      /\ \/ prov.pc = "file" /\ prov'.pc = "github"
         \/ prov.pc = "infra" /\ prov'.pc = "vault"
  BY <1>2 DEF WriteFile, WriteInfra, Prov, ScriptFields
<1>5. PairOnItsWay'
  BY <1>1, <1>3, <1>4 DEF KeyInv, PairOnItsWay, Rests
<1> QED BY <1>1, <1>2, <1>3, <1>4, <1>5, Works DEF KeyInv, VaultShaped

\* It reads the halves of the pair it publishes.
LEMMA ReadsKept ==
  ASSUME KeyInv, ReadPrivate \/ ReadPublic
  PROVE  KeyInv'
<1> DEFINE t == prov.target
<1>0. pairs \in Nat /\ pairs' \in Nat
  <2>1. pairs \in Nat
    BY DEF KeyInv, VaultShaped
  <2>2. pairs' = pairs \/ pairs' = pairs + 1
    BY DEF ReadPrivate, ReadPublic
  <2> QED BY <2>1, <2>2
<1>1. /\ left["edit"] = 0 /\ t \in Targets
      /\ UNCHANGED <<vault, left, public, pubfile>>
  BY Alone DEF ReadPrivate, ReadPublic, KeyInv, PairOnItsWay, Rests, secretVars
<1>2. DOMAIN prov = ScriptFields /\ HalvesAgree'
  BY <1>1 DEF KeyInv, VaultShaped, HalvesAgree
<1>3. DOMAIN prov' = ScriptFields /\ PairOnItsWay'
  <2>1. CASE ReadPrivate
    <3>1. PICK key \in {None, vault[t][Ssh]} :
            \/ /\ pairs' = pairs + 1
               /\ prov' = [prov EXCEPT !.private = pairs', !.public = pairs', !.pc = "public",
                                       !.writes = {"private"}]
            \/ key # None /\ prov' = [prov EXCEPT !.private = key, !.public = key, !.pc = "public"]
      BY <2>1 DEF ReadPrivate, Fetched
    <3>2. pairs' # None
      BY <1>0, SecretsAssumption
    <3>3. /\ DOMAIN prov' = ScriptFields /\ prov'.pc = "public" /\ prov'.target = t
          /\ prov'.private = prov'.public /\ prov'.public # None
          /\ "private" \in prov'.writes \/ prov'.public = vault[t][Ssh]
      BY <1>2, <3>1, <3>2 DEF ScriptFields
    <3> QED BY <1>1, <3>3 DEF PairOnItsWay
  <2>2. CASE ReadPublic
    <3>1. PICK key \in {public[t], None} :
            prov' = [prov EXCEPT !.pc = "infra",
                       !.writes = IF key = prov.public THEN @ ELSE @ \cup {"public"}]
      BY <2>2 DEF ReadPublic
    <3>2. /\ DOMAIN prov' = ScriptFields /\ prov'.pc = "infra" /\ prov'.target = t
          /\ prov'.private = prov.private /\ prov'.public = prov.public
          /\ prov'.writes = IF key = prov.public THEN prov.writes ELSE prov.writes \cup {"public"}
      BY <1>2, <3>1 DEF ScriptFields
    <3>3. /\ prov.private = prov.public /\ prov.public # None
          /\ "private" \in prov.writes \/ vault[t][Ssh] = prov.public
      BY <2>2 DEF ReadPublic, KeyInv, PairOnItsWay, Rests
    <3> QED BY <1>1, <3>2, <3>3 DEF PairOnItsWay
  <2> QED BY <2>1, <2>2
<1> QED BY <1>0, <1>1, <1>2, <1>3, Works DEF KeyInv, VaultShaped

\* It writes the private half into the vault.
LEMMA UpdateVaultKept ==
  ASSUME KeyInv, UpdateVault
  PROVE  KeyInv'
<1> DEFINE t == prov.target
<1>1. /\ left["edit"] = 0 /\ t \in Targets /\ prov.pc = "vault"
      /\ UNCHANGED <<left, pubfile, pairs>>
  BY Alone DEF UpdateVault, KeyInv, PairOnItsWay, Rests
<1>2. CASE Fails /\ UNCHANGED <<vault, public>>
  BY <1>1, <1>2, Failing DEF KeyInv, VaultShaped, HalvesAgree
<1>3. CASE /\ vault' = IF "private" \in prov.writes
                       THEN [vault EXCEPT ![t][Ssh] = prov.private] ELSE vault
           /\ public' = IF "public" \in prov.writes
                        THEN [public EXCEPT ![t] = prov.public] ELSE public
           /\ Prov("github") \/ Fails
  <2>1. /\ DOMAIN vault' = Targets /\ \A u \in Targets : DOMAIN vault'[u] = Keys
        /\ DOMAIN public' = Targets
        /\ \A u \in Targets \ {t} : vault'[u] = vault[u] /\ public'[u] = public[u]
    BY <1>1, <1>3, ProvisionAssumption DEF KeyInv, VaultShaped
  <2>2. /\ prov.private = prov.public
        /\ "private" \in prov.writes \/ vault[t][Ssh] = prov.public
        /\ "public" \in prov.writes \/ public[t] = prov.public
        /\ pubfile[t] = prov.public
    BY <1>1 DEF KeyInv, PairOnItsWay, Rests
  <2>3. vault'[t][Ssh] = prov.public /\ public'[t] = prov.public
    BY <1>1, <1>3, <2>2, ProvisionAssumption DEF KeyInv, VaultShaped
  <2>4. HalvesAgree'
    BY <2>1, <2>3 DEF KeyInv, HalvesAgree
  <2>5. CASE Fails
    BY <1>1, <2>1, <2>4, <2>5, Failing DEF KeyInv, VaultShaped
  <2>6. CASE Prov("github")
    <3>1. /\ DOMAIN prov' = ScriptFields /\ prov'.pc = "github" /\ prov'.target = t
          /\ prov'.public = prov.public
      BY <2>6 DEF Prov, KeyInv, VaultShaped, ScriptFields
    <3>2. PairOnItsWay'
      BY <1>1, <2>2, <2>3, <3>1 DEF PairOnItsWay
    <3> QED BY <1>1, <2>1, <2>4, <3>1, <3>2, Works DEF KeyInv, VaultShaped
  <2> QED BY <1>3, <2>5, <2>6
<1> QED BY <1>2, <1>3 DEF UpdateVault

\* It ends, or is interrupted.
LEMMA Ends ==
  ASSUME KeyInv, SyncGithub \/ Interrupted
  PROVE  KeyInv'
<1>1. UNCHANGED <<vault, public, pubfile, pairs, left>> /\ left["edit"] = 0
  BY Alone DEF SyncGithub, Interrupted, secretVars
<1>2. DOMAIN prov' = ScriptFields /\ prov'.pc \in Rests \ {"idle"}
  BY DEF SyncGithub, Interrupted, Prov, Fails, NoScript, KeyInv, VaultShaped, ScriptFields, Rests
<1> QED BY <1>1, <1>2 DEF KeyInv, VaultShaped, Apart, HalvesAgree, PairOnItsWay, Rests

\* One step per action.
LEMMA KeyInvKept == KeyInv /\ [Next]_vars => KeyInv'
<1> SUFFICES ASSUME KeyInv, [Next]_vars PROVE KeyInv'
  OBVIOUS
<1>1. ASSUME UNCHANGED <<vault, public, pubfile, pairs, prov>>,
             UNCHANGED left \/ \E op \in {"env", "sync", "project", "run", "source", "traefik"} : Call(op)
      PROVE  KeyInv'
  BY <1>1, KeyStays, OtherCalls
<1>2. CASE SecretsStep /\ UNCHANGED <<provisionVars, devVars>>
  <2>1. UNCHANGED <<public, pubfile, pairs, prov>>
    BY <1>2 DEF provisionVars
  <2>2. ASSUME NEW t \in Targets, NEW k \in Keys, EditVault(t, k) PROVE KeyInv'
    BY <2>1, <2>2, EditsVault
  <2>3. ASSUME NEW t \in Targets, NEW k \in Keys, EditValues(t, k) PROVE KeyInv'
    <3>1. UNCHANGED vault /\ Call("edit")
      BY <2>3 DEF EditValues
    <3> QED BY <2>1, <3>1, OtherEdits
  <2>4. ASSUME NEW part, NEW n, NEW v, EditProject(part, n, v) PROVE KeyInv'
    BY <1>1, <2>1, <2>4 DEF EditProject
  <2>5. CASE GenerateEnv
    BY <1>1, <2>1, <2>5 DEF GenerateEnv
  <2>6. ASSUME NEW p \in Syncs, NEW bare \in BOOLEAN, BeginAll(p, bare) PROVE KeyInv'
    BY <1>1, <2>1, <2>6 DEF BeginAll
  <2>7. ASSUME NEW p \in Syncs, NEW t \in Targets, BeginOne(p, t) PROVE KeyInv'
    BY <1>1, <2>1, <2>7 DEF BeginOne
  <2>8. ASSUME NEW p \in Syncs,
               \/ Verify(p) \/ NextTarget(p) \/ Collect(p) \/ Collected(p)
               \/ Push(p) \/ Pushed(p) \/ Killed(p)
        PROVE  KeyInv'
    BY <1>1, <2>1, <2>8 DEF Verify, NextTarget, Collect, Collected, Push, Pushed, Killed
  <2> QED BY <1>2, <2>2, <2>3, <2>4, <2>5, <2>6, <2>7, <2>8 DEF SecretsStep
<1>3. CASE ProvisionStep
  BY <1>3, ProvisionKept, ReuseKept, MakeKept, WritesPubfile, ReadsKept, UpdateVaultKept, Ends
     DEF ProvisionStep
<1>4. CASE RunDevStep /\ UNCHANGED provisionVars
  <2>1. UNCHANGED <<public, pubfile, pairs, prov>>
    BY <1>4 DEF provisionVars
  <2>2. DevStep => UNCHANGED <<vault, left>>
    BY DEF DevStep, DevEnv, InspectTraefik, RemoveTraefik, RemoveStale, BuildImages, CleanNext,
           Compile, SyncStatic, SyncIndex, Up, Maintain, Snapshot, Poll, Debounce, Stop, secretVars
  <2>3. /\ UNCHANGED vault
        /\ UNCHANGED left \/ \E op \in {"run", "source", "traefik"} : Call(op)
    BY <1>4, <2>2 DEF RunDevStep, Start, Interrupt, EditSource, OtherTraefik, secretVars
  <2> QED BY <1>1, <2>1, <2>3
<1>5. CASE UNCHANGED vars
  BY <1>1, <1>5 DEF vars, secretVars, provisionVars
<1> QED BY <1>2, <1>3, <1>4, <1>5 DEF Next

\* provision_app and provision_server_access: whatever earlier runs were
\* interrupted or failed in, a script that reaches the sync has one pair in the
\* vault and in the file that it publishes, as long as nobody else edits it.
THEOREM OnePairIsPublished ==
  ASSUME OneHand
  PROVE  Spec => []PublishedIsVaults
<1>1. Init => KeyInv
  <2> SUFFICES ASSUME Init PROVE KeyInv
    OBVIOUS
  <2>1. VaultShaped
    BY DEF Init, SecretsInit, ProvisionInit, VaultShaped, NoScript, ScriptFields, OneHand
  <2>2. Apart
    BY DEF Init, SecretsInit, ProvisionInit, Apart, NoScript, OneHand
  <2>3. HalvesAgree /\ PairOnItsWay
    BY DEF Init, ProvisionInit, HalvesAgree, PairOnItsWay, NoScript, Rests
  <2> QED BY <2>1, <2>2, <2>3 DEF KeyInv
<1>2. KeyInv => PublishedIsVaults
  BY DEF KeyInv, HalvesAgree, PairOnItsWay, Rests, PublishedIsVaults
<1> QED BY <1>1, <1>2, KeyInvKept, PTL DEF Spec
===============================================================================
