------------------------------ MODULE AuthPolicy ------------------------------
(***************************************************************************)
(* The sign-up policy of a site (auth/policy.py): one row in the database, *)
(* a cached copy of it, and the epoch counter that is meant to keep a      *)
(* reader from caching what a writer has just replaced. Every request that *)
(* asks for the policy walks through these steps, between the steps of all *)
(* others; what it does with the answer is in the modules that extend this *)
(* one, at the point "ready".                                              *)
(***************************************************************************)
EXTENDS Server

CONSTANTS
  Default,   \* the policy of a new row: [modes, domain, invite, single, factors]
  Edits      \* what an administrator may send: records of some of the fields

VARIABLES
  row,    \* the policy row; None until it is first read
  cache,  \* the cached policy, or None
  epoch   \* the cached epoch counter

policyVars == <<row, cache, epoch>>

\* The policy as a request that neither waits nor caches would see it.
Current == IF row = None THEN Default ELSE row

PolicyInit ==
  /\ row = None /\ cache = None /\ epoch = 0

-------------------------------------------------------------------------------
(* Reading: get_or_create_auth_policy.                                       *)

ReadCache(r) ==
  /\ req[r].pc = "policy"
  /\ req' = [req EXCEPT ![r] =
       IF cache # None THEN [@ EXCEPT !.policy = cache, !.pc = "ready"]
                       ELSE [@ EXCEPT !.epoch = epoch, !.pc = "row"]]
  /\ UNCHANGED <<policyVars, left>>

\* A row that has to be created fires the signal of a save.
ReadRow(r) ==
  /\ req[r].pc = "row"
  /\ row' = IF row = None THEN Default ELSE row
  /\ req' = [req EXCEPT ![r].policy = row',
                        ![r].pc = IF row = None THEN "created" ELSE "compare"]
  /\ UNCHANGED <<cache, epoch, left>>

CompareEpoch(r) ==
  /\ req[r].pc = "compare"
  /\ Goes(r, IF epoch = req[r].epoch THEN "fill" ELSE "ready")
  /\ UNCHANGED <<policyVars, left>>

FillCache(r) ==
  /\ req[r].pc = "fill"
  /\ cache' = req[r].policy
  /\ Goes(r, "ready")
  /\ UNCHANGED <<row, epoch, left>>

\* AUTH_POLICY_CACHE_TTL_SECONDS, or an eviction.
CacheExpires ==
  /\ cache # None
  /\ cache' = None
  /\ UNCHANGED <<row, epoch, req, left>>

-------------------------------------------------------------------------------
(* Writing: the copy that was read, changed and saved as a whole, then the   *)
(* two halves of _invalidate_auth_policy_cache.                              *)

SavePolicy(r) ==
  /\ At(r, "save", "ready")
  /\ row' = req[r].arg.edit @@ req[r].policy
  /\ Goes(r, "saved")
  /\ UNCHANGED <<cache, epoch, left>>

DeleteCached(r) ==
  /\ req[r].pc \in {"saved", "created"}
  /\ cache' = None
  /\ Goes(r, IF req[r].pc = "saved" THEN "deleted" ELSE "seeded")
  /\ UNCHANGED <<row, epoch, left>>

BumpEpoch(r) ==
  /\ req[r].pc \in {"deleted", "seeded"}
  /\ epoch' = epoch + 1
  /\ IF req[r].pc = "deleted" THEN Ends(r) ELSE Goes(r, "fill")
  /\ UNCHANGED <<row, cache, left>>

PolicyStep ==
  \/ \E r \in Requests : ReadCache(r)
  \/ \E r \in Requests : ReadRow(r)
  \/ \E r \in Requests : CompareEpoch(r)
  \/ \E r \in Requests : FillCache(r)
  \/ \E r \in Requests : SavePolicy(r)
  \/ \E r \in Requests : DeleteCached(r)
  \/ \E r \in Requests : BumpEpoch(r)
  \/ CacheExpires
===============================================================================
