-------------------------------- MODULE RunDev --------------------------------
(***************************************************************************)
(* The developer's runner (scripts/run_dev.py): it removes what earlier    *)
(* runs left, builds images and the frontend, starts the containers, and   *)
(* either leaves, follows the logs or rebuilds the frontend after every    *)
(* change, while the developer edits and other projects run beside it.     *)
(* One run at a time in a project; edge and spool mode are left out.       *)
(***************************************************************************)
EXTENDS Secrets

VARIABLES
  src,      \* version of the frontend's sources
  next,     \* build_next: the version it was built from, or None
  active,   \* build_current: [index, assets], versions of its files
  up,       \* running containers of the project
  traefik,  \* the local traefik container: "own", "foreign" or None
  dev       \* the run: where it is and what it holds

devVars == <<src, next, active, up, traefik, dev>>

OptionalServices ==
  [celery |-> {"celery_worker", "celery_beat"}, java |-> {"java_backend"}]
Services(profiles) == UNION {OptionalServices[f] : f \in profiles}

NoRun == [pc |-> "ended", mode |-> "classic", detached |-> FALSE, build |-> FALSE,
          profiles |-> {}, todo |-> {}, snap |-> 0, loop |-> FALSE, rebuilt |-> FALSE]

RunDevInit ==
  /\ src = 1 /\ next = None /\ active = [index |-> 0, assets |-> {0}]
  /\ up = {} /\ traefik = None
  /\ dev = NoRun

At(pc) == dev.pc = pc
To(pc) == dev' = [dev EXCEPT !.pc = pc]

Start(mode, detached, build, env, profiles) ==
  /\ At("ended")
  /\ Call("run")
  /\ dev' = [NoRun EXCEPT !.pc = IF env THEN "env" ELSE "traefik", !.mode = mode,
               !.detached = detached, !.build = build, !.profiles = profiles]
  /\ UNCHANGED <<secretVars, src, next, active, up, traefik>>

\* --env; the generator exits when it cannot read or write.
DevEnv ==
  /\ At("env")
  /\ \/ WriteEnv /\ To("traefik")
     \/ To("ended") /\ UNCHANGED <<dotenv, made>>
  /\ UNCHANGED <<provider, vault, values, github, project, sync, left,
                 src, next, active, up, traefik>>

\* Its owner is looked up first; it is removed by its name.
InspectTraefik ==
  /\ At("traefik")
  /\ To(IF traefik = "own" THEN "remove" ELSE "stale")
  /\ UNCHANGED <<secretVars, left, src, next, active, up, traefik>>

RemoveTraefik ==
  /\ At("remove")
  /\ traefik' \in {None, traefik}
  /\ To("stale")
  /\ UNCHANGED <<secretVars, left, src, next, active, up>>

\* cleanup_optional_local_services: a failing removal is ignored.
RemoveStale ==
  LET stale == Services(DOMAIN OptionalServices \ dev.profiles) IN
  /\ At("stale")
  /\ \E kept \in SUBSET (up \cap stale) : up' = (up \ stale) \cup kept
  /\ To("images")
  /\ UNCHANGED <<secretVars, left, src, next, active, traefik>>

AfterImages == IF dev.mode # "vite" /\ (dev.build \/ dev.mode = "watch") THEN "clean" ELSE "up"

BuildImages ==
  /\ At("images")
  /\ \/ To(AfterImages)
     \/ dev.build /\ To("ended")
  /\ UNCHANGED <<secretVars, left, src, next, active, up, traefik>>

-------------------------------------------------------------------------------
(* run_host_frontend_build_once; sync_tree takes static/ first, with what is *)
(* stale in it, and index.html last.                                         *)

CleanNext ==
  /\ At("clean")
  /\ next' = None
  /\ To("compile")
  /\ UNCHANGED <<secretVars, left, src, active, up, traefik>>

\* A failure, or a result without its index, ends the run or the loop.
Compile ==
  /\ At("compile")
  /\ \/ next' = src /\ To("static")
     \/ To(IF dev.loop THEN "stop" ELSE "ended") /\ UNCHANGED next
  /\ UNCHANGED <<secretVars, left, src, active, up, traefik>>

SyncStatic ==
  /\ At("static")
  /\ active' = [active EXCEPT !.assets = {next}]
  /\ To("index")
  /\ UNCHANGED <<secretVars, left, src, next, up, traefik>>

\* A bug to be found: the loop compares with the sources as they are by now.
BugSyncIndex ==
  /\ At("index")
  /\ active' = [active EXCEPT !.index = next]
  /\ next' = None
  /\ dev' = [dev EXCEPT !.pc = IF dev.loop THEN "poll" ELSE "up", !.rebuilt = dev.loop,
                         !.snap = src]
  /\ UNCHANGED <<secretVars, left, src, up, traefik>>

SyncIndex ==
  /\ At("index")
  /\ active' = [active EXCEPT !.index = next]
  /\ next' = None
  /\ dev' = [dev EXCEPT !.pc = IF dev.loop THEN "poll" ELSE "up", !.rebuilt = dev.loop]
  /\ UNCHANGED <<secretVars, left, src, up, traefik>>

-------------------------------------------------------------------------------
(* docker-compose up, the maintenance commands, and what follows.            *)

Up ==
  /\ At("up")
  /\ \/ /\ up' = up \cup {"backend"} \cup Services(dev.profiles)
        /\ traefik' \in IF traefik = None THEN {None, "own"} ELSE {traefik}
        /\ To("maintain")
     \/ To("ended") /\ UNCHANGED <<up, traefik>>
  /\ UNCHANGED <<secretVars, left, src, next, active>>

Maintain ==
  /\ At("maintain")
  /\ \/ To(IF dev.detached THEN "ended" ELSE IF dev.mode = "watch" THEN "snapshot" ELSE "logs")
     \/ To("ended")
  /\ UNCHANGED <<secretVars, left, src, next, active, up, traefik>>

-------------------------------------------------------------------------------
(* run_host_frontend_watch_loop.                                             *)

Snapshot ==
  /\ At("snapshot")
  /\ dev' = [dev EXCEPT !.pc = "poll", !.snap = src, !.loop = TRUE]
  /\ UNCHANGED <<secretVars, left, src, next, active, up, traefik>>

Poll ==
  /\ At("poll")
  /\ src # dev.snap
  /\ dev' = [dev EXCEPT !.pc = "debounce", !.snap = src]
  /\ UNCHANGED <<secretVars, left, src, next, active, up, traefik>>

Debounce ==
  /\ At("debounce")
  /\ dev' = [dev EXCEPT !.pc = "clean", !.snap = src]
  /\ UNCHANGED <<secretVars, left, src, next, active, up, traefik>>

\* The loop and the log stream stop their containers, before that and in Vite
\* mode the run just ends.
Interrupt ==
  /\ ~At("ended") /\ ~At("stop")
  /\ To(IF dev.loop \/ (At("logs") /\ dev.mode # "vite") THEN "stop" ELSE "ended")
  /\ UNCHANGED <<secretVars, left, src, next, active, up, traefik>>

Stop ==
  /\ At("stop")
  /\ up' \in {up \ ({"backend"} \cup Services(dev.profiles)), up}
  /\ To("ended")
  /\ UNCHANGED <<secretVars, left, src, next, active, traefik>>

EditSource ==
  /\ Call("source")
  /\ src' = src + 1
  /\ UNCHANGED <<secretVars, next, active, up, traefik, dev>>

\* Another project brings its traefik, or takes it down.
OtherTraefik ==
  /\ Call("traefik")
  /\ traefik' \in {None, "foreign"} \ {traefik}
  /\ UNCHANGED <<secretVars, src, next, active, up, dev>>

DevStep ==
  \/ DevEnv
  \/ InspectTraefik
  \/ RemoveTraefik
  \/ RemoveStale
  \/ BuildImages
  \/ CleanNext
  \/ Compile
  \/ SyncStatic
  \/ SyncIndex
  \/ Up
  \/ Maintain
  \/ Snapshot
  \/ Poll
  \/ Debounce
  \/ Stop

RunDevStep ==
  \/ DevStep
  \/ \E mode \in {"classic", "watch", "vite"}, detached, build, env \in BOOLEAN,
        profiles \in SUBSET DOMAIN OptionalServices :
       Start(mode, detached, build, env, profiles)
  \/ Interrupt
  \/ EditSource
  \/ OtherTraefik
===============================================================================
