------------------------------- MODULE AppSync -------------------------------
(***************************************************************************)
(* Which of a Target's Apps the device fetches, runs, stops, removes and   *)
(* keeps: ComposeAppManager over the engine of restorable Apps that drives *)
(* composectl.  The configuration enables some Apps, and has some kept in  *)
(* the store besides; an offline bundle may hold but a shortlist of them.  *)
(*                                                                         *)
(* Only the Apps are modelled: installing a Target here takes no reboot,   *)
(* hence no finalization, and no Target is refused as a downgrade.         *)
(* An unset compose_apps, and a reset_apps of "*", are the set of all      *)
(* names.  reset_apps is set, as it must be for this engine.               *)
(***************************************************************************)
EXTENDS Naturals

CONSTANTS
  Name, Uri, NoUri, NameOf,  \* Apps, their versions
  Target, AppsOf,            \* Targets, the versions in each
  Configs,                   \* [apps, reset : SUBSET Name]
  Bundles, NoBundle,         \* [target, shortlist, apps], see Offered
  First, FirstConfig,        \* what the device starts with
  Failures, MaxFailures, MaxKills, MaxEdits, MaxPublish, MaxCommands

\* The pull of a commit or an App; the start of an App; composectl or docker
\* compose when they stop, remove or prune; an App that stops by itself; an
\* App whose blobs are lost from the store.
AllFailures == {"download", "app", "docker", "stop", "store"}

ASSUME AppSyncAssumption ==
  /\ NoUri \notin Uri /\ NameOf \in [Uri -> Name]
  /\ AppsOf \in [Target -> SUBSET Uri]
  /\ \A t \in Target : \A u, v \in AppsOf[t] : NameOf[u] = NameOf[v] => u = v
  /\ Configs \subseteq [apps : SUBSET Name, reset : SUBSET Name]
  /\ Bundles \subseteq [target : Target, shortlist : SUBSET Name, apps : SUBSET Uri]
  /\ NoBundle \notin Bundles
  /\ First \in Target /\ FirstConfig \in Configs
  /\ Failures \subseteq AllFailures
  /\ {MaxFailures, MaxKills, MaxEdits, MaxPublish, MaxCommands} \subseteq Nat

VARIABLES
  config,        \* the configuration file
  latest,        \* the latest Target published
  current,       \* the current Target as it is recorded
  failing,       \* the Targets that were tried and never installed
  installed,     \* those that have been installed
  store,         \* the Apps whose blobs the store holds
  dir,           \* the version in each App's directory
  running,       \* the Apps whose containers run
  job,           \* the process and what it is at
  failures, kills, edits, publishes, commands

device == <<current, failing, installed, store, dir, running>>
world == <<config, latest, kills, edits, publishes, commands>>
vars == <<device, job, failures, world>>

-----------------------------------------------------------------------------
(* Types. *)

\* A Target as the client passes it on: an offline check-in may have dropped
\* Apps from it, and marks it with the bundle's directory.
Recorded == [id : Target, apps : SUBSET Uri, local : BOOLEAN]
Online(t) == [id |-> t, apps |-> AppsOf[t], local |-> FALSE]

Commands == {"update", "pull", "install", "offline"}

Job == [kind : {"none", "daemon"} \union Commands,
        pc : {"off", "idle", "download", "fetch", "verify", "stop", "run",
              "remove", "prune", "save"},
        cfg : Configs,                 \* as read when the process started
        force : BOOLEAN,               \* force_update
        cleanup : BOOLEAN,             \* cleanup_removed_apps_
        cache : SUBSET Uri,            \* fetched_apps_
        bundle : Bundles \union {NoBundle},
        target : Recorded,
        wanted : Target,               \* the Target a command names
        toUpdate : SUBSET Uri,         \* cur_apps_to_fetch_and_update_
        toFetch : SUBSET Uri,          \* cur_apps_to_fetch_
        todo : SUBSET (Uri \union Name),
        ok : BOOLEAN, rollback : BOOLEAN,
        prunes : 0 .. 2,
        then : {"idle", "download", "verify", "save"}]

NoJob == [kind |-> "none", pc |-> "off", cfg |-> FirstConfig,
          force |-> FALSE, cleanup |-> FALSE,
          cache |-> {}, bundle |-> NoBundle, target |-> Online(First),
          wanted |-> First,
          toUpdate |-> {}, toFetch |-> {}, todo |-> {}, ok |-> TRUE,
          rollback |-> FALSE, prunes |-> 0, then |-> "idle"]

TypeOK ==
  /\ config \in Configs
  /\ latest \in Target
  /\ current \in Recorded
  /\ failing \subseteq Target /\ installed \subseteq Target
  /\ store \subseteq Uri
  /\ dir \in [Name -> Uri \union {NoUri}]
  /\ running \subseteq Name
  /\ job \in Job
  /\ failures \in [AllFailures -> 0 .. MaxFailures]
  /\ kills \in 0 .. MaxKills
  /\ edits \in 0 .. MaxEdits
  /\ publishes \in 0 .. MaxPublish
  /\ commands \in 0 .. MaxCommands

-----------------------------------------------------------------------------
(* Which Apps. *)

getApps(cfg, apps) == {u \in apps : NameOf[u] \in cfg.apps}

getRequiredApps(cfg, apps) == {u \in apps : NameOf[u] \in cfg.apps \union cfg.reset}

\* A slip: an App the configuration has dropped is kept.
RemovedFromTarget(cfg, apps) ==
  {n \in Name : dir[n] # NoUri /\ ~\E u \in apps : NameOf[u] = n}

\* forEachRemovedApp: directories of Apps that are not to run.
RemovedApps(cfg, apps) ==
  {n \in Name : dir[n] # NoUri /\ ~\E u \in getApps(cfg, apps) : NameOf[u] = n}

isRunning(u) == dir[NameOf[u]] = u /\ u \in store /\ NameOf[u] \in running

\* isAppFetched: what was once seen fetched is not looked up again.
isFetched(cache, u) == u \in cache \union store

getAppsToUpdate(cache, t) ==
  {u \in getApps(job.cfg, t.apps) :
     u \notin current.apps \/ ~isRunning(u) \/ ~isFetched(cache, u)}

AppsToUpdate(cache, t) ==
  IF job.force THEN getApps(job.cfg, t.apps) ELSE getAppsToUpdate(cache, t)

\* A slip: without a look into the store nothing is to be fetched.
FetchNothingUnchecked(cache, t, check) ==
  {u \in getRequiredApps(job.cfg, t.apps) \ AppsToUpdate(cache, t) :
     check /\ ~isFetched(cache, u)}

\* getAppsToFetch, asked to look into the store or not to.
AppsToFetch(cache, t, check) ==
  LET required == getRequiredApps(job.cfg, t.apps)
  IN IF check THEN {u \in required \ AppsToUpdate(cache, t) : ~isFetched(cache, u)}
              ELSE required

\* check_apps_to_fetch is left uninitialized when an update is forced.
CheckStore == IF job.force THEN BOOLEAN ELSE {TRUE}

\* The Apps that checkForAppsToUpdate asks isFetched about.
Probed(t, check) ==
  {u \in getApps(job.cfg, t.apps) : ~job.force /\ u \in current.apps /\ isRunning(u)}
  \union
  {u \in getRequiredApps(job.cfg, t.apps) \ AppsToUpdate(job.cache, t) : check}

\* checkForAppsToUpdate.
Checked(t, check) ==
  [job EXCEPT !.toUpdate = AppsToUpdate(job.cache, t),
              !.toFetch = AppsToFetch(job.cache, t, check),
              !.cache = @ \union (Probed(t, check) \intersect store)]

-----------------------------------------------------------------------------
TotalFailures ==
  failures["download"] + failures["app"] + failures["docker"] + failures["stop"]
    + failures["store"]

Fails(kind) ==
  /\ kind \in Failures
  /\ TotalFailures < MaxFailures
  /\ failures' = [failures EXCEPT ![kind] = @ + 1]

\* What becomes of the process when it is through with a Target.
Over(j) ==
  IF j.kind = "daemon"
    THEN [NoJob EXCEPT !.kind = "daemon", !.pc = "idle", !.cfg = j.cfg,
                       !.cleanup = j.cleanup, !.cache = j.cache]
    ELSE NoJob

Init ==
  /\ config = FirstConfig
  /\ latest = First
  /\ current = Online(First)
  /\ failing = {} /\ installed = {First}
  /\ store = getRequiredApps(FirstConfig, AppsOf[First])
  /\ dir = [n \in Name |->
              IF \E u \in getApps(FirstConfig, AppsOf[First]) : NameOf[u] = n
                THEN CHOOSE u \in AppsOf[First] : NameOf[u] = n ELSE NoUri]
  /\ running = {NameOf[u] : u \in getApps(FirstConfig, AppsOf[First])}
  /\ job = NoJob
  /\ failures = [k \in AllFailures |-> 0]
  /\ kills = 0 /\ edits = 0 /\ publishes = 0 /\ commands = 0

-----------------------------------------------------------------------------
(* The process and its check. *)

StartDaemon ==
  /\ job.pc = "off"
  /\ job' = [NoJob EXCEPT !.kind = "daemon", !.pc = "idle", !.cfg = config,
                          !.cleanup = TRUE]
  /\ UNCHANGED <<device, failures, world>>

\* The daemon is stopped between two checks to run a command.  aktualizr-lite
\* sets force_update for its own commands; a client of the API that installs
\* from a local source need not.
StartCommand ==
  /\ job.pc \in {"off", "idle"}
  /\ commands < MaxCommands
  /\ commands' = commands + 1
  /\ \E kind \in Commands, t \in Target, b \in Bundles, force \in BOOLEAN :
       /\ force \/ kind = "offline"
       /\ kind = "offline" => t = b.target
       /\ job' = [NoJob EXCEPT !.kind = kind, !.pc = "idle", !.cfg = config,
                               !.force = force, !.cleanup = TRUE, !.wanted = t,
                               !.bundle = IF kind = "offline" THEN b ELSE NoBundle]
  /\ UNCHANGED <<device, failures, config, latest, kills, edits, publishes>>

\* A slip: the Apps are not dropped from the Target.
OfferedWhole(b) == [id |-> b.target, apps |-> AppsOf[b.target], local |-> TRUE]

\* getAvailableTargets: the Target of a bundle, with the Apps of its shortlist.
Offered(b) ==
  [id |-> b.target, local |-> TRUE,
   apps |-> {u \in AppsOf[b.target] : NameOf[u] \in b.shortlist}]

\* All of the Apps the device needs of them are in the bundle.
Available(b, cfg) ==
  \A u \in getRequiredApps(cfg, AppsOf[b.target]) :
     NameOf[u] \in b.shortlist => u \in b.apps

\* The Target a check-in selects: the latest one, or what a command names.
Candidate ==
  CASE job.kind = "daemon" -> Online(latest)
    [] job.kind = "offline" -> Offered(job.bundle)
    [] OTHER -> Online(job.wanted)

\* CheckInResult::SelectTarget by the current version; the record if there
\* is no such Target in the check-in's result.
CurrentSelected ==
  IF job.kind = "offline"
    THEN IF job.bundle.target = current.id THEN Offered(job.bundle) ELSE current
    ELSE Online(current.id)

IsNew(t) == t.id # current.id /\ (t.id \in failing => job.kind # "daemon")

\* GetTargetToInstall with checkAndSetAppsForUpdate: a new Target, or the
\* current one whose Apps are out of sync or are to be forced.  The first
\* check of a process removes Apps if it finds nothing else to do.
Check ==
  /\ job.pc = "idle"
  /\ \E check \in CheckStore :
       LET new == IsNew(Candidate)
           t == IF new THEN Candidate ELSE current
           j == [Checked(t, check) EXCEPT !.cleanup = FALSE]
           inSync == j.toUpdate \union j.toFetch = {}
           go == new \/ job.kind # "daemon" \/ ~inSync
           next == IF ~go THEN "idle"
                   ELSE IF job.kind = "install" THEN "verify" ELSE "download"
           selected == [j EXCEPT !.pc = next,
                                 !.target = IF new THEN t ELSE CurrentSelected]
       IN job' =
            IF job.kind = "offline" /\ ~Available(job.bundle, job.cfg) THEN NoJob
            ELSE IF job.cleanup /\ inSync
              THEN [selected EXCEPT !.pc = "remove", !.then = next, !.prunes = 1,
                                    !.todo = RemovedApps(job.cfg, current.apps)]
            ELSE IF go THEN selected
            ELSE Over(j)
  /\ UNCHANGED <<device, failures, world>>

-----------------------------------------------------------------------------
(* Download. *)

\* RootfsTreeManager::Download, then the Apps in whatever order.  The offline
\* downloader has an engine, and so a cache and a check, of its own.
Download ==
  /\ job.pc = "download"
  /\ \/ /\ \E check \in CheckStore :
             job' = [job EXCEPT
               !.pc = "fetch",
               !.todo = IF job.kind = "offline"
                          THEN AppsToUpdate({}, job.target)
                               \union AppsToFetch({}, job.target, check)
                          ELSE job.toUpdate \union job.toFetch]
        /\ UNCHANGED failures
     \/ Fails("download") /\ job' = Over(job)
  /\ UNCHANGED <<device, world>>

\* The cache of the engine that fetches: none is kept of the offline one's.
Cached(u) == IF job.kind = "offline" THEN job.cache ELSE job.cache \union {u}
Uncached(u) == IF job.kind = "offline" THEN job.cache ELSE job.cache \ {u}

\* AppEngine::fetch.
FetchApp ==
  /\ job.pc = "fetch"
  /\ \E u \in job.todo :
       LET lacking == job.kind = "offline" /\ u \notin job.bundle.apps
       IN \/ /\ ~lacking
             /\ store' = store \union {u}
             /\ job' = [job EXCEPT !.todo = @ \ {u}, !.cache = Cached(u)]
             /\ UNCHANGED failures
          \/ /\ IF lacking THEN UNCHANGED failures ELSE Fails("download")
             /\ job' = Over([job EXCEPT !.cache = Uncached(u)])
             /\ UNCHANGED store
  /\ UNCHANGED <<current, failing, installed, dir, running, world>>

FetchDone ==
  /\ job.pc = "fetch" /\ job.todo = {}
  /\ job' = IF job.kind = "pull" THEN Over(job) ELSE [job EXCEPT !.pc = "verify"]
  /\ UNCHANGED <<device, failures, world>>

-----------------------------------------------------------------------------
(* Installation. *)

\* VerifyTarget.  docker compose reads the App in the store: it may notice
\* that blobs are gone which the cache has as fetched.
Verify ==
  /\ job.pc = "verify"
  /\ LET apps == job.toUpdate \union job.toFetch
         j == [job EXCEPT !.cache = @ \union (apps \intersect store)]
     IN \/ /\ \A u \in apps : isFetched(job.cache, u)
           /\ job' = [j EXCEPT !.pc = "stop"]
        \/ /\ ~(apps \subseteq store)
           /\ job' = Over(j)
  /\ UNCHANGED <<device, failures, world>>

\* stopDisabledComposeApps, and the Apps to update; a failure is logged.
Stop ==
  /\ job.pc = "stop"
  /\ \/ /\ running' = running \ (RemovedApps(job.cfg, job.target.apps)
                                 \union {NameOf[u] : u \in job.toUpdate})
        /\ UNCHANGED failures
     \/ Fails("docker") /\ UNCHANGED running
  /\ job' = [job EXCEPT !.pc = "run", !.todo = job.toUpdate, !.ok = TRUE]
  /\ UNCHANGED <<current, failing, installed, store, dir, world>>

\* A slip: what runs is kept by the version and not by the name.
RunByUri ==
  /\ job.pc = "run"
  /\ \E u \in job.todo :
       /\ u \in store
       /\ dir' = [dir EXCEPT ![NameOf[u]] = u]
       /\ running' = running \union {u}
       /\ job' = [job EXCEPT !.todo = @ \ {u}]
  /\ UNCHANGED <<current, failing, installed, store, failures, world>>

\* AppEngine::run: install out of the store, then docker compose up.  The
\* loop goes on after an App that fails.
RunApp ==
  /\ job.pc = "run"
  /\ \E u \in job.todo :
       \/ /\ u \in store
          /\ dir' = [dir EXCEPT ![NameOf[u]] = u]
          /\ running' = running \union {NameOf[u]}
          /\ job' = [job EXCEPT !.todo = @ \ {u}]
          /\ UNCHANGED failures
       \/ /\ u \in store
          /\ Fails("app")
          /\ dir' \in {dir, [dir EXCEPT ![NameOf[u]] = u]}
          /\ running' = running \ {NameOf[u]}
          /\ job' = [job EXCEPT !.todo = @ \ {u}, !.ok = FALSE]
       \/ /\ u \notin store
          /\ job' = [job EXCEPT !.todo = @ \ {u}, !.ok = FALSE]
          /\ UNCHANGED <<dir, running, failures>>
  /\ UNCHANGED <<current, failing, installed, store, world>>

\* All Apps were started: handleRemovedApps, and one more prune.
RunDone ==
  /\ job.pc = "run" /\ job.todo = {} /\ job.ok
  /\ job' = [job EXCEPT !.pc = "remove", !.then = "save", !.prunes = 2,
                        !.todo = RemovedApps(job.cfg, job.target.apps)]
  /\ UNCHANGED <<device, failures, world>>

\* LiteClient::install of a Target whose Apps failed, then the rollback of
\* PullAndInstall: the Apps are checked anew and installed without download.
RunFailed ==
  /\ job.pc = "run" /\ job.todo = {} /\ ~job.ok
  /\ failing' = (failing \union {job.target.id}) \ installed
  /\ IF job.rollback \/ (job.kind = "offline" /\ ~current.local)
       THEN job' = Over(job)
       ELSE \E check \in CheckStore :
              job' = [Checked(current, check) EXCEPT
                        !.pc = "verify", !.target = current, !.rollback = TRUE]
  /\ UNCHANGED <<current, installed, store, dir, running, failures, world>>

\* removeDisabledComposeApps by name: the cache is not told of it.
RemoveApp ==
  /\ job.pc = "remove"
  /\ \E n \in job.todo :
       /\ job' = [job EXCEPT !.todo = @ \ {n}]
       /\ \/ /\ dir' = [dir EXCEPT ![n] = NoUri]
             /\ running' = running \ {n}
             /\ UNCHANGED failures
          \/ /\ Fails("docker")
             /\ running' \in {running, running \ {n}}
             /\ UNCHANGED dir
  /\ UNCHANGED <<current, failing, installed, store, world>>

\* What the removal and the prunes are to leave.
Kept ==
  getRequiredApps(job.cfg, IF job.then = "save" THEN job.target.apps ELSE current.apps)

RemoveDone ==
  /\ job.pc = "remove" /\ job.todo = {}
  /\ job' = [job EXCEPT !.pc = "prune", !.todo = store \ Kept]
  /\ UNCHANGED <<device, failures, world>>

\* AppEngine::prune: the first failure ends it.
PruneApp ==
  /\ job.pc = "prune"
  /\ \E u \in job.todo :
       \/ /\ store' = store \ {u}
          /\ job' = [job EXCEPT !.todo = @ \ {u}, !.cache = @ \ {u}]
          /\ UNCHANGED failures
       \/ /\ Fails("docker")
          /\ job' = [job EXCEPT !.todo = {}, !.cache = @ \ {u}]
          /\ UNCHANGED store
  /\ UNCHANGED <<current, failing, installed, dir, running, world>>

PruneDone ==
  /\ job.pc = "prune" /\ job.todo = {}
  /\ job' = IF job.prunes > 1
              THEN [job EXCEPT !.prunes = @ - 1, !.todo = store \ Kept]
            ELSE IF job.then = "idle" THEN Over(job)
            ELSE [job EXCEPT !.pc = job.then, !.prunes = 0]
  /\ UNCHANGED <<device, failures, world>>

\* LiteClient::install of a Target whose Apps have all started.
Save ==
  /\ job.pc = "save"
  /\ current' = job.target
  /\ installed' = installed \union {job.target.id}
  /\ failing' = failing \ {job.target.id}
  /\ job' = Over(job)
  /\ UNCHANGED <<store, dir, running, failures, world>>

-----------------------------------------------------------------------------
(* What happens around the process. *)

Publish ==
  /\ publishes < MaxPublish
  /\ publishes' = publishes + 1
  /\ latest' \in Target \ {latest}
  /\ UNCHANGED <<device, job, failures, config, kills, edits, commands>>

\* A running process keeps the configuration it has read; fioconfig restarts
\* the daemon when it has changed the file.
Edit ==
  /\ edits < MaxEdits
  /\ edits' = edits + 1
  /\ config' \in Configs \ {config}
  /\ UNCHANGED <<device, job, failures, latest, kills, publishes, commands>>

Kill ==
  /\ kills < MaxKills
  /\ job.pc # "off"
  /\ kills' = kills + 1
  /\ job' = NoJob
  /\ UNCHANGED <<device, failures, config, latest, edits, publishes, commands>>

AppStops ==
  /\ Fails("stop")
  /\ \E n \in running : running' = running \ {n}
  /\ UNCHANGED <<current, failing, installed, store, dir, job, world>>

StoreLoses ==
  /\ Fails("store")
  /\ \E u \in store : store' = store \ {u}
  /\ UNCHANGED <<current, failing, installed, dir, running, job, world>>

Step ==
  \/ Check \/ Download \/ FetchApp \/ FetchDone \/ Verify \/ Stop
  \/ RunApp \/ RunDone \/ RunFailed \/ RemoveApp \/ RemoveDone
  \/ PruneApp \/ PruneDone \/ Save

Next ==
  \/ StartDaemon \/ StartCommand \/ Step
  \/ Publish \/ Edit \/ Kill \/ AppStops \/ StoreLoses

Spec == Init /\ [][Next]_vars

\* The service manager restarts the daemon, and a process goes on.
FairSpec == Spec /\ WF_vars(StartDaemon) /\ WF_vars(Step)

-----------------------------------------------------------------------------
(* Properties. *)

\* A Target is recorded as installed only with every App it needs in the
\* store, those kept for a factory reset included, whatever value the
\* uninitialized check_apps_to_fetch of checkForAppsToUpdate has.  Excepted
\* are blobs lost behind the cache of the engine; the sync of a Target that
\* an offline check-in had shortened: its Apps are checked by the record,
\* and it is recorded with all of them; and a Target with nothing to fetch
\* or update: the cleanup of that same check keeps but what the current
\* Target needs.
InstalledIsStored ==
  (/\ job.pc = "save"
   /\ failures["store"] = 0
   /\ job.target.id = current.id => job.target.apps = current.apps)
  => \A u \in getRequiredApps(job.cfg, job.target.apps) :
       \/ u \in store
       \/ /\ job.toUpdate \union job.toFetch = {}
          /\ u \notin getRequiredApps(job.cfg, current.apps)

\* An offline update never asks for an App its bundle lacks: Apps are dropped
\* from the Target at the check-in, or the Target is not offered.
OfflineHasContent ==
  job.kind = "offline" /\ job.pc = "fetch" => job.todo \subseteq job.bundle.apps

\* The Apps that are to run do, and what is needed is stored.  An App that is
\* only kept is not fetched again if it was lost behind the cache.
AppsRun ==
  /\ \A u \in getApps(job.cfg, current.apps) : isRunning(u)
  /\ \A u \in getRequiredApps(job.cfg, current.apps) :
       u \in store \/ failures["store"] > 0

\* Nothing else is left on the device, unless docker failed to remove it, or
\* the process's one cleanup was used up by a check whose download failed or
\* was found incomplete.
NothingElse ==
  \/ \E k \in {"docker", "download", "store"} : failures[k] > 0
  \/ /\ \A n \in Name : dir[n] # NoUri =>
          \E u \in getApps(job.cfg, current.apps) : NameOf[u] = n
     /\ store \subseteq getRequiredApps(job.cfg, current.apps)

\* Whatever failed, was killed, published, edited or run by hand before, the
\* daemon in the end has the Apps of the current Target and its configuration
\* running and stored, and no others.
AppsFollowConfig == <>[](job.kind = "daemon" /\ AppsRun /\ NothingElse)
=============================================================================
