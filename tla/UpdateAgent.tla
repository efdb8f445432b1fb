---------------------------- MODULE UpdateAgent ----------------------------
(***************************************************************************)
(* The update cycle of the client: the daemon (daemon.cc) and the update   *)
(* commands of the command line (cli.cc) driving AkliteClientExt,          *)
(* LiteClient, ComposeAppManager and RootfsTreeManager over one device: an *)
(* ostree sysroot with a bootloader that can fall back, the restorable App *)
(* store, the docker containers and the installed-versions table.          *)
(*                                                                         *)
(* A step is what happens between two writes to persistent state, so the   *)
(* process may be killed, or the power lost, between any two of them.      *)
(* The lock that keeps the daemon and the commands apart is assumed here.  *)
(***************************************************************************)
EXTENDS InstalledVersions

CONSTANTS
  MaxVersion,      \* TUF Targets are the versions 1..MaxVersion
  Hash,            \* ostree commit hashes
  HashOf,          \* [1..MaxVersion -> Hash]
  Uri,             \* Apps, each an App name at a digest
  AppName,         \* [Uri -> names]
  AppsOf,          \* [1..MaxVersion -> SUBSET Uri]
  FactoryHash, FactoryApps,          \* the image the device was made with
  AutoDowngrade,                     \* AKLITE_AUTO_DOWNGRADE
  CreateContainersBeforeReboot, StopAppsBeforeUpdate,   \* sota.toml
  Commands,        \* the commands an operator may run
  Failures,        \* the kinds of failure that may happen, see AllFailures
  MaxFailures,     \* how many of them
  MaxCrashes,      \* kills and power cuts
  MaxPublish,      \* changes of the published Targets
  MaxCommands

AllCommands == {"check", "update", "pull", "install", "run", "rollback"}

\* A download, a deployment, a boot, an App's start or creation, the loading
\* of an App's images.
AllFailures == {"download", "deploy", "boot", "app", "image"}

\* What a Target can be, in this instance.
Target == [name : UnknownName .. MaxVersion, hash : Hash \cup {NoHash},
           apps : SUBSET Uri]

ASSUME ConstantsAssumption ==
  /\ MaxVersion \in Nat \ {0}
  /\ NoHash \notin Hash
  /\ HashOf \in [1 .. MaxVersion -> Hash]
  /\ AppsOf \in [1 .. MaxVersion -> SUBSET Uri]
  /\ FactoryHash \in Hash /\ FactoryApps \in SUBSET Uri
  /\ {AutoDowngrade, CreateContainersBeforeReboot, StopAppsBeforeUpdate}
        \subseteq BOOLEAN
  /\ Commands \subseteq AllCommands /\ Failures \subseteq AllFailures
  /\ {MaxFailures, MaxCrashes, MaxPublish, MaxCommands} \subseteq Nat

\* A Target has one version of an App.
ASSUME OneVersionPerApp ==
  \A apps \in {AppsOf[v] : v \in 1 .. MaxVersion} \cup {FactoryApps} :
    \A u, w \in apps : AppName[u] = AppName[w] => u = w

VARIABLES
  \* persistent
  log,         \* the installed-versions table
  booted,      \* hash of the booted deployment
  staged,      \* hash of the deployment listed before the booted one
  fellBack,    \* the bootloader gave up on the staged deployment
  needReboot,  \* deployed since the last boot (the sentinel under /run)
  store,       \* Apps completely fetched to the restorable store
  installed,   \* Apps whose compose project is in the install directory
  running,     \* Apps whose containers are up
  curFile,     \* Target name in /var/sota/current-target
  tuf,         \* latest version in the local TUF metadata, 0 if none
  \* the server
  published,   \* latest version a check-in gets
  \* the process
  pc,
  session,     \* "daemon", or the command being run
  job,         \* the InstallContext at work
  todo,        \* cur_apps_to_fetch_and_update_; the Apps left to start
  rc,          \* data::InstallationResult of the step before
  rebootReq,   \* is_reboot_required_
  cleanup,     \* cleanup_removed_apps_
  result,      \* last InstallResult given to the caller
  \* bounds
  failures,    \* how many of each kind have happened
  crashes, publishes, commands

disk == <<log, booted, staged, fellBack, needReboot>>
apps == <<store, installed, running>>
proc == <<pc, session, job, todo, rc, rebootReq, cleanup, result>>
bounds == <<failures, crashes, publishes, commands>>
vars == <<disk, apps, curFile, tuf, published, proc, bounds>>

Pcs == {"down", "finalize", "finalizeApps", "finalizeSave", "finalizeFile",
        "idle", "unmark", "rollback", "download", "install", "deploy", "apps",
        "save", "file", "reboot"}

Codes == {"Ok", "NeedCompletion", "InstallFailed", "DownloadFailed",
          "CustomError"}

Results == {"None", "Ok", "NeedsCompletion", "AppsNeedCompletion",
            "BootFwNeedsCompletion", "Failed",
            "DownloadFailed", "InstallationInProgress", "UnknownError",
            "NoPendingInstallation", "InstallRollbackOk",
            "InstallRollbackFailed", "InstallRollbackNeedsReboot",
            "TufTargetNotFound", "NoUpdate", "RollbackTargetNotFound",
            "BadRollbackTarget"}

\* phase "update" is an install PullAndInstall started, "revert" its return
\* to the previous Target, "complete" the rollback of the run command.
Job == [phase : {"update", "revert", "complete"}, tgt : Target, prev : Target,
        mode : {"All", "OstreeOnly"}, pull : BOOLEAN, inst : BOOLEAN]

NoJob == [phase |-> "update", tgt |-> UnknownTarget, prev |-> UnknownTarget,
          mode |-> "All", pull |-> FALSE, inst |-> FALSE]

AllFaults ==
  failures["download"] + failures["deploy"] + failures["boot"]
    + failures["app"] + failures["image"]

\* A failure from outside, within the bounds of the instance.
Fault(kind) ==
  /\ kind \in Failures /\ AllFaults < MaxFailures
  /\ failures' = [failures EXCEPT ![kind] = @ + 1]

AppFault(code) == IF code = "DownloadFailed" THEN "image" ELSE "app"

-----------------------------------------------------------------------------
(* Apps. *)

NamesOf(us) == {AppName[u] : u \in us}

\* The Apps of a set of Apps with one of the given names.
Named(us, names) == {u \in us : AppName[u] \in names}

\* The compose project of u takes the place of the one it had before.
WithProject(u) == (installed \ Named(installed, {AppName[u]})) \cup {u}

\* RestorableAppEngine::isRunning: the project installed is the one in the
\* store, and its containers have been started.
IsRunning(u) == u \in store \cap installed \cap running

\* A slip: an App of the current Target is not checked any further.
AppsToUpdateUnchecked(t, force) ==
  {u \in t.apps : force \/ u \notin CurrentTarget(log, booted).apps}

\* getAppsToUpdate; the update commands force every App of the Target.
AppsToUpdate(t, force) ==
  {u \in t.apps : \/ force
                  \/ u \notin CurrentTarget(log, booted).apps
                  \/ ~IsRunning(u) \/ u \notin store}

ForcesUpdate == session \in {"update", "pull", "install"}

\* stopDisabledComposeApps: what runs and is not named by the Target.
Disabled(t) == {u \in installed : AppName[u] \notin NamesOf(t.apps)}

\* RestorableAppEngine::prune: other Apps, and other versions of the Target's
\* Apps, leave the store.
Pruned(t) == store \cap t.apps

HandleRemovedApps(t) ==
  /\ installed' = installed \ Disabled(t)
  /\ running' = running \ Disabled(t)
  /\ store' = Pruned(t)

\* checkAndSetAppsForUpdate: the first check of a process that finds nothing
\* to update removes what the current Target does not have.
CheckAndSetApps(t, force) ==
  /\ todo' = AppsToUpdate(t, force)
  /\ cleanup' = FALSE
  /\ IF cleanup /\ AppsToUpdate(t, force) = {}
       THEN HandleRemovedApps(CurrentTarget(log, booted))
       ELSE UNCHANGED apps

\* AppEngine::run of a fetched App: its project is extracted, its images are
\* loaded, its containers are created and started.
RunApp(u) ==
  /\ u \in store
  /\ installed' = WithProject(u)
  /\ running' = (running \ Named(running, {AppName[u]})) \cup {u}

\* AppEngine::install before a reboot: the same, and nothing is started.
CreateApp(u) ==
  /\ u \in store
  /\ installed' = WithProject(u)
  /\ running' = running \ (Named(running, {AppName[u]}) \ {u})

\* A failing run or install.  Without the fetched App, or when its archive
\* cannot be extracted, nothing has changed; otherwise, and always when its
\* images cannot be loaded ("DownloadFailed"), the project is the new one and
\* the containers of the App may be up or not.
FailApp(u, code) ==
  \/ /\ code # "DownloadFailed"
     /\ UNCHANGED <<installed, running>>
  \/ /\ u \in store
     /\ installed' = WithProject(u)
     /\ \E lost \in {Named(running, {AppName[u]}),
                     Named(running, {AppName[u]}) \ {u}} :
           running' = running \ lost

-----------------------------------------------------------------------------
(* Selection of a Target: AkliteClientExt::GetTargetToInstall. *)

TufTarget(v) == [name |-> v, hash |-> HashOf[v], apps |-> AppsOf[v]]

\* CheckInResult::SelectTarget over the Targets 1..latest: version -1 stands
\* for the latest one.
SelectTarget(latest, v) ==
  CASE v = -1 /\ latest > 0    -> TufTarget(latest)
    [] v \in 1 .. latest       -> TufTarget(v)
    [] OTHER                   -> UnknownTarget

Choice(status, tgt, check) == [status |-> status, tgt |-> tgt, check |-> check]

\* A slip: failing Targets are not skipped.
ToBeInstalledAlways(candidate, allowBad) ==
  candidate.name # CurrentTarget(log, booted).name

\* The candidate is not the current Target, and it is not a failing one or the
\* operator insists on it.
ToBeInstalled(candidate, allowBad) ==
  /\ candidate.name # CurrentTarget(log, booted).name
  /\ ~IsFailing(log, candidate) \/ allowBad

\* check is the Target whose Apps are checked on the way, UnknownTarget if
\* the selection ends before.
GetTargetToInstall(latest, v, allowBad, forceSync, force) ==
  LET current    == CurrentTarget(log, booted)
      newest     == SelectTarget(latest, v)
      rollback   == IsFailing(log, current) /\ current.name = newest.name
      candidate  == IF rollback THEN RollbackTarget(log, TRUE) ELSE newest
      byVersion  == SelectTarget(latest, Version(current))
      active     == IF byVersion = UnknownTarget THEN current ELSE byVersion
  IN  CASE newest = UnknownTarget ->
             Choice("TufTargetNotFound", UnknownTarget, UnknownTarget)
        [] /\ newest # UnknownTarget
           /\ ~AutoDowngrade /\ v = -1 /\ Version(newest) < Version(current) ->
             Choice("NoUpdate", UnknownTarget, UnknownTarget)
        [] OTHER ->
             IF rollback /\ candidate = UnknownTarget
               THEN Choice("RollbackTargetNotFound", UnknownTarget, UnknownTarget)
             ELSE IF rollback /\ IsFailing(log, candidate)
               THEN Choice("BadRollbackTarget", UnknownTarget, UnknownTarget)
             ELSE IF ToBeInstalled(candidate, allowBad)
               THEN Choice(IF rollback THEN "UpdateRollback" ELSE "UpdateNewVersion",
                           candidate, candidate)
             ELSE IF forceSync \/ AppsToUpdate(current, force) # {}
               THEN Choice("UpdateSyncApps", active, current)
             ELSE Choice("NoUpdate", UnknownTarget, current)

\* AkliteClient::Installer finds the Target in the TUF metadata, or it need
\* not be there and has been installed before.
InstallerFinds(t, latest, requireInTuf) ==
  \/ t.name \in 1 .. latest /\ t = TufTarget(t.name)
  \/ (~requireInTuf \/ t.name = InitialName) /\ WasTargetInstalled(log, t)

-----------------------------------------------------------------------------
(* Returning to the daemon loop or ending the command. *)

Return(r) ==
  /\ result' = r
  /\ job' = NoJob
  /\ rc' = "Ok"
  /\ pc' = IF session # "daemon" THEN "down"
           ELSE IF rebootReq' THEN "reboot" ELSE "idle"

\* AkliteClientExt::PullAndInstall up to the download; the Apps have been
\* checked by the caller, or not at all.
PullAndInstall(t, latest, mode, pull, inst, requireInTuf) ==
  IF IsPending(log) THEN Return("InstallationInProgress")
  ELSE IF ~InstallerFinds(t, latest, requireInTuf) THEN Return("UnknownError")
  ELSE /\ pc' = IF pull THEN "download" ELSE "install"
       /\ job' = [phase |-> "update", tgt |-> t,
                  prev |-> CurrentTarget(log, booted),
                  mode |-> mode, pull |-> pull, inst |-> inst]
       /\ result' = "None"
       /\ rc' = "Ok"

-----------------------------------------------------------------------------
(* A process starts: the LiteClient constructor turns an unknown booted    *)
(* Target into the initial one (setInitialTargetIfNeeded).                 *)

InitialTarget == [name |-> InitialName, hash |-> booted,
                  apps |-> installed \cap store]

StartProcess(s) ==
  /\ pc = "down"
  /\ log' = IF CurrentTarget(log, booted).name = UnknownName
               THEN SaveInstalledVersion(log, InitialTarget, "Current")
               ELSE log
  /\ session' = s
  /\ IF s = "run" /\ ~IsPending(log')
       THEN pc' = "down" /\ result' = "NoPendingInstallation"
       ELSE /\ pc' = IF s \in {"daemon", "run"} /\ IsPending(log')
                       THEN "finalize" ELSE "idle"
            /\ result' = "None"
  /\ job' = NoJob /\ todo' = {} /\ rc' = "Ok"
  /\ rebootReq' = FALSE /\ cleanup' = TRUE
  /\ UNCHANGED <<booted, staged, fellBack, needReboot, apps, curFile, tuf,
                 published>>

StartDaemon == StartProcess("daemon") /\ UNCHANGED bounds

StartCommand ==
  /\ commands < MaxCommands
  /\ commands' = commands + 1
  /\ \E c \in Commands : StartProcess(c)
  /\ UNCHANGED <<failures, crashes, publishes>>

\* The operator stops the idle daemon to run a command.
StopDaemon ==
  /\ pc = "idle" /\ session = "daemon"
  /\ commands < MaxCommands /\ Commands # {}
  /\ pc' = "down"
  /\ UNCHANGED <<disk, apps, curFile, tuf, published, session, job, todo, rc,
                 rebootReq, cleanup, result, bounds>>

-----------------------------------------------------------------------------
(* Finalization of a pending installation: AkliteClient::                  *)
(* CompleteInstallation, at the start of the daemon and in the run command *)
(* (cli::CompleteInstall), which also performs a rollback.                 *)

\* OstreeManager::finalizeInstall: no reboot since the deployment.
FinalizeNotBooted ==
  /\ pc = "finalize"
  /\ needReboot /\ booted # PendingTarget(log).hash
  /\ curFile' = CurrentTarget(log, booted).name
  /\ pc' = "down"
  /\ result' = "NeedsCompletion"
  /\ UNCHANGED <<disk, apps, tuf, published, session, job, todo, rc,
                 rebootReq, cleanup, bounds>>

\* The device rebooted and is not on the pending deployment.
FinalizeRolledBack ==
  /\ pc = "finalize"
  /\ ~needReboot /\ booted # PendingTarget(log).hash
  /\ job' = [NoJob EXCEPT !.tgt = PendingTarget(log)]
  /\ rc' = "InstallFailed"
  /\ pc' = "finalizeSave"
  /\ UNCHANGED <<disk, apps, curFile, tuf, published, session, todo,
                 rebootReq, cleanup, result, bounds>>

\* Booted as required, or only Apps were left to install: disabled Apps are
\* stopped, then the Apps of the Target are started one by one.
FinalizeBooted ==
  /\ pc = "finalize"
  /\ booted = PendingTarget(log).hash
  /\ job' = [NoJob EXCEPT !.tgt = PendingTarget(log)]
  /\ todo' = PendingTarget(log).apps
  /\ running' = running \ Disabled(PendingTarget(log))
  /\ rc' = "Ok"
  /\ pc' = "finalizeApps"
  /\ UNCHANGED <<disk, store, installed, curFile, tuf, published, session,
                 rebootReq, cleanup, result, bounds>>

FinalizeApp ==
  /\ pc = "finalizeApps"
  /\ \E u \in todo : RunApp(u) /\ todo' = todo \ {u}
  /\ UNCHANGED <<disk, store, curFile, tuf, published, pc, session, job, rc,
                 rebootReq, cleanup, result, bounds>>

\* The first App that fails ends the finalization; images that cannot be
\* loaded are told apart from the other failures.
FinalizeAppFails ==
  /\ pc = "finalizeApps"
  /\ \E u \in todo, code \in {"CustomError", "DownloadFailed"} :
       /\ FailApp(u, code)
       /\ rc' = code
       /\ IF u \in store THEN Fault(AppFault(code)) ELSE UNCHANGED failures
  /\ pc' = "finalizeSave"
  /\ UNCHANGED <<disk, store, curFile, tuf, published, session, job, todo,
                 rebootReq, cleanup, result, crashes, publishes, commands>>

FinalizeAppsDone ==
  /\ pc = "finalizeApps" /\ todo = {}
  /\ HandleRemovedApps(job.tgt)
  /\ pc' = "finalizeSave"
  /\ UNCHANGED <<disk, curFile, tuf, published, session, job, todo, rc,
                 rebootReq, cleanup, result, bounds>>

\* A slip: only a success is recorded.
FinalizedLogIfOk ==
  IF rc = "Ok" THEN SaveInstalledVersion(log, job.tgt, "Current") ELSE log

\* LiteClient::finalizePendingUpdate: a failure to load images leaves the
\* record as it is.
FinalizedLog ==
  CASE rc = "Ok"                             -> SaveInstalledVersion(log, job.tgt, "Current")
    [] rc \in {"InstallFailed", "CustomError"} -> SaveInstalledVersion(log, job.tgt, "None")
    [] OTHER                                 -> log

FinalizeSave ==
  /\ pc = "finalizeSave"
  /\ log' = FinalizedLog
  /\ pc' = "finalizeFile"
  /\ UNCHANGED <<booted, staged, fellBack, needReboot, apps, curFile, tuf,
                 published, session, job, todo, rc, rebootReq, cleanup, result,
                 bounds>>

\* cli::CompleteInstall after a failure, the InstallContext of a Target.
CompleteWith(t) ==
  /\ job' = [NoJob EXCEPT !.phase = "complete", !.tgt = t]
  /\ pc' = "install"
  /\ rc' = "Ok"
  /\ UNCHANGED result

\* The bootloader rolled back: only the Apps are brought in sync.
SyncAfterBootRollback ==
  LET current == CurrentTarget(log, booted)
  IN  /\ CheckAndSetApps(current, FALSE)
      /\ IF AppsToUpdate(current, FALSE) = {} THEN Return("InstallRollbackOk")
                                             ELSE CompleteWith(current)

\* The Apps failed to start on the new version.
RollbackAfterAppFailure ==
  LET target == RollbackTarget(log, TRUE)
  IN  IF target = UnknownTarget
        THEN Return("InstallRollbackFailed") /\ UNCHANGED <<todo, cleanup, apps>>
      ELSE IF ~InstallerFinds(target, tuf, TRUE)
        THEN Return("UnknownError") /\ UNCHANGED <<todo, cleanup, apps>>
      ELSE CheckAndSetApps(target, FALSE) /\ CompleteWith(target)

\* A slip: the Target that was to be finalized counts as the current one.
FinalizedFilePending == job.tgt.name

FinalizedFile == CurrentTarget(log, booted).name

\* LiteClient::finalizeInstall writes the current Target's file, then the
\* caller goes on.
FinalizeEnd ==
  /\ pc = "finalizeFile"
  /\ curFile' = FinalizedFile
  /\ UNCHANGED rebootReq
  /\ IF session = "daemon" \/ rc = "Ok"
       THEN /\ Return(IF rc = "Ok" THEN "Ok" ELSE "Failed")
            /\ UNCHANGED <<todo, cleanup, apps>>
       ELSE IF booted # job.tgt.hash THEN SyncAfterBootRollback
                                     ELSE RollbackAfterAppFailure
  /\ UNCHANGED <<disk, tuf, published, session, bounds>>

-----------------------------------------------------------------------------
(* The daemon loop and the commands pull, install and update: a check-in,  *)
(* the selection of a Target, and the start of its installation.           *)

\* run_daemon: an unsuccessful check-in has no effect.
DaemonCycle ==
  /\ pc = "idle" /\ session = "daemon"
  /\ tuf' = published
  /\ UNCHANGED rebootReq
  /\ LET choice == GetTargetToInstall(published, -1, FALSE, FALSE, FALSE)
     IN  /\ IF choice.check = UnknownTarget
              THEN UNCHANGED <<todo, cleanup, apps>>
              ELSE CheckAndSetApps(choice.check, FALSE)
         /\ IF choice.tgt = UnknownTarget
              THEN Return(choice.status)
              ELSE PullAndInstall(choice.tgt, published, "All", TRUE, TRUE,
                                  choice.status = "UpdateNewVersion")
  /\ UNCHANGED <<disk, curFile, published, session, bounds>>

\* cli::CheckIn: the selection of the daemon, and what it does to the Apps,
\* whatever is pending.
CheckCommand ==
  /\ pc = "idle" /\ session = "check"
  /\ tuf' = published
  /\ UNCHANGED rebootReq
  /\ LET choice == GetTargetToInstall(published, -1, FALSE, FALSE, FALSE)
     IN  /\ IF choice.check = UnknownTarget
              THEN UNCHANGED <<todo, cleanup, apps>>
              ELSE CheckAndSetApps(choice.check, FALSE)
         /\ Return(IF choice.tgt = UnknownTarget THEN choice.status ELSE "Ok")
  /\ UNCHANGED <<disk, curFile, published, session, bounds>>

\* cli::pullAndInstall: the operator may name a version and may force a
\* failing one.  pull and install use the metadata of the last check-in.
UpdateCommand ==
  /\ pc = "idle" /\ session \in {"update", "pull", "install"}
  /\ tuf' = IF session = "update" /\ ~IsPending(log) THEN published ELSE tuf
  /\ UNCHANGED rebootReq
  /\ \E v \in {-1} \cup 1 .. MaxVersion, mode \in {"All", "OstreeOnly"} :
       LET choice == GetTargetToInstall(tuf', v, TRUE, TRUE, TRUE)
       IN  IF IsPending(log)
             THEN /\ Return("InstallationInProgress")
                  /\ UNCHANGED <<todo, cleanup, apps>>
             ELSE /\ session = "pull" => mode = "All"
                  /\ IF choice.check = UnknownTarget
                       THEN UNCHANGED <<todo, cleanup, apps>>
                       ELSE CheckAndSetApps(choice.check, TRUE)
                  /\ IF choice.tgt = UnknownTarget
                       THEN Return(choice.status)
                       ELSE PullAndInstall(choice.tgt, tuf', mode,
                              session # "install", session # "pull",
                              choice.status = "UpdateNewVersion")
  /\ UNCHANGED <<disk, curFile, published, session, bounds>>

-----------------------------------------------------------------------------
(* The rollback command: AkliteClientExt::Rollback. *)

\* The pending Target, or the current one, is marked as failing.  job.pull
\* remembers that there was no installation in progress.
RollbackMark ==
  LET inProgress == IsPending(log)
      bad        == IF inProgress THEN PendingTarget(log)
                                  ELSE CurrentTarget(log, booted)
      marked     == SaveBadTarget(log, bad)
      target     == RollbackTarget(marked, inProgress)
  IN  /\ pc = "idle" /\ session = "rollback"
      /\ log' = marked
      /\ UNCHANGED rebootReq
      /\ IF target = UnknownTarget
           THEN Return("Failed")
           ELSE /\ pc' = IF inProgress THEN "unmark" ELSE "rollback"
                /\ job' = [NoJob EXCEPT !.tgt = target, !.pull = ~inProgress]
                /\ UNCHANGED <<rc, result>>
      /\ UNCHANGED <<booted, staged, fellBack, needReboot, apps, curFile, tuf,
                     published, session, todo, cleanup, bounds>>

\* The pending Target's record is saved again without its flags.
RollbackUnmark ==
  /\ pc = "unmark"
  /\ log' = SaveInstalledVersion(log, PendingTarget(log), "None")
  /\ pc' = "rollback"
  /\ UNCHANGED <<booted, staged, fellBack, needReboot, apps, curFile, tuf,
                 published, session, job, todo, rc, rebootReq, cleanup,
                 result, bounds>>

RollbackInstall ==
  /\ pc = "rollback"
  /\ UNCHANGED rebootReq
  /\ PullAndInstall(job.tgt, tuf, "All", job.pull, TRUE, job.pull)
  /\ UNCHANGED <<disk, apps, curFile, tuf, published, session, todo, cleanup,
                 bounds>>

-----------------------------------------------------------------------------
(* Download: LiteInstall::Download, LiteClient::downloadImage,             *)
(* ComposeAppManager::Download.                                            *)

DownloadOk ==
  /\ pc = "download"
  /\ store' = store \cup todo
  /\ UNCHANGED rebootReq
  /\ IF job.inst THEN pc' = "install" /\ UNCHANGED <<job, rc, result>>
                  ELSE Return("Ok")
  /\ UNCHANGED <<disk, installed, running, curFile, tuf, published, session,
                 todo, cleanup, bounds>>

\* The last attempt fails.
DownloadFails ==
  /\ pc = "download"
  /\ Fault("download")
  /\ UNCHANGED rebootReq
  /\ Return("DownloadFailed")
  /\ UNCHANGED <<disk, installed, running, curFile, tuf, published, session,
                 todo, cleanup, crashes, publishes, commands>>

\* It fails at the ostree commit; an earlier attempt may have fetched Apps.
PullFails ==
  /\ DownloadFails
  /\ \E fetched \in SUBSET todo : store' = store \cup fetched

\* It fails at an App, which the store then loses.
FetchFails ==
  /\ DownloadFails
  /\ \E u \in todo : \E fetched \in SUBSET (todo \ {u}) :
       store' = (store \cup fetched) \ {u}

-----------------------------------------------------------------------------
(* Installation: LiteInstall::Install, LiteClient::install,                *)
(* ComposeAppManager::install and RootfsTreeManager::install.              *)

\* PullAndInstall returns to the previous Target after a failure.
Revert ==
  IF ~InstallerFinds(job.prev, tuf, FALSE)
    THEN Return("InstallRollbackFailed") /\ UNCHANGED <<todo, cleanup, apps>>
    ELSE /\ CheckAndSetApps(job.prev, ForcesUpdate)
         /\ job' = [job EXCEPT !.phase = "revert", !.tgt = job.prev, !.mode = "All"]
         /\ pc' = "install"
         /\ rc' = "Ok"
         /\ UNCHANGED result

\* What the caller of LiteInstall::Install makes of its status.
InstallReturns(status) ==
  IF job.phase = "update" /\ status = "Failed" THEN Revert
  ELSE /\ Return(CASE job.phase = "update" -> status
                   [] job.phase # "update" /\ status = "Ok" -> "InstallRollbackOk"
                   [] job.phase = "complete" /\ status = "NeedsCompletion" ->
                        "InstallRollbackNeedsReboot"
                   [] OTHER -> "InstallRollbackFailed")
       /\ UNCHANGED <<todo, cleanup, apps>>

\* VerifyTarget.  A commit that was not downloaded now and is not deployed
\* may or may not be in the ostree repository.
VerifyFails ==
  /\ pc = "install"
  /\ todo \subseteq store => ~job.pull /\ job.tgt.hash \notin {booted, staged}
  /\ UNCHANGED rebootReq
  /\ InstallReturns("DownloadFailed")
  /\ UNCHANGED <<disk, curFile, tuf, published, session, bounds>>

\* The Target is good: disabled Apps and the ones about to be updated are
\* stopped, unless only ostree is to be installed.
StopApps ==
  /\ pc = "install"
  /\ todo \subseteq store
  /\ running' =
       IF job.mode = "OstreeOnly" THEN running
       ELSE (running \ Disabled(job.tgt)) \
              (IF booted # job.tgt.hash \/ StopAppsBeforeUpdate
                 THEN Named(running, NamesOf(todo)) ELSE {})
  /\ pc' = "deploy"
  /\ UNCHANGED <<disk, store, installed, curFile, tuf, published, session, job,
                 todo, rc, rebootReq, cleanup, result, bounds>>

\* A slip: a deployment that waits for a reboot is left in place.
NeedsDeployIfNotBooted == booted # job.tgt.hash

\* The Target is not booted, or another one is deployed and must be undone.
NeedsDeploy ==
  booted # job.tgt.hash \/ staged \notin {NoHash, job.tgt.hash}

\* Whether the Apps are installed in this process after the deployment.
AppsFollow(code) ==
  job.mode = "All" /\ (code = "Ok" \/ CreateContainersBeforeReboot)

Deploy ==
  /\ pc = "deploy"
  /\ IF NeedsDeploy
       THEN staged' = job.tgt.hash /\ needReboot' = TRUE /\ fellBack' = FALSE
       ELSE UNCHANGED <<staged, needReboot, fellBack>>
  /\ rc' = IF booted # job.tgt.hash THEN "NeedCompletion" ELSE "Ok"
  /\ pc' = IF job.mode = "OstreeOnly" THEN "save" ELSE "apps"
  /\ todo' = IF job.mode = "OstreeOnly" \/ AppsFollow(rc') THEN todo ELSE {}
  /\ UNCHANGED <<log, booted, apps, curFile, tuf, published, session, job,
                 rebootReq, cleanup, result, bounds>>

\* The bootloader was told of an update before the deployment failed.
DeployFails ==
  /\ pc = "deploy" /\ NeedsDeploy
  /\ Fault("deploy")
  /\ fellBack' = FALSE
  /\ rc' = "InstallFailed"
  /\ pc' = "save"
  /\ UNCHANGED <<log, booted, staged, needReboot, apps, curFile, tuf, published,
                 session, job, todo, rebootReq, cleanup, result, crashes,
                 publishes, commands>>

\* One App after the other; they are only created if a reboot follows.
InstallApp ==
  /\ pc = "apps"
  /\ \E u \in todo :
       /\ IF booted # job.tgt.hash THEN CreateApp(u) ELSE RunApp(u)
       /\ todo' = todo \ {u}
  /\ UNCHANGED <<disk, store, curFile, tuf, published, pc, session, job, rc,
                 rebootReq, cleanup, result, bounds>>

\* A failure does not end the loop; the last one decides the result.
InstallAppFails ==
  /\ pc = "apps"
  /\ \E u \in todo, code \in {"InstallFailed", "DownloadFailed"} :
       /\ Fault(AppFault(code)) /\ FailApp(u, code)
       /\ rc' = code /\ todo' = todo \ {u}
  /\ UNCHANGED <<disk, store, curFile, tuf, published, pc, session, job,
                 rebootReq, cleanup, result, crashes, publishes, commands>>

\* A slip: the previous Target's Apps are gone when its revert needs them.
CleanUpAlways == HandleRemovedApps(job.tgt)

\* Apps the Target does not have are removed if nothing is left to complete.
CleanUp == IF rc = "Ok" THEN HandleRemovedApps(job.tgt) ELSE UNCHANGED apps

AppsDone ==
  /\ pc = "apps" /\ todo = {}
  /\ CleanUp
  /\ pc' = "save"
  /\ UNCHANGED <<disk, curFile, tuf, published, session, job, todo, rc,
                 rebootReq, cleanup, result, bounds>>

\* Slips: a failed installation is recorded like one to complete; one to
\* complete is not recorded.
SavedLogPendingOnFailure ==
  CASE rc = "Ok" -> SaveInstalledVersion(log, job.tgt, "Current")
    [] rc = "DownloadFailed" -> log
    [] OTHER -> SaveInstalledVersion(log, job.tgt, "Pending")
SavedLogOnlyOk ==
  IF rc = "Ok" THEN SaveInstalledVersion(log, job.tgt, "Current") ELSE log

\* LiteClient::install: how the outcome is recorded.
SavedLog ==
  CASE rc = "NeedCompletion" ->
         IF job.tgt.hash = staged
           THEN SaveInstalledVersion(log, job.tgt, "Pending") ELSE log
    [] rc = "Ok" ->
         SaveInstalledVersion(log, job.tgt,
           IF job.mode = "OstreeOnly" THEN "Pending" ELSE "Current")
    [] rc = "DownloadFailed" -> log
    [] OTHER -> SaveInstalledVersion(log, job.tgt, "None")

SaveResult ==
  /\ pc = "save"
  /\ log' = SavedLog
  /\ rebootReq' = (rebootReq \/ rc = "NeedCompletion")
  /\ pc' = "file"
  /\ UNCHANGED <<booted, staged, fellBack, needReboot, apps, curFile, tuf,
                 published, session, job, todo, rc, cleanup, result, bounds>>

\* A slip: the result code is handed on as it is.
InstallStatusIsCode == rc

\* LiteInstall::Install: the status that the result code stands for.
InstallStatus ==
  CASE rc = "Ok" /\ job.mode = "All" -> "Ok"
    [] rc = "NeedCompletion" \/ (rc = "Ok" /\ job.mode = "OstreeOnly") ->
         IF PendingTarget(log).hash # job.tgt.hash THEN "BootFwNeedsCompletion"
         ELSE IF booted = job.tgt.hash THEN "AppsNeedCompletion"
         ELSE "NeedsCompletion"
    [] rc = "DownloadFailed" -> "DownloadFailed"
    [] OTHER -> "Failed"

\* The current Target's file follows the table.
InstallEnd ==
  /\ pc = "file"
  /\ curFile' = IF InstallStatus = "Ok" THEN job.tgt.name ELSE curFile
  /\ UNCHANGED rebootReq
  /\ InstallReturns(InstallStatus)
  /\ UNCHANGED <<disk, tuf, published, session, bounds>>

-----------------------------------------------------------------------------
(* The device and its environment. *)

\* The bootloader starts the deployment that is first in the list; when it
\* does not come up it falls back, and stays with the deployment before until
\* it is told of another update.
Boot ==
  /\ needReboot' = FALSE
  /\ \/ /\ staged = NoHash \/ fellBack
        /\ UNCHANGED <<booted, staged, fellBack, failures>>
     \/ /\ staged # NoHash /\ ~fellBack
        /\ booted' = staged /\ staged' = NoHash
        /\ UNCHANGED <<fellBack, failures>>
     \/ /\ staged # NoHash /\ ~fellBack
        /\ Fault("boot")
        /\ fellBack' = TRUE
        /\ UNCHANGED <<booted, staged>>

\* What is left of a process: nothing.
ProcessGone ==
  /\ pc' = "down" /\ session' = "daemon" /\ job' = NoJob /\ todo' = {}
  /\ rc' = "Ok" /\ rebootReq' = FALSE /\ cleanup' = TRUE /\ result' = "None"

\* AkliteClientExt::RebootIfRequired runs the reboot command.
Reboot ==
  /\ pc = "reboot"
  /\ Boot /\ ProcessGone
  /\ UNCHANGED <<log, apps, curFile, tuf, published, crashes, publishes,
                 commands>>

\* An operator reboots a device that waits for it.
OperatorReboot ==
  /\ pc = "down" /\ needReboot
  /\ Boot /\ ProcessGone
  /\ UNCHANGED <<log, apps, curFile, tuf, published, crashes, publishes,
                 commands>>

PowerCut ==
  /\ crashes < MaxCrashes
  /\ crashes' = crashes + 1
  /\ Boot /\ ProcessGone
  /\ UNCHANGED <<log, apps, curFile, tuf, published, publishes, commands>>

\* The process dies, or a reboot command that fails leaves the daemon's loop.
Kill ==
  /\ pc # "down"
  /\ crashes < MaxCrashes
  /\ crashes' = crashes + 1
  /\ ProcessGone
  /\ UNCHANGED <<disk, apps, curFile, tuf, published, failures, publishes,
                 commands>>

\* The server offers this device other Targets, newer or older ones.
Publish ==
  /\ publishes < MaxPublish
  /\ publishes' = publishes + 1
  /\ \E v \in 1 .. MaxVersion : v # published /\ published' = v
  /\ UNCHANGED <<disk, apps, curFile, tuf, proc, failures, crashes, commands>>

-----------------------------------------------------------------------------
Init ==
  /\ log = << >> /\ booted = FactoryHash /\ staged = NoHash
  /\ fellBack = FALSE /\ needReboot = FALSE
  /\ store = FactoryApps /\ installed = FactoryApps /\ running = FactoryApps
  /\ curFile = UnknownName
  /\ tuf = 0 /\ published \in 0 .. 1
  /\ pc = "down" /\ session = "daemon" /\ job = NoJob /\ todo = {}
  /\ rc = "Ok" /\ rebootReq = FALSE /\ cleanup = TRUE /\ result = "None"
  /\ failures = [k \in AllFailures |-> 0]
  /\ crashes = 0 /\ publishes = 0 /\ commands = 0

Finalize ==
  \/ FinalizeNotBooted \/ FinalizeRolledBack \/ FinalizeBooted
  \/ FinalizeApp \/ FinalizeAppFails \/ FinalizeAppsDone
  \/ FinalizeSave \/ FinalizeEnd

Update ==
  \/ DaemonCycle \/ CheckCommand \/ UpdateCommand
  \/ RollbackMark \/ RollbackUnmark \/ RollbackInstall
  \/ DownloadOk \/ PullFails \/ FetchFails

Install ==
  \/ VerifyFails \/ StopApps \/ Deploy \/ DeployFails
  \/ InstallApp \/ InstallAppFails \/ AppsDone
  \/ SaveResult \/ InstallEnd

\* The steps of a process, its start by systemd and its reboot command.
Progress == StartDaemon \/ Finalize \/ Update \/ Install \/ Reboot

Next ==
  \/ Progress
  \/ StartCommand \/ StopDaemon \/ OperatorReboot \/ PowerCut \/ Kill \/ Publish

Spec == Init /\ [][Next]_vars

\* The process is scheduled, and systemd starts the daemon whenever it is
\* down; nothing is assumed of operators, of the server or of crashes.
FairSpec == Spec /\ WF_vars(Progress)

-----------------------------------------------------------------------------
(* Properties. *)

\* The values the variables range over.
TypeOK ==
  /\ log \in Seq(Rows(Target))
  /\ booted \in Hash /\ staged \in Hash \cup {NoHash}
  /\ fellBack \in BOOLEAN /\ needReboot \in BOOLEAN
  /\ store \in SUBSET Uri /\ installed \in SUBSET Uri /\ running \in SUBSET Uri
  /\ curFile \in UnknownName .. MaxVersion
  /\ tuf \in 0 .. MaxVersion /\ published \in 0 .. MaxVersion
  /\ pc \in Pcs /\ session \in {"daemon"} \cup AllCommands
  /\ job \in Job /\ todo \in SUBSET Uri /\ rc \in Codes
  /\ rebootReq \in BOOLEAN /\ cleanup \in BOOLEAN /\ result \in Results
  /\ failures \in [AllFailures -> Nat] /\ crashes \in 0 .. MaxCrashes
  /\ publishes \in 0 .. MaxPublish /\ commands \in 0 .. MaxCommands

\* At most one row of the table is pending and at most one is current, in
\* whatever order processes, kills and reboots interleave: every query of
\* LiteClient takes the one row it finds for the truth.
OneOfAKind ==
  /\ \A i, j \in PendingRows(log) : i = j
  /\ \A i, j \in CurrentRows(log) : i = j

\* GetTargetToInstall never picks a failing Target to roll back to: the
\* branch it marks "We should never get here" is not reached.
RollbackTargetIsGood == result # "BadRollbackTarget"

\* A pending Target waits for a reboot: the daemon is about to reboot, or it
\* was killed before and the reboot is up to the operator.
AwaitsReboot ==
  IsPending(log) /\ needReboot /\ booted # PendingTarget(log).hash

\* A pending Target that still waits for its reboot is the one the next boot
\* tries: no revert, failed install or rollback command replaces the
\* deployment and leaves the record, which finalizeInstall would then take
\* for a rollback by the bootloader.
PendingCanComplete == AwaitsReboot => staged = PendingTarget(log).hash

\* When LiteClient::install or finalizePendingUpdate is about to record a
\* Target as current all of its Apps run.  The exceptions are a failing Target
\* installed over the initial one, see FailingTargetIsSkipped, and the rollback
\* command, see RollbackOkRunsApps.
OkMeansAppsRun ==
  /\ pc = "finalizeSave" /\ rc = "Ok" => job.tgt.apps \subseteq running
  /\ pc = "save" /\ rc = "Ok" /\ job.mode = "All"
       => \/ job.tgt.apps \subseteq running
          \/ job.prev.name = InitialName /\ IsFailing(log, job.tgt)
          \/ session = "rollback"

\* A rollback reported as done leaves no other deployment for the next boot,
\* unless the bootloader itself has already given it up.
RollbackOkUndeploys ==
  result = "InstallRollbackOk" => staged \in {NoHash, booted} \/ fellBack

\* PullAndInstall at work, from the download to the result of the install.
AtWork == pc \in {"download", "install", "deploy", "apps", "save", "file"}

\* While PullAndInstall is at work on a Target no App of the previous Target
\* leaves the store, until the new one is completely installed: the download,
\* an installation that fails or waits for its reboot, and the start of the
\* revert prune nothing the revert needs.  The rollback command is an
\* exception, it checks the Apps for the first time when it reverts.
PreviousAppsAreKept ==
  [][/\ AtWork /\ job'.prev = job.prev /\ session # "rollback"
     /\ ~(pc = "apps" /\ rc = "Ok")
     => store \cap job.prev.apps \subseteq store']_vars

\* Without crashes and commands the file /var/sota/current-target, once
\* written, names the Target the idle daemon takes for the current one, unless
\* the device is booted on another commit than the recorded one and that
\* Target is found by its hash only.
CurrentFileFollows ==
  /\ Commands = {} /\ crashes = 0
  /\ pc = "idle" /\ session = "daemon" /\ curFile # UnknownName
  => curFile = CurrentTarget(log, booted).name \/ RecordedHash(log) # booted

\* The daemon starts the installation of a failing Target only to bring the
\* Apps of the current one in sync, or when the current one is the initial
\* Target, see FailingTargetIsSkipped.
DaemonSkipsFailing ==
  pc = "download" /\ session = "daemon" /\ IsFailing(log, job.tgt)
    => CurrentTarget(log, booted).name \in {job.tgt.name, InitialName}

\* Without crashes and commands the device boots another deployment only if
\* the table has its Target as the pending one, so that finalizeInstall runs
\* on it: an App that fails after the deployment leads to a revert that
\* deploys the old one again.
BootsPendingOnly ==
  [][Commands = {} /\ crashes' = 0 /\ booted' # booted
       => PendingTarget(log).hash = booted']_vars

-----------------------------------------------------------------------------
(* The abstract specification that the update cycle implements. *)

Lifecycle == INSTANCE TargetLifecycle WITH
  Factory   <- FactoryHash,
  MayCancel <- "rollback" \in Commands,
  current   <- RecordedHash(log),
  pending   <- PendingTarget(log).hash,
  next      <- staged,
  fresh     <- needReboot

\* Every step of the client, of a command, of a crash or a boot is a step of
\* TargetLifecycle or leaves the records and deployments alone: only the
\* booted commit is recorded as current, only one that is deployed or booted
\* as pending, nothing is deployed over a Target that waits for its reboot,
\* and only the rollback command gives such a Target up.
ImplementsLifecycle == Lifecycle!Spec

-----------------------------------------------------------------------------
(* What comments and documentation say and the code does not do; each of   *)
(* these is refuted by a run of its own.                                   *)

\* aklite_client_ext.cc on failing Targets: "if so then skip an update to the
\* such version/Target".  The daemon installs a failing Target only if it is
\* the current one, whose Apps are to be in sync.
FailingTargetIsSkipped ==
  pc = "download" /\ session = "daemon" /\ IsFailing(log, job.tgt)
    => CurrentTarget(log, booted).name = job.tgt.name

\* The documentation of the rollback command, on its exit code 0: "Rollback
\* executed successfully. No reboot required".  The Apps of the Target that
\* is then the current one run.
RollbackOkRunsApps ==
  pc = "down" /\ session = "rollback" /\ result = "Ok"
    => CurrentTarget(log, booted).apps \subseteq running

\* api.h on InstallMode: "The fetched Apps are installed and started during
\* the finalization phase".  While a Target waits for its reboot its Apps stay
\* in the store.
PendingAppsAreKept == AwaitsReboot => PendingTarget(log).apps \subseteq store

-----------------------------------------------------------------------------
(* Liveness. *)

\* The device runs version v and all of its Apps.
Runs(v) ==
  /\ CurrentTarget(log, booted) = TufTarget(v)
  /\ AppsOf[v] \subseteq running /\ ~IsPending(log)

UpToDate ==
  GetTargetToInstall(tuf, -1, FALSE, FALSE, FALSE).status
    \in {"NoUpdate", "TufTargetNotFound"}

\* The current Target failed and is no longer among the published ones, so
\* that AkliteClient::Installer refuses to bring its Apps in sync.
CurrentIsLost ==
  LET current == CurrentTarget(log, booted)
  IN  IsFailing(log, current) /\ ~InstallerFinds(current, tuf, FALSE)

\* Once crashes, failures and new Targets have ceased the daemon settles: it
\* finds nothing more to do, and if nothing ever failed the device runs the
\* latest published Target.  (Unless images failed to load: a finalization
\* that meets them records nothing, and the Target stays pending.)
Converges ==
  <>[](\/ AwaitsReboot
       \/ failures["image"] > 0
       \/ CurrentIsLost
       \/ /\ UpToDate /\ ~IsPending(log)
          /\ AutoDowngrade /\ AllFaults = 0 /\ published > 0 => Runs(published))
=============================================================================
