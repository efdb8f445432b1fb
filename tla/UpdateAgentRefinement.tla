------------------------ MODULE UpdateAgentRefinement ------------------------
(***************************************************************************)
(* UpdateAgent implements TargetLifecycle, for every choice of Targets,    *)
(* Apps, settings, commands and bounds; and the invariants of UpdateAgent  *)
(* that rest on what the table records: what a rollback leaves deployed,   *)
(* which Targets the daemon skips, what is booted and named as current,    *)
(* and which Apps run when a Target is recorded.                           *)
(***************************************************************************)
EXTENDS UpdateAgentProofs

\* A Target one can install: it has a commit and a name.
RealTarget == {t \in Target : t.hash \in Hash /\ t.name # UnknownName}

\* The booted commit has a row in the table.
Known == \E i \in DOMAIN log : log[i].target.hash = booted

(* The mapping needs more than PendingInv.  What is deployed has a commit;  *)
(* the initial Target, whose record would end a pending one, is saved only  *)
(* right after a boot into a commit that a kill kept from being recorded;   *)
(* and only the rollback command gives up a pending Target.                 *)
RecordInv ==
  /\ log \in Seq(Rows(RealTarget))
  /\ Known \/ (pc = "down" /\ ~needReboot)
  /\ session \in {"daemon"} \cup Commands
  /\ pc \in {"download", "install", "deploy", "apps", "save"}
       => job.tgt \in RealTarget
  /\ pc = "unmark" => IsPending(log) /\ session = "rollback"

-----------------------------------------------------------------------------
(* Where Targets come from. *)

\* The current Target is real when its commit has a row.
LEMMA CurrentIsReal ==
  ASSUME TypeOK, log \in Seq(Rows(RealTarget)), Known
  PROVE  CurrentTarget(log, booted) \in RealTarget
<1> DEFINE current == {i \in CurrentRows(log) : log[i].target.hash = booted}
           booting == {i \in DOMAIN log : log[i].target.hash = booted}
<1>1. /\ current \in SUBSET DOMAIN log
      /\ booting \in SUBSET DOMAIN log /\ booting # {}
  BY Zenon DEF CurrentRows, Known
<1>2. CurrentTarget(log, booted) =
        IF current # {} THEN log[LastRow(current)].target
                        ELSE log[LastRow(booting)].target
  BY Zenon, <1>1 DEF CurrentTarget
<1> HIDE DEF current, booting
<1>3. log[LastRow(booting)].target \in RealTarget
  BY Zenon, <1>1, RowOfTable
<1>4. current # {} => log[LastRow(current)].target \in RealTarget
  BY Zenon, <1>1, RowOfTable
<1> QED
  BY Zenon, <1>2, <1>3, <1>4

\* A Target the Installer finds is real.
LEMMA FoundIsReal ==
  ASSUME TypeOK, log \in Seq(Rows(RealTarget)), NEW t \in Target,
         NEW latest \in 0 .. MaxVersion, NEW requireInTuf,
         InstallerFinds(t, latest, requireInTuf)
  PROVE  t \in RealTarget
<1>1. MaxVersion \in Nat /\ HashOf \in [1 .. MaxVersion -> Hash]
  BY Zenon, ConstantsAssumption
<1>2. CASE t.name \in 1 .. latest /\ t = TufTarget(t.name)
  <2>1. t.name \in 1 .. MaxVersion /\ t.name # UnknownName
    BY <1>1, <1>2 DEF UnknownName
  <2>2. t.hash = HashOf[t.name]
    BY <1>2 DEF TufTarget
  <2> QED
    BY Zenon, <1>1, <2>1, <2>2 DEF RealTarget
<1>3. CASE WasTargetInstalled(log, t)
  <2>1. PICK i \in DOMAIN log : SameTarget(log[i].target, t)
    BY Zenon, <1>3 DEF WasTargetInstalled, InstalledRows
  <2>2. log[i].target \in RealTarget
    <3>1. DOMAIN log = 1 .. Len(log) /\ Len(log) \in Nat
      BY Zenon, LenProperties
    <3>2. log[i] \in Rows(RealTarget)
      BY Zenon, <2>1, <3>1, ElementOfSeq
    <3> QED
      BY Zenon, <3>2 DEF Rows
  <2> QED
    BY Zenon, <2>1, <2>2 DEF SameTarget, RealTarget
<1> QED
  BY Zenon, <1>2, <1>3 DEF InstallerFinds

\* The pending Target and the one to roll back to are real, if there are any.
LEMMA QueriesAreReal ==
  ASSUME TypeOK, log \in Seq(Rows(RealTarget))
  PROVE  /\ IsPending(log) => PendingTarget(log) \in RealTarget
         /\ \A allow \in BOOLEAN : RollbackTarget(log, allow) # UnknownTarget
              => RollbackTarget(log, allow) \in RealTarget
<1>1. IsPending(log) => PendingTarget(log) \in RealTarget
  <2>1. PendingRows(log) \in SUBSET DOMAIN log
    BY Zenon DEF PendingRows
  <2> QED
    BY Zenon, <2>1, RowOfTable DEF PendingTarget, IsPending
<1>2. ASSUME NEW allow \in BOOLEAN, RollbackTarget(log, allow) # UnknownTarget
      PROVE  RollbackTarget(log, allow) \in RealTarget
  <2> DEFINE rows == {i \in InstalledRows(log) : allow \/ ~log[i].cur}
  <2>1. rows # {} /\ RollbackTarget(log, allow) = log[LastRow(rows)].target
    BY Zenon, <1>2 DEF RollbackTarget
  <2>2. rows \in SUBSET DOMAIN log
    BY Zenon DEF InstalledRows
  <2> HIDE DEF rows
  <2>3. log[LastRow(rows)].target \in RealTarget
    BY Zenon, <2>1, <2>2, RowOfTable
  <2> QED
    BY Zenon, <2>1, <2>3
<1> QED
  BY Zenon, <1>1, <1>2

\* A save of a real Target keeps the rows real and the booted commit known.
LEMMA SaveKeepsReal ==
  ASSUME log \in Seq(Rows(RealTarget)), NEW t \in RealTarget, NEW mode,
         log' = SaveInstalledVersion(log, t, mode), booted' = booted
  PROVE  /\ log' \in Seq(Rows(RealTarget))
         /\ Known \/ t.hash = booted => Known'
<1>1. log' \in Seq(Rows(RealTarget))
  BY Zenon, SaveType
<1>2. /\ Len(log') >= 1 /\ log'[Len(log')].target.hash = t.hash
      /\ \A i \in DOMAIN log : i \in DOMAIN log' /\ log'[i].target = log[i].target
  BY SaveLast
<1>3. Len(log') \in DOMAIN log'
  <2>1. DOMAIN log' = 1 .. Len(log') /\ Len(log') \in Nat
    BY Zenon, <1>1, LenProperties
  <2> QED
    BY <1>2, <2>1
<1> QED
  BY Zenon, <1>1, <1>2, <1>3 DEF Known
-----------------------------------------------------------------------------
(* RecordInv is inductive. *)

\* Every step keeps RecordInv.
LEMMA RecordInvStep ==
  ASSUME TypeOK, TypeOK', OneOfAKind, PendingInv, RecordInv, [Next]_vars
  PROVE  RecordInv'
<1> DEFINE work == {"download", "install", "deploy", "apps", "save"}
<1>log. log \in Seq(Rows(RealTarget))
  BY Zenon DEF RecordInv
<1>known. pc # "down" => Known
  BY Zenon DEF RecordInv
<1>tuf. /\ tuf \in 0 .. MaxVersion /\ tuf' \in 0 .. MaxVersion
        /\ published \in 0 .. MaxVersion
  BY Zenon DEF TypeOK
<1>job. job'.tgt \in Target /\ job.tgt \in Target /\ job.prev \in Target
  BY Zenon, JobTypes DEF TypeOK
<1>ret. \A r : Return(r) => pc' \in {"down", "reboot", "idle"}
  BY Zenon DEF Return
\* A step of a process that leaves the table alone.
<1>run. ASSUME UNCHANGED <<log, booted, session>>, pc # "down", pc' # "unmark",
               pc' \in work => job'.tgt \in RealTarget
        PROVE  RecordInv'
  BY Zenon, <1>run, <1>known DEF RecordInv, Known
\* A step of a process that saves a real Target.
<1>save. ASSUME NEW t \in RealTarget, NEW mode,
                log' = SaveInstalledVersion(log, t, mode), pc # "down",
                UNCHANGED <<booted, session>>, pc' \notin work \cup {"unmark"}
         PROVE  RecordInv'
  <2>1. log' \in Seq(Rows(RealTarget)) /\ Known'
    BY Zenon, <1>log, <1>known, <1>save, SaveKeepsReal
  <2> QED
    BY Zenon, <1>save, <2>1 DEF RecordInv
<1>pull. ASSUME NEW t \in Target, NEW latest \in 0 .. MaxVersion, NEW mode,
                NEW pull, NEW inst, NEW inTuf,
                PullAndInstall(t, latest, mode, pull, inst, inTuf),
                UNCHANGED <<log, booted, session>>, pc # "down"
         PROVE  RecordInv'
  <2>1. CASE pc' \in {"down", "reboot", "idle"}
    BY Zenon, <1>pull, <1>run, <2>1
  <2>2. CASE /\ InstallerFinds(t, latest, inTuf)
             /\ pc' \in {"download", "install"} /\ job'.tgt = t
    <3>1. t \in RealTarget
      BY Zenon, <1>log, <1>pull, <2>2, FoundIsReal
    <3> QED
      BY Zenon, <1>pull, <1>run, <2>2, <3>1
  <2> QED
    BY <1>pull, <1>ret, <2>1, <2>2 DEF PullAndInstall
<1>inst. ASSUME NEW status, InstallReturns(status),
                UNCHANGED <<log, booted, session>>, pc # "down"
         PROVE  RecordInv'
  <2>1. CASE pc' \in {"down", "reboot", "idle"}
    BY Zenon, <1>inst, <1>run, <2>1
  <2>2. CASE /\ InstallerFinds(job.prev, tuf, FALSE)
             /\ pc' = "install" /\ job'.tgt = job.prev
    <3>1. job.prev \in RealTarget
      BY Zenon, <1>log, <1>job, <1>tuf, <2>2, FoundIsReal
    <3> QED
      BY Zenon, <1>inst, <1>run, <2>2, <3>1
  <2>3. job.phase = "update" /\ status = "Failed" => Revert
    BY Zenon, <1>inst DEF InstallReturns
  <2>4. ~(job.phase = "update" /\ status = "Failed") => \E r : Return(r)
    BY Zenon, <1>inst DEF InstallReturns
  <2>5. [job EXCEPT !.phase = "revert", !.tgt = job.prev, !.mode = "All"].tgt
          = job.prev
    BY Zenon DEF TypeOK, Job
  <2>6. Revert => \/ \E r : Return(r)
                  \/ /\ InstallerFinds(job.prev, tuf, FALSE)
                     /\ pc' = "install" /\ job'.tgt = job.prev
    BY Zenon, <2>5 DEF Revert
  <2> QED
    BY Zenon, <1>ret, <2>1, <2>2, <2>3, <2>4, <2>6
<1>1. ASSUME NEW s \in {"daemon"} \cup Commands, StartProcess(s)
      PROVE  RecordInv'
  <2>1. log' \in Seq(Rows(RealTarget)) /\ Known'
    <3>1. CASE CurrentTarget(log, booted).name = UnknownName
      <4>1. InitialTarget \in RealTarget /\ InitialTarget.hash = booted
        <5>1. InitialTarget.hash = booted /\ InitialTarget.name # UnknownName
          BY DEF InitialTarget, InitialName, UnknownName
        <5>2. InitialTarget \in Target /\ booted \in Hash
          BY Zenon, InitialTargetType DEF TypeOK
        <5> QED
          BY Zenon, <5>1, <5>2 DEF RealTarget
      <4>2. /\ log' = SaveInstalledVersion(log, InitialTarget, "Current")
            /\ booted' = booted
        BY Zenon, <1>1, <3>1 DEF StartProcess
      <4> QED
        BY Zenon, <1>log, <4>1, <4>2, SaveKeepsReal
    <3>2. CASE CurrentTarget(log, booted).name # UnknownName
      <4>1. ~Known => CurrentTarget(log, booted).name = UnknownName
        BY Zenon DEF Known, CurrentTarget, CurrentRows, UnknownTarget
      <4>2. UNCHANGED <<log, booted>>
        BY Zenon, <1>1, <3>2 DEF StartProcess
      <4> QED
        BY Zenon, <1>log, <3>2, <4>1, <4>2 DEF Known
    <3> QED
      BY Zenon, <3>1, <3>2
  <2>2. session' = s /\ pc' \notin work \cup {"unmark"}
    BY Zenon, <1>1 DEF StartProcess
  <2> QED
    BY Zenon, <1>1, <2>1, <2>2 DEF RecordInv
<1>2. CASE StartDaemon \/ StartCommand
  BY Zenon, <1>1, <1>2 DEF StartDaemon, StartCommand
<1>3. CASE \/ FinalizeNotBooted \/ FinalizeRolledBack \/ FinalizeBooted
           \/ FinalizeApp \/ FinalizeAppFails \/ FinalizeAppsDone \/ StopDaemon
  BY Zenon, <1>3, <1>run
  DEF FinalizeNotBooted, FinalizeRolledBack, FinalizeBooted, FinalizeApp,
      FinalizeAppFails, FinalizeAppsDone, StopDaemon, disk
<1>4. CASE FinalizeSave
  <2>1. job.tgt \in RealTarget
    BY Zenon, <1>4, <1>log, QueriesAreReal DEF FinalizeSave, PendingInv
  <2>2. \/ log' = log
        \/ \E mode : log' = SaveInstalledVersion(log, job.tgt, mode)
    BY Zenon, <1>4 DEF FinalizeSave, FinalizedLog
  <2>3. /\ UNCHANGED <<booted, session>> /\ pc # "down"
        /\ pc' \notin work \cup {"unmark"}
    BY Zenon, <1>4 DEF FinalizeSave
  <2> QED
    BY Zenon, <1>run, <1>save, <2>1, <2>2, <2>3
<1>5. CASE FinalizeEnd
  <2>1. /\ UNCHANGED <<log, booted, session>> /\ pc # "down"
    BY Zenon, <1>5 DEF FinalizeEnd, disk
  <2>2. \A t : [NoJob EXCEPT !.phase = "complete", !.tgt = t].tgt = t
    BY Zenon DEF NoJob
  <2>3. \/ \E r : Return(r)
        \/ CompleteWith(CurrentTarget(log, booted))
        \/ /\ RollbackTarget(log, TRUE) # UnknownTarget
           /\ CompleteWith(RollbackTarget(log, TRUE))
    BY ZenonT(60), <1>5 DEF FinalizeEnd, SyncAfterBootRollback, RollbackAfterAppFailure
  <2>4. /\ CurrentTarget(log, booted) \in RealTarget
        /\ RollbackTarget(log, TRUE) # UnknownTarget
             => RollbackTarget(log, TRUE) \in RealTarget
    BY Zenon, <1>log, <1>known, <2>1, CurrentIsReal, QueriesAreReal
  <2>5. ASSUME NEW t \in RealTarget, CompleteWith(t) PROVE RecordInv'
    BY Zenon, <1>run, <2>1, <2>2, <2>5 DEF CompleteWith
  <2>6. ASSUME NEW r, Return(r) PROVE RecordInv'
    BY Zenon, <1>ret, <1>run, <2>1, <2>6
  <2> QED
    BY Zenon, <2>3, <2>4, <2>5, <2>6
<1>6. CASE DaemonCycle
  <2> DEFINE choice == GetTargetToInstall(published, -1, FALSE, FALSE, FALSE)
             inTuf  == choice.status = "UpdateNewVersion"
  <2>1. \/ Return(choice.status)
        \/ PullAndInstall(choice.tgt, published, "All", TRUE, TRUE, inTuf)
    BY ZenonT(60), <1>6 DEF DaemonCycle
  <2>2. UNCHANGED <<log, booted, session>> /\ pc # "down"
    BY Zenon, <1>6 DEF DaemonCycle, disk
  <2>3. choice.tgt \in Target
    BY Zenon, <1>tuf, ChoiceType
  <2> HIDE DEF choice, inTuf
  <2>4. CASE Return(choice.status)
    BY Zenon, <1>ret, <1>run, <2>2, <2>4
  <2> QED
    BY Zenon, <1>tuf, <1>pull, <2>1, <2>2, <2>3, <2>4
<1>7. CASE CheckCommand
  <2>1. \E r : Return(r)
    BY ZenonT(60), <1>7 DEF CheckCommand
  <2>2. UNCHANGED <<log, booted, session>> /\ pc # "down"
    BY Zenon, <1>7 DEF CheckCommand, disk
  <2> QED
    BY Zenon, <1>ret, <1>run, <2>1, <2>2
<1>8. CASE UpdateCommand
  <2>1. PICK v \in {-1} \cup 1 .. MaxVersion, mode \in {"All", "OstreeOnly"} :
          LET choice == GetTargetToInstall(tuf', v, TRUE, TRUE, TRUE)
          IN  IF IsPending(log) THEN Return("InstallationInProgress")
              ELSE IF choice.tgt = UnknownTarget THEN Return(choice.status)
              ELSE PullAndInstall(choice.tgt, tuf', mode,
                     session # "install", session # "pull",
                     choice.status = "UpdateNewVersion")
    BY Zenon, <1>8 DEF UpdateCommand
  <2> DEFINE latest == tuf'
             choice == GetTargetToInstall(latest, v, TRUE, TRUE, TRUE)
             pull   == session # "install"
             inst   == session # "pull"
             inTuf  == choice.status = "UpdateNewVersion"
  <2>2. \/ \E r : Return(r)
        \/ PullAndInstall(choice.tgt, latest, mode, pull, inst, inTuf)
    BY ZenonT(60), <2>1
  <2>3. UNCHANGED <<log, booted, session>> /\ pc # "down"
    BY Zenon, <1>8 DEF UpdateCommand, disk
  <2>4. choice.tgt \in Target
    BY Zenon, <1>tuf, <2>1, ChoiceType
  <2>5. latest \in 0 .. MaxVersion
    BY Zenon, <1>tuf
  <2> HIDE DEF latest, choice, pull, inst, inTuf
  <2>6. CASE \E r : Return(r)
    BY Zenon, <1>ret, <1>run, <2>3, <2>6
  <2> QED
    BY Zenon, <1>pull, <2>2, <2>3, <2>4, <2>5, <2>6
<1>9. CASE RollbackMark
  <2>1. PICK t : log' = SaveBadTarget(log, t)
    BY ZenonT(30), <1>9 DEF RollbackMark
  <2>2. /\ UNCHANGED <<booted, session>> /\ pc # "down"
        /\ session = "rollback" /\ pc' \notin work
        /\ pc' = "unmark" => IsPending(log)
    BY Zenon, <1>9, <1>ret DEF RollbackMark
  <2>3. log' \in Seq(Rows(RealTarget))
    BY Zenon, <1>log, <2>1, SaveBadType
  <2>4. IsPending(log') <=> IsPending(log)
    BY Zenon, <2>1, SaveBadPending DEF TypeOK, OneOfAKind, UniqueFlags
  <2>5. Known'
    BY Zenon, <1>known, <2>1, <2>2 DEF Known, SaveBadTarget
  <2> QED
    BY Zenon, <2>2, <2>3, <2>4, <2>5 DEF RecordInv
<1>10. CASE RollbackUnmark
  <2>1. PendingTarget(log) \in RealTarget
    BY Zenon, <1>10, <1>log, QueriesAreReal DEF RollbackUnmark, RecordInv
  <2> QED
    BY Zenon, <1>10, <1>save, <2>1 DEF RollbackUnmark
<1>11. CASE RollbackInstall
  <2> DEFINE pull == job.pull
  <2>1. /\ PullAndInstall(job.tgt, tuf, "All", pull, TRUE, pull)
        /\ UNCHANGED <<log, booted, session>> /\ pc # "down"
    BY Zenon, <1>11 DEF RollbackInstall, disk
  <2> HIDE DEF pull
  <2> QED
    BY Zenon, <1>job, <1>tuf, <1>pull, <2>1
<1>12. CASE DownloadOk
  <2>1. /\ UNCHANGED <<log, booted, session>> /\ pc = "download"
        /\ pc' \in {"down", "reboot", "idle"} \/ (pc' = "install" /\ job' = job)
    BY Zenon, <1>12, <1>ret DEF DownloadOk, disk
  <2> QED
    BY Zenon, <1>run, <2>1 DEF RecordInv
<1>13. CASE PullFails \/ FetchFails
  BY Zenon, <1>13, <1>ret, <1>run DEF PullFails, FetchFails, DownloadFails, disk
<1>14. CASE VerifyFails
  BY Zenon, <1>14, <1>inst DEF VerifyFails, disk
<1>15. CASE \/ StopApps \/ Deploy \/ DeployFails \/ InstallApp
            \/ InstallAppFails \/ AppsDone
  <2>1. /\ UNCHANGED <<log, booted, session, job>>
        /\ pc \in work /\ pc' \in work
    <3>1. CASE StopApps
      BY Zenon, <3>1 DEF StopApps, disk
    <3>2. CASE Deploy
      BY Zenon, <3>2 DEF Deploy, disk
    <3>3. CASE DeployFails
      BY Zenon, <3>3 DEF DeployFails, disk
    <3>4. CASE InstallApp
      BY Zenon, <3>4 DEF InstallApp, disk
    <3>5. CASE InstallAppFails
      BY Zenon, <3>5 DEF InstallAppFails, disk
    <3>6. CASE AppsDone
      BY Zenon, <3>6 DEF AppsDone, disk
    <3> QED
      BY Zenon, <1>15, <3>1, <3>2, <3>3, <3>4, <3>5, <3>6
  <2> QED
    BY Zenon, <1>run, <2>1 DEF RecordInv
<1>16. CASE SaveResult
  <2>1. job.tgt \in RealTarget
    BY Zenon, <1>16 DEF SaveResult, RecordInv
  <2>2. \/ log' = log
        \/ \E mode : log' = SaveInstalledVersion(log, job.tgt, mode)
    BY ZenonT(30), <1>16 DEF SaveResult, SavedLog
  <2>3. /\ UNCHANGED <<booted, session>> /\ pc # "down"
        /\ pc' \notin work \cup {"unmark"}
    BY ZenonT(30), <1>16 DEF SaveResult
  <2> QED
    BY Zenon, <1>run, <1>save, <2>1, <2>2, <2>3
<1>17. CASE InstallEnd
  BY Zenon, <1>17, <1>inst DEF InstallEnd, disk
<1>18. CASE Reboot \/ OperatorReboot \/ PowerCut
  <2>1. /\ log' = log /\ ~needReboot' /\ pc' = "down" /\ session' = "daemon"
    BY Zenon, <1>18 DEF Reboot, OperatorReboot, PowerCut, Boot, ProcessGone
  <2> QED
    BY Zenon, <1>log, <2>1 DEF RecordInv
<1>19. CASE Kill
  BY Zenon, <1>19, <1>log, <1>known DEF Kill, ProcessGone, RecordInv, Known, disk
<1>20. CASE Publish \/ UNCHANGED vars
  <2>1. UNCHANGED <<log, booted, needReboot, pc, session, job>>
    BY Zenon, <1>20 DEF Publish, vars, disk, proc
  <2> QED
    BY Zenon, <2>1 DEF RecordInv, Known
<1> QED
  BY ZenonT(30), <1>2, <1>3, <1>4, <1>5, <1>6, <1>7, <1>8, <1>9, <1>10, <1>11,
     <1>12, <1>13, <1>14, <1>15, <1>16, <1>17, <1>18, <1>19, <1>20
  DEF Next, Progress, Finalize, Update, Install

-----------------------------------------------------------------------------
(* The refinement. *)

\* A step of UpdateAgent is one of TargetLifecycle or changes none of its
\* variables.
LEMMA LifecycleStep ==
  ASSUME TypeOK, OneOfAKind, PendingInv, RecordInv, [Next]_vars
  PROVE  [Lifecycle!Next]_(Lifecycle!lvars)
<1> USE DEF PendingIsDeployed, PendingIsGone
<1>log. log \in Seq(Rows(Target)) /\ UniqueFlags(log)
  BY Zenon DEF TypeOK, OneOfAKind, UniqueFlags
<1>none. ~IsPending(log) => PendingTarget(log).hash = NoHash
  BY Zenon DEF PendingTarget, UnknownTarget
<1>none2. ~IsPending(log') => PendingTarget(log').hash = NoHash
  BY Zenon DEF PendingTarget, UnknownTarget
<1>wait. Lifecycle!Waiting <=>
           PendingTarget(log).hash \notin {NoHash, booted}
  BY Zenon DEF Lifecycle!Waiting
<1>real. booted \in Hash /\ NoHash \notin Hash
  BY Zenon, ConstantsAssumption DEF TypeOK
\* The records and the deployments are left alone.
<1>same. ASSUME UNCHANGED <<log, booted, staged, needReboot>>
         PROVE  [Lifecycle!Next]_(Lifecycle!lvars)
  BY Zenon, <1>same DEF Lifecycle!lvars
\* The booted Target is recorded as current.
<1>current. ASSUME NEW t \in Target, t.hash = booted,
                   log' = SaveInstalledVersion(log, t, "Current"),
                   UNCHANGED <<booted, staged, needReboot>>,
                   ~(Lifecycle!Waiting /\ needReboot)
            PROVE  [Lifecycle!Next]_(Lifecycle!lvars)
  <2>1. RecordedHash(log') = booted
    BY <1>log, <1>current, SaveRecorded
  <2>2. PendingTarget(log').hash = NoHash
    BY Zenon, <1>log, <1>none2, <1>current, SavedAsCurrent
  <2>3. Lifecycle!Record
    BY Zenon, <1>current, <2>1, <2>2 DEF Lifecycle!Record
  <2> QED
    BY Zenon, <2>3 DEF Lifecycle!Next
\* A Target is saved without flags.
<1>failed. ASSUME NEW t \in Target,
                  log' = SaveInstalledVersion(log, t, "None"),
                  UNCHANGED <<booted, staged, needReboot>>,
                  Lifecycle!Waiting /\ needReboot => "rollback" \in Commands
           PROVE  [Lifecycle!Next]_(Lifecycle!lvars)
  <2>1. RecordedHash(log') \in {RecordedHash(log), NoHash}
    BY Zenon, <1>log, <1>failed, SaveRecorded
  <2>2. PendingTarget(log').hash \in {PendingTarget(log).hash, NoHash}
    BY Zenon, <1>log, <1>none2, <1>failed, SavedAsNone
  <2>3. Lifecycle!Withdraw
    BY Zenon, <1>failed, <2>1, <2>2 DEF Lifecycle!Withdraw
  <2> QED
    BY Zenon, <2>3 DEF Lifecycle!Next
<1>1. ASSUME NEW s, StartProcess(s)
      PROVE  [Lifecycle!Next]_(Lifecycle!lvars)
  <2>1. UNCHANGED <<booted, staged, needReboot>>
    BY Zenon, <1>1 DEF StartProcess
  <2>2. CASE log' = log
    BY Zenon, <1>same, <2>1, <2>2
  <2>3. CASE /\ CurrentTarget(log, booted).name = UnknownName
             /\ log' = SaveInstalledVersion(log, InitialTarget, "Current")
    <3>1. Known => CurrentTarget(log, booted).name # UnknownName
      BY Zenon, CurrentIsReal DEF RecordInv, RealTarget
    <3>2. ~needReboot
      BY Zenon, <2>3, <3>1 DEF RecordInv
    <3>3. InitialTarget \in Target /\ InitialTarget.hash = booted
      BY Zenon, InitialTargetType DEF InitialTarget
    <3> QED
      BY Zenon, <1>current, <2>1, <2>3, <3>2, <3>3
  <2> QED
    BY Zenon, <1>1, <2>2, <2>3 DEF StartProcess
<1>2. CASE StartDaemon \/ StartCommand
  BY Zenon, <1>1, <1>2 DEF StartDaemon, StartCommand
<1>3. CASE FinalizeSave
  <2>1. UNCHANGED <<booted, staged, needReboot>> /\ log' = FinalizedLog
    BY Zenon, <1>3 DEF FinalizeSave
  <2>2. /\ job.tgt = PendingTarget(log) /\ job.tgt \in Target
        /\ booted # PendingTarget(log).hash => rc = "InstallFailed" /\ ~needReboot
    BY Zenon, <1>3, QueryFacts DEF FinalizeSave, PendingInv
  <2>3. CASE rc = "Ok"
    BY Zenon, <1>current, <1>wait, <2>1, <2>2, <2>3 DEF FinalizedLog
  <2>4. CASE rc \in {"InstallFailed", "CustomError"}
    BY Zenon, <1>failed, <1>wait, <2>1, <2>2, <2>4 DEF FinalizedLog
  <2>5. CASE rc \notin {"Ok", "InstallFailed", "CustomError"}
    BY Zenon, <1>same, <2>1, <2>5 DEF FinalizedLog
  <2> QED
    BY Zenon, <2>3, <2>4, <2>5
<1>4. CASE RollbackMark
  <2>1. PICK t : log' = SaveBadTarget(log, t)
    BY ZenonT(30), <1>4 DEF RollbackMark
  <2>2. UNCHANGED <<booted, staged, needReboot>>
    BY Zenon, <1>4 DEF RollbackMark
  <2>3. RecordedHash(log') = RecordedHash(log)
    BY Zenon, <1>log, <2>1, SaveBadRecorded
  <2>4. PendingTarget(log').hash = PendingTarget(log).hash
    BY Zenon, <1>log, <1>none, <1>none2, <2>1, SaveBadPending
  <2> QED
    BY Zenon, <2>2, <2>3, <2>4 DEF Lifecycle!lvars
<1>5. CASE RollbackUnmark
  <2>1. "rollback" \in Commands
    BY Zenon, <1>5 DEF RollbackUnmark, RecordInv
  <2>2. PendingTarget(log) \in Target
    BY Zenon, QueryFacts
  <2> QED
    BY Zenon, <1>5, <1>failed, <2>1, <2>2 DEF RollbackUnmark
<1>6. CASE Deploy
  <2>1. UNCHANGED <<log, booted>>
    BY Zenon, <1>6 DEF Deploy
  <2>2. CASE NeedsDeploy
    <3>1. ~Lifecycle!Waiting
      <4>1. pc = "deploy"
        BY Zenon, <1>6 DEF Deploy
      <4>2. IsPending(log) => \/ booted = PendingTarget(log).hash
                              \/ PendingIsGone /\ booted = job.tgt.hash
        BY Zenon, <4>1 DEF PendingInv
      <4>3. ~(PendingIsGone /\ booted = job.tgt.hash)
        BY Zenon, <2>2 DEF NeedsDeploy
      <4> QED
        BY Zenon, <1>none, <1>wait, <4>2, <4>3
    <3>2. job.tgt.hash \in Hash
      BY Zenon, <1>6 DEF Deploy, RecordInv, RealTarget
    <3>3. staged' = job.tgt.hash /\ needReboot' = TRUE
      BY Zenon, <1>6, <2>2 DEF Deploy
    <3>4. Lifecycle!Deploy(job.tgt.hash)
      BY Zenon, <2>1, <3>1, <3>3 DEF Lifecycle!Deploy
    <3> QED
      BY Zenon, <3>2, <3>4 DEF Lifecycle!Next
  <2>3. CASE ~NeedsDeploy
    BY Zenon, <1>6, <1>same, <2>1, <2>3 DEF Deploy
  <2> QED
    BY Zenon, <2>2, <2>3
<1>7. CASE SaveResult
  <2>1. /\ rc = "Ok" => booted = job.tgt.hash
        /\ rc = "NeedCompletion" => booted # job.tgt.hash
        /\ IsPending(log) =>
             /\ job.phase = "complete" /\ job.mode = "All"
             /\ \/ booted = PendingTarget(log).hash
                \/ PendingIsGone /\ booted = job.tgt.hash
    BY Zenon, <1>7 DEF SaveResult, PendingInv
  <2>2. UNCHANGED <<booted, staged, needReboot>> /\ log' = SavedLog
    BY ZenonT(30), <1>7 DEF SaveResult
  <2>3. job.tgt \in Target /\ job.tgt.hash \in Hash
    BY Zenon, <1>7 DEF SaveResult, RecordInv, RealTarget
  <2>4. ~(Lifecycle!Waiting /\ needReboot)
    BY Zenon, <1>none, <1>wait, <2>1
  <2>5. CASE log' = log
    BY Zenon, <1>same, <2>2, <2>5
  <2>6. CASE rc = "Ok" /\ log' = SaveInstalledVersion(log, job.tgt, "Current")
    BY Zenon, <1>current, <2>1, <2>2, <2>3, <2>4, <2>6
  <2>7. CASE /\ \/ rc = "Ok" /\ job.mode # "All"
                \/ rc = "NeedCompletion" /\ job.tgt.hash = staged
             /\ log' = SaveInstalledVersion(log, job.tgt, "Pending")
    <3>1. ~Lifecycle!Waiting /\ job.tgt.hash \in {booted, staged}
      BY Zenon, <1>none, <1>wait, <2>1, <2>7
    <3>2. PendingTarget(log').hash = job.tgt.hash
      BY Zenon, <1>log, <2>3, <2>7, SavedAsPending
    <3>3. RecordedHash(log') \in {RecordedHash(log), NoHash}
      BY ZenonT(30), <1>log, <2>3, <2>7, SaveRecorded
    <3>4. Lifecycle!Announce(job.tgt.hash)
      BY Zenon, <2>2, <3>1, <3>2, <3>3 DEF Lifecycle!Announce
    <3> QED
      BY Zenon, <2>3, <3>4 DEF Lifecycle!Next
  <2>8. CASE log' = SaveInstalledVersion(log, job.tgt, "None")
    BY Zenon, <1>failed, <2>2, <2>3, <2>4, <2>8
  <2> QED
    BY ZenonT(30), <2>2, <2>5, <2>6, <2>7, <2>8 DEF SavedLog
<1>8. CASE Reboot \/ OperatorReboot \/ PowerCut
  <2>1. log' = log /\ needReboot' = FALSE
    BY Zenon, <1>8 DEF Reboot, OperatorReboot, PowerCut, Boot
  <2>2. \/ UNCHANGED <<booted, staged>>
        \/ staged # NoHash /\ booted' = staged /\ staged' = NoHash
    BY Zenon, <1>8 DEF Reboot, OperatorReboot, PowerCut, Boot
  <2>3. Lifecycle!Boot
    BY Zenon, <2>1, <2>2 DEF Lifecycle!Boot
  <2> QED
    BY Zenon, <2>3 DEF Lifecycle!Next
<1>9. CASE \/ FinalizeNotBooted \/ FinalizeRolledBack \/ FinalizeBooted
           \/ FinalizeApp \/ FinalizeAppFails \/ FinalizeAppsDone \/ FinalizeEnd
  BY Zenon, <1>9, <1>same
  DEF FinalizeNotBooted, FinalizeRolledBack, FinalizeBooted, FinalizeApp,
      FinalizeAppFails, FinalizeAppsDone, FinalizeEnd, disk
<1>10. CASE \/ DaemonCycle \/ CheckCommand \/ UpdateCommand \/ RollbackInstall
            \/ DownloadOk \/ PullFails \/ FetchFails
  BY ZenonT(60), <1>10, <1>same
  DEF DaemonCycle, CheckCommand, UpdateCommand, RollbackInstall, DownloadOk,
      PullFails, FetchFails, DownloadFails, disk
<1>11. CASE \/ VerifyFails \/ StopApps \/ DeployFails
            \/ InstallApp \/ InstallAppFails \/ AppsDone \/ InstallEnd
  <2>1. CASE VerifyFails
    BY Zenon, <1>same, <2>1 DEF VerifyFails, disk
  <2>2. CASE StopApps
    BY Zenon, <1>same, <2>2 DEF StopApps, disk
  <2>3. CASE DeployFails
    BY Zenon, <1>same, <2>3 DEF DeployFails, disk
  <2>4. CASE InstallApp
    BY Zenon, <1>same, <2>4 DEF InstallApp, disk
  <2>5. CASE InstallAppFails
    BY Zenon, <1>same, <2>5 DEF InstallAppFails, disk
  <2>6. CASE AppsDone
    BY Zenon, <1>same, <2>6 DEF AppsDone, disk
  <2>7. CASE InstallEnd
    BY Zenon, <1>same, <2>7 DEF InstallEnd, disk
  <2> QED
    BY Zenon, <1>11, <2>1, <2>2, <2>3, <2>4, <2>5, <2>6, <2>7
<1>12. CASE StopDaemon \/ Kill \/ Publish \/ UNCHANGED vars
  BY Zenon, <1>12, <1>same DEF StopDaemon, Kill, Publish, vars, disk
<1> QED
  BY ZenonT(60), <1>2, <1>3, <1>4, <1>5, <1>6, <1>7, <1>8, <1>9, <1>10, <1>11, <1>12
  DEF Next, Progress, Finalize, Update, Install

\* PendingInv and RecordInv hold in every reachable state.
LEMMA RecordsHold == Spec => [](PendingInv /\ RecordInv)
<1>1. Init => PendingInv /\ RecordInv
  <2>1. Init => ~IsPending(log) /\ pc = "down" /\ log = << >> /\ ~needReboot
                  /\ session = "daemon"
    BY DEF Init, IsPending, PendingRows
  <2>2. << >> \in Seq(Rows(RealTarget))
    OBVIOUS
  <2> QED
    BY Zenon, <2>1, <2>2 DEF PendingInv, RecordInv
<1>2. TypeOK /\ OneOfAKind /\ PendingInv /\ [Next]_vars => PendingInv'
  BY Zenon, PendingInvStep
<1>3. TypeOK /\ TypeOK' /\ OneOfAKind /\ PendingInv /\ RecordInv /\ [Next]_vars
        => RecordInv'
  BY Zenon, RecordInvStep
<1> QED
  BY <1>1, <1>2, <1>3, TypeCorrectness, FlagsAreUnique, PTL DEF Spec

\* The update cycle implements the life of a Target: what TargetLifecycle
\* promises holds of the records and deployments of the client.
THEOREM LifecycleIsImplemented == Spec => ImplementsLifecycle
<1>1. Init => Lifecycle!Init
  <2>1. Init => log = << >> /\ booted = FactoryHash /\ staged = NoHash /\ ~needReboot
    BY Zenon DEF Init
  <2>2. RecordedHash(<< >>) = NoHash /\ PendingTarget(<< >>).hash = NoHash
    <3>1. DOMAIN << >> = {}
      OBVIOUS
    <3>2. CurrentRows(<< >>) = {} /\ PendingRows(<< >>) = {}
      BY Zenon, <3>1 DEF CurrentRows, PendingRows
    <3> QED
      BY Zenon, <3>2 DEF RecordedHash, PendingTarget, IsPending, UnknownTarget
  <2>3. Init => needReboot = FALSE
    BY Zenon DEF Init
  <2> QED
    BY Zenon, <2>1, <2>2, <2>3 DEF Lifecycle!Init
<1>2. TypeOK /\ OneOfAKind /\ PendingInv /\ RecordInv /\ [Next]_vars
        => [Lifecycle!Next]_(Lifecycle!lvars)
  BY Zenon, LifecycleStep
<1> QED
  BY <1>1, <1>2, TypeCorrectness, FlagsAreUnique, RecordsHold, PTL
  DEF Spec, ImplementsLifecycle, Lifecycle!Spec

\* A consequence of TargetLifecycle alone: a Target that waits for its first
\* reboot is the one the bootloader tries next.
THEOREM AwaitedTargetIsNext == Lifecycle!Spec => []Lifecycle!AwaitedIsNext
<1> USE DEF Lifecycle!AwaitedIsNext, Lifecycle!Waiting
<1>1. Lifecycle!Init => Lifecycle!AwaitedIsNext
  BY Zenon DEF Lifecycle!Init
<1>2. ASSUME Lifecycle!AwaitedIsNext, [Lifecycle!Next]_(Lifecycle!lvars)
      PROVE  Lifecycle!AwaitedIsNext'
  <2>1. ASSUME NEW h \in Hash, Lifecycle!Deploy(h)
        PROVE  Lifecycle!AwaitedIsNext'
    BY Zenon, <1>2, <2>1 DEF Lifecycle!Deploy
  <2>2. ASSUME NEW h \in Hash, Lifecycle!Announce(h)
        PROVE  Lifecycle!AwaitedIsNext'
    BY Zenon, <1>2, <2>2 DEF Lifecycle!Announce
  <2>3. CASE Lifecycle!Record
    BY Zenon, <1>2, <2>3 DEF Lifecycle!Record
  <2>4. CASE Lifecycle!Withdraw
    BY Zenon, <1>2, <2>4 DEF Lifecycle!Withdraw
  <2>5. CASE Lifecycle!Boot
    BY Zenon, <1>2, <2>5 DEF Lifecycle!Boot
  <2>6. CASE UNCHANGED Lifecycle!lvars
    BY Zenon, <1>2, <2>6 DEF Lifecycle!lvars
  <2> QED
    BY Zenon, <1>2, <2>1, <2>2, <2>3, <2>4, <2>5, <2>6 DEF Lifecycle!Next
<1> QED
  BY <1>1, <1>2, PTL DEF Lifecycle!Spec

-----------------------------------------------------------------------------
(* What a rollback leaves deployed.                                        *)
(*                                                                         *)
(* RollbackOkUndeploys is about the moment of the answer.  It is inductive *)
(* together with the states the answer comes from: a good result of the    *)
(* deployment step, a finalization that finds the device on another commit *)
(* than the pending one, and the pending Target such a finalization meets. *)

\* The next boot does not bring another deployment.
NothingStaged == staged = NoHash \/ fellBack

UndeployInv ==
  /\ IsPending(log) /\ booted # PendingTarget(log).hash /\ ~needReboot
       => NothingStaged
  /\ pc \in {"apps", "save"} /\ rc = "NeedCompletion" => needReboot
  /\ pc \in {"finalizeSave", "finalizeFile"} /\ booted # job.tgt.hash
       => NothingStaged
  /\ pc \in {"apps", "save", "file"} /\ rc = "Ok" => staged \in {NoHash, booted}
  /\ result = "InstallRollbackOk" =>
       /\ pc \in {"down", "reboot"} \/ (pc = "idle" /\ session = "daemon")
       /\ staged \in {NoHash, booted} \/ fellBack

\* The selection of a Target never answers with the result of a rollback.
LEMMA ChoiceStatus ==
  ASSUME NEW latest, NEW v, NEW allowBad, NEW forceSync, NEW force
  PROVE  GetTargetToInstall(latest, v, allowBad, forceSync, force).status
           # "InstallRollbackOk"
BY ZenonT(60) DEF GetTargetToInstall, Choice

\* Every step keeps UndeployInv.
LEMMA UndeployStep ==
  ASSUME TypeOK, OneOfAKind, PendingInv, UndeployInv, [Next]_vars
  PROVE  UndeployInv'
<1> USE DEF NothingStaged
<1>log. log \in Seq(Rows(Target)) /\ UniqueFlags(log)
  BY Zenon DEF TypeOK, OneOfAKind, UniqueFlags
<1>job. job.tgt \in Target
  BY Zenon, JobTypes DEF TypeOK
<1>nojob. \A t : [NoJob EXCEPT !.tgt = t].tgt = t
  BY Zenon DEF NoJob
<1>ret. \A r : Return(r) => /\ pc' \in {"down", "reboot", "idle"} /\ result' = r
                            /\ pc' = "idle" => session = "daemon"
  BY Zenon DEF Return
\* The deployments stay, and the process is neither at the result of an
\* installation nor at the end of a finalization.
<1>calm. ASSUME UNCHANGED <<log, booted, staged, fellBack, needReboot>>,
                pc' \notin {"apps", "save", "file", "finalizeSave", "finalizeFile"},
                result' # "InstallRollbackOk"
         PROVE  UndeployInv'
  BY Zenon, <1>calm DEF UndeployInv
\* A rollback is reported as done.
<1>done. ASSUME Return("InstallRollbackOk"), UNCHANGED session,
                UNCHANGED <<log, booted, staged, fellBack, needReboot>>,
                staged \in {NoHash, booted} \/ fellBack
         PROVE  UndeployInv'
  BY Zenon, <1>ret, <1>done DEF UndeployInv
<1>pull. ASSUME NEW t, NEW latest, NEW mode, NEW pull, NEW inst, NEW inTuf,
                PullAndInstall(t, latest, mode, pull, inst, inTuf),
                UNCHANGED disk
         PROVE  UndeployInv'
  BY <1>pull, <1>ret, <1>calm DEF PullAndInstall, disk
<1>inst. ASSUME NEW status, InstallReturns(status), UNCHANGED <<disk, session>>,
                status # "InstallRollbackOk", result # "InstallRollbackOk",
                status = "Ok" => staged \in {NoHash, booted}
         PROVE  UndeployInv'
  <2>0. UNCHANGED <<log, booted, staged, fellBack, needReboot, session>>
    BY Zenon, <1>inst DEF disk
  <2>fail. \A r : Return(r) /\ r # "InstallRollbackOk" => UndeployInv'
    BY Zenon, <1>ret, <1>calm, <2>0
  <2>1. CASE job.phase = "update" /\ status = "Failed"
    <3>1. Revert
      BY Zenon, <1>inst, <2>1 DEF InstallReturns
    <3>2. \/ Return("InstallRollbackFailed")
          \/ pc' = "install" /\ result' = result
      BY Zenon, <3>1 DEF Revert
    <3>3. CASE pc' = "install" /\ result' = result
      BY Zenon, <1>inst, <1>calm, <2>0, <3>3
    <3> QED
      BY Zenon, <2>fail, <3>2, <3>3
  <2>2. CASE ~(job.phase = "update" /\ status = "Failed")
    <3>1. \/ Return(status)
          \/ status = "Ok" /\ Return("InstallRollbackOk")
          \/ Return("InstallRollbackNeedsReboot")
          \/ Return("InstallRollbackFailed")
      BY Zenon, <1>inst, <2>2 DEF InstallReturns
    <3>2. CASE status = "Ok" /\ Return("InstallRollbackOk")
      BY Zenon, <1>inst, <1>done, <2>0, <3>2
    <3> QED
      BY Zenon, <1>inst, <2>fail, <3>1, <3>2
  <2> QED
    BY Zenon, <2>1, <2>2
<1>1. ASSUME NEW s, StartProcess(s)
      PROVE  UndeployInv'
  <2>1. log' = log \/ ~IsPending(log')
    <3>1. InitialTarget \in Target
      BY Zenon, InitialTargetType
    <3> QED
      BY Zenon, <1>1, <1>log, <3>1, SavedAsCurrent DEF StartProcess
  <2>2. /\ UNCHANGED <<booted, staged, fellBack, needReboot>>
        /\ pc' \in {"down", "finalize", "idle"} /\ result' # "InstallRollbackOk"
    BY Zenon, <1>1 DEF StartProcess
  <2> QED
    BY Zenon, <2>1, <2>2 DEF UndeployInv
<1>2. CASE StartDaemon \/ StartCommand
  BY Zenon, <1>1, <1>2 DEF StartDaemon, StartCommand
<1>3. CASE FinalizeNotBooted
  BY Zenon, <1>3, <1>calm DEF FinalizeNotBooted, disk
<1>4. CASE FinalizeRolledBack
  <2>1. IsPending(log)
    BY Zenon, <1>4 DEF FinalizeRolledBack, PendingInv
  <2>2. NothingStaged
    BY Zenon, <1>4, <2>1 DEF FinalizeRolledBack, UndeployInv
  <2>3. /\ UNCHANGED <<log, booted, staged, fellBack, needReboot, result>>
        /\ pc' = "finalizeSave" /\ pc = "finalize"
    BY Zenon, <1>4 DEF FinalizeRolledBack, disk
  <2> QED
    BY Zenon, <2>2, <2>3 DEF UndeployInv
<1>5. CASE FinalizeBooted
  BY Zenon, <1>5, <1>calm DEF FinalizeBooted, UndeployInv, disk
<1>6. CASE FinalizeApp \/ FinalizeAppFails \/ FinalizeAppsDone
  <2>1. /\ UNCHANGED <<log, booted, staged, fellBack, needReboot, job, result>>
        /\ pc = "finalizeApps" /\ pc' \in {"finalizeApps", "finalizeSave"}
    BY Zenon, <1>6 DEF FinalizeApp, FinalizeAppFails, FinalizeAppsDone, disk
  <2>2. booted = job.tgt.hash
    BY Zenon, <2>1 DEF PendingInv
  <2> QED
    BY Zenon, <2>1, <2>2 DEF UndeployInv
<1>7. CASE FinalizeSave
  <2>1. IsPending(log') => IsPending(log) /\ PendingTarget(log') = PendingTarget(log)
    BY Zenon, <1>7, <1>log, <1>job, SavedAsCurrent, SavedAsNone
    DEF FinalizeSave, FinalizedLog
  <2>2. /\ UNCHANGED <<booted, staged, fellBack, needReboot, job, result>>
        /\ pc = "finalizeSave" /\ pc' = "finalizeFile"
    BY Zenon, <1>7 DEF FinalizeSave
  <2> QED
    BY Zenon, <2>1, <2>2 DEF UndeployInv
<1>8. CASE FinalizeEnd
  <2>1. /\ UNCHANGED <<log, booted, staged, fellBack, needReboot, session>>
        /\ pc = "finalizeFile"
    BY Zenon, <1>8 DEF FinalizeEnd, disk
  <2>2. result # "InstallRollbackOk"
    BY Zenon, <2>1 DEF UndeployInv
  <2>3. \/ Return("Ok") \/ Return("Failed")
        \/ Return("InstallRollbackOk") /\ booted # job.tgt.hash
        \/ Return("InstallRollbackFailed") \/ Return("UnknownError")
        \/ pc' = "install" /\ result' = result
    BY ZenonT(60), <1>8
    DEF FinalizeEnd, SyncAfterBootRollback, RollbackAfterAppFailure, CompleteWith
  <2>4. booted # job.tgt.hash => NothingStaged
    BY Zenon, <2>1 DEF UndeployInv
  <2> QED
    BY <1>ret, <1>calm, <1>done, <2>1, <2>2, <2>3, <2>4
<1>9. CASE DaemonCycle
  <2> DEFINE choice == GetTargetToInstall(published, -1, FALSE, FALSE, FALSE)
             inTuf  == choice.status = "UpdateNewVersion"
  <2>1. \/ choice.tgt = UnknownTarget /\ Return(choice.status)
        \/ PullAndInstall(choice.tgt, published, "All", TRUE, TRUE, inTuf)
    BY ZenonT(60), <1>9 DEF DaemonCycle
  <2>2. UNCHANGED disk
    BY Zenon, <1>9 DEF DaemonCycle
  <2>3. choice.tgt = UnknownTarget => choice.status # "InstallRollbackOk"
    BY ZenonT(60), ChoiceStatus
  <2> HIDE DEF choice, inTuf
  <2> QED
    BY ZenonT(60), <1>ret, <1>calm, <1>pull, <2>1, <2>2, <2>3 DEF disk
<1>10. CASE CheckCommand
  <2> DEFINE choice == GetTargetToInstall(published, -1, FALSE, FALSE, FALSE)
  <2>1. \/ choice.tgt = UnknownTarget /\ Return(choice.status)
        \/ Return("Ok")
    BY ZenonT(60), <1>10 DEF CheckCommand
  <2>2. UNCHANGED disk
    BY Zenon, <1>10 DEF CheckCommand
  <2>3. choice.tgt = UnknownTarget => choice.status # "InstallRollbackOk"
    BY ZenonT(60), ChoiceStatus
  <2> HIDE DEF choice
  <2> QED
    BY <1>ret, <1>calm, <2>1, <2>2, <2>3 DEF disk
<1>11. CASE UpdateCommand
  <2>1. PICK v \in {-1} \cup 1 .. MaxVersion, mode \in {"All", "OstreeOnly"} :
          LET choice == GetTargetToInstall(tuf', v, TRUE, TRUE, TRUE)
          IN  IF IsPending(log) THEN Return("InstallationInProgress")
              ELSE IF choice.tgt = UnknownTarget THEN Return(choice.status)
              ELSE PullAndInstall(choice.tgt, tuf', mode,
                     session # "install", session # "pull",
                     choice.status = "UpdateNewVersion")
    BY Zenon, <1>11 DEF UpdateCommand
  <2> DEFINE latest == tuf'
             choice == GetTargetToInstall(latest, v, TRUE, TRUE, TRUE)
             pull   == session # "install"
             inst   == session # "pull"
             inTuf  == choice.status = "UpdateNewVersion"
  <2>2. \/ Return("InstallationInProgress")
        \/ choice.tgt = UnknownTarget /\ Return(choice.status)
        \/ PullAndInstall(choice.tgt, latest, mode, pull, inst, inTuf)
    BY ZenonT(60), <2>1
  <2>3. UNCHANGED disk
    BY Zenon, <1>11 DEF UpdateCommand
  <2>4. choice.tgt = UnknownTarget => choice.status # "InstallRollbackOk"
    BY ZenonT(60), ChoiceStatus
  <2> HIDE DEF latest, choice, pull, inst, inTuf
  <2>5. CASE \/ Return("InstallationInProgress")
             \/ choice.tgt = UnknownTarget /\ Return(choice.status)
    BY <1>ret, <1>calm, <2>3, <2>4, <2>5 DEF disk
  <2> QED
    BY Zenon, <1>pull, <2>2, <2>3, <2>5
<1>12. CASE RollbackMark
  <2>1. PICK t : log' = SaveBadTarget(log, t)
    BY ZenonT(30), <1>12 DEF RollbackMark
  <2>2. /\ IsPending(log') <=> IsPending(log)
        /\ IsPending(log) => PendingTarget(log') = PendingTarget(log)
    BY Zenon, <1>log, <2>1, SaveBadPending
  <2>3. /\ UNCHANGED <<booted, staged, fellBack, needReboot>>
        /\ pc = "idle" /\ session = "rollback"
    BY Zenon, <1>12 DEF RollbackMark
  <2>4. /\ pc' \in {"down", "reboot", "idle", "unmark", "rollback"}
        /\ result' \in {"Failed", result}
    BY Zenon, <1>12, <1>ret DEF RollbackMark
  <2> QED
    BY Zenon, <2>2, <2>3, <2>4 DEF UndeployInv
<1>13. CASE RollbackUnmark
  <2>1. IsPending(log') => IsPending(log) /\ PendingTarget(log') = PendingTarget(log)
    <3>1. PendingTarget(log) \in Target
      BY Zenon, QueryFacts
    <3> QED
      BY Zenon, <1>13, <1>log, <3>1, SavedAsNone DEF RollbackUnmark
  <2> QED
    BY Zenon, <1>13, <2>1 DEF RollbackUnmark, UndeployInv
<1>14. CASE RollbackInstall
  <2> DEFINE pull == job.pull
  <2>1. PullAndInstall(job.tgt, tuf, "All", pull, TRUE, pull) /\ UNCHANGED disk
    BY ZenonT(60), <1>14 DEF RollbackInstall
  <2> HIDE DEF pull
  <2> QED
    BY Zenon, <1>pull, <2>1
<1>15. CASE DownloadOk
  <2>1. /\ UNCHANGED disk /\ pc = "download"
        /\ Return("Ok") \/ (pc' = "install" /\ result' = result)
    BY Zenon, <1>15 DEF DownloadOk
  <2>2. result # "InstallRollbackOk"
    BY Zenon, <2>1 DEF UndeployInv
  <2> QED
    BY <1>ret, <1>calm, <2>1, <2>2 DEF disk
<1>16. CASE PullFails \/ FetchFails
  BY <1>16, <1>ret, <1>calm DEF PullFails, FetchFails, DownloadFails, disk
<1>17. CASE VerifyFails
  BY Zenon, <1>17, <1>inst DEF VerifyFails, UndeployInv
<1>18. CASE StopApps
  <2>1. UNCHANGED <<disk, result>> /\ pc = "install" /\ pc' = "deploy"
    BY Zenon, <1>18 DEF StopApps
  <2>2. result # "InstallRollbackOk"
    BY Zenon, <2>1 DEF UndeployInv
  <2> QED
    BY Zenon, <1>calm, <2>1, <2>2 DEF disk
<1>19. CASE Deploy
  <2>1. /\ UNCHANGED <<log, booted, result>> /\ pc = "deploy"
        /\ pc' \in {"apps", "save"}
        /\ rc' = IF booted # job.tgt.hash THEN "NeedCompletion" ELSE "Ok"
    BY Zenon, <1>19 DEF Deploy
  <2>2. result # "InstallRollbackOk"
    BY Zenon, <2>1 DEF UndeployInv
  <2>3. CASE NeedsDeploy
    <3>1. staged' = job.tgt.hash /\ needReboot'
      BY Zenon, <1>19, <2>3 DEF Deploy
    <3> QED
      BY Zenon, <2>1, <2>2, <3>1 DEF UndeployInv
  <2>4. CASE ~NeedsDeploy
    <3>1. UNCHANGED <<staged, needReboot, fellBack>>
      BY Zenon, <1>19, <2>4 DEF Deploy
    <3>2. booted = job.tgt.hash /\ staged \in {NoHash, booted}
      BY Zenon, <2>4 DEF NeedsDeploy
    <3> QED
      BY Zenon, <2>1, <2>2, <3>1, <3>2 DEF UndeployInv
  <2> QED
    BY Zenon, <2>3, <2>4
<1>20. CASE DeployFails
  <2>1. /\ UNCHANGED <<log, booted, staged, needReboot, result>>
        /\ pc = "deploy" /\ pc' = "save" /\ rc' = "InstallFailed" /\ NeedsDeploy
    BY Zenon, <1>20 DEF DeployFails
  <2>2. IsPending(log) => booted = PendingTarget(log).hash \/ staged = NoHash
    BY Zenon, <2>1 DEF PendingInv, PendingIsGone
  <2> QED
    BY Zenon, <2>1, <2>2 DEF UndeployInv
<1>21. CASE InstallApp \/ InstallAppFails \/ AppsDone
  <2>1. /\ UNCHANGED <<log, booted, staged, fellBack, needReboot, result>>
        /\ pc = "apps" /\ pc' \in {"apps", "save"}
        /\ rc' = rc \/ rc' \notin {"Ok", "NeedCompletion"}
    BY ZenonT(30), <1>21 DEF InstallApp, InstallAppFails, AppsDone, disk
  <2> QED
    BY Zenon, <2>1 DEF UndeployInv
<1>22. CASE SaveResult
  <2>1. /\ UNCHANGED <<booted, staged, fellBack, needReboot, rc, result>>
        /\ pc = "save" /\ pc' = "file" /\ log' = SavedLog
    BY Zenon, <1>22 DEF SaveResult
  <2>2. \/ log' = log
        \/ log' = SaveInstalledVersion(log, job.tgt, "None")
        \/ log' = SaveInstalledVersion(log, job.tgt, "Current")
        \/ /\ rc \in {"Ok", "NeedCompletion"}
           /\ log' = SaveInstalledVersion(log, job.tgt, "Pending")
    BY Zenon, <2>1 DEF SavedLog
  <2>3. /\ rc = "NeedCompletion" => needReboot
        /\ rc = "Ok" => booted = job.tgt.hash
    BY Zenon, <2>1 DEF UndeployInv, PendingInv
  <2>4. IsPending(log') /\ booted # PendingTarget(log').hash /\ ~needReboot
          => NothingStaged
    <3>1. log' = SaveInstalledVersion(log, job.tgt, "Pending")
            => PendingTarget(log').hash = job.tgt.hash
      BY Zenon, <1>log, <1>job, SavedAsPending
    <3>2. log' = SaveInstalledVersion(log, job.tgt, "Current") => ~IsPending(log')
      BY Zenon, <1>log, <1>job, SavedAsCurrent
    <3>3. log' = SaveInstalledVersion(log, job.tgt, "None") /\ IsPending(log')
            => IsPending(log) /\ PendingTarget(log') = PendingTarget(log)
      BY Zenon, <1>log, <1>job, SavedAsNone
    <3>4. IsPending(log) /\ booted # PendingTarget(log).hash /\ ~needReboot
            => NothingStaged
      BY Zenon DEF UndeployInv
    <3>5. CASE log' = log \/ log' = SaveInstalledVersion(log, job.tgt, "None")
      BY Zenon, <3>3, <3>4, <3>5
    <3>6. CASE log' = SaveInstalledVersion(log, job.tgt, "Current")
      BY Zenon, <3>2, <3>6
    <3>7. CASE /\ rc \in {"Ok", "NeedCompletion"}
               /\ log' = SaveInstalledVersion(log, job.tgt, "Pending")
      BY Zenon, <2>3, <3>1, <3>7
    <3> QED
      BY Zenon, <2>2, <3>5, <3>6, <3>7
  <2> QED
    BY Zenon, <2>1, <2>4 DEF UndeployInv
<1>23. CASE InstallEnd
  <2>1. InstallReturns(InstallStatus) /\ UNCHANGED <<disk, session>> /\ pc = "file"
    BY Zenon, <1>23 DEF InstallEnd
  <2>2. /\ InstallStatus # "InstallRollbackOk"
        /\ InstallStatus = "Ok" => rc = "Ok"
    BY Zenon DEF InstallStatus
  <2>3. /\ result # "InstallRollbackOk"
        /\ rc = "Ok" => staged \in {NoHash, booted}
    BY Zenon, <2>1 DEF UndeployInv
  <2> QED
    BY Zenon, <1>inst, <2>1, <2>2, <2>3
<1>24. CASE Reboot \/ OperatorReboot \/ PowerCut
  <2>1. /\ Boot /\ log' = log /\ pc' = "down" /\ result' = "None"
    BY Zenon, <1>24 DEF Reboot, OperatorReboot, PowerCut, ProcessGone
  <2>2. NothingStaged'
    BY <2>1 DEF Boot
  <2> QED
    BY Zenon, <2>1, <2>2 DEF UndeployInv
<1>25. CASE Kill
  BY Zenon, <1>25, <1>calm DEF Kill, ProcessGone, disk
<1>26. CASE StopDaemon \/ Publish \/ UNCHANGED vars
  <2>1. /\ UNCHANGED <<log, booted, staged, fellBack, needReboot, job, rc, result>>
        /\ \/ UNCHANGED <<pc, session>>
           \/ pc = "idle" /\ session = "daemon" /\ pc' = "down"
    BY Zenon, <1>26 DEF StopDaemon, Publish, vars, disk, proc
  <2> QED
    BY Zenon, <2>1 DEF UndeployInv
<1> QED
  BY ZenonT(60), <1>2, <1>3, <1>4, <1>5, <1>6, <1>7, <1>8, <1>9, <1>10, <1>11,
     <1>12, <1>13, <1>14, <1>15, <1>16, <1>17, <1>18, <1>19, <1>20, <1>21,
     <1>22, <1>23, <1>24, <1>25, <1>26
  DEF Next, Progress, Finalize, Update, Install

\* A rollback that the client reports as done leaves no other deployment for
\* the next boot, whatever failed, crashed or was commanded before.
THEOREM RollbackLeavesNothingStaged == Spec => []RollbackOkUndeploys
<1>1. Init => UndeployInv
  BY Zenon DEF Init, UndeployInv, NothingStaged, IsPending, PendingRows
<1>2. TypeOK /\ OneOfAKind /\ PendingInv /\ UndeployInv /\ [Next]_vars
        => UndeployInv'
  BY Zenon, UndeployStep
<1>3. UndeployInv => RollbackOkUndeploys
  BY Zenon DEF UndeployInv, RollbackOkUndeploys
<1> QED
  BY <1>1, <1>2, <1>3, TypeCorrectness, FlagsAreUnique, RecordsHold, PTL DEF Spec

-----------------------------------------------------------------------------
(* The Targets the daemon skips. *)

\* Where the Target that GetTargetToInstall picks comes from: it is to be
\* installed, and not a failing one unless that is allowed; or the Apps of the
\* current Target are to be brought in sync.  The initial Target has no
\* version, and in its place the latest Target is taken, a failing one.
ChoiceSource(choice, latest, v, allowBad) ==
  LET current == CurrentTarget(log, booted)
  IN  \/ /\ choice.check = choice.tgt
         /\ ~IsFailing(log, choice.tgt) \/ allowBad = TRUE
         /\ choice.tgt \in {SelectTarget(latest, v), RollbackTarget(log, TRUE)}
      \/ choice.check = current /\ choice.tgt = current
      \/ /\ choice.check = current /\ current.name \in 1 .. MaxVersion
         /\ choice.tgt = TufTarget(current.name)
      \/ /\ choice.check = current /\ current.name = InitialName
         /\ choice.tgt = TufTarget(latest) /\ latest \in 1 .. MaxVersion
         /\ allowBad = FALSE /\ IsFailing(log, choice.tgt)

\* GetTargetToInstall answers with such a Target, it has the Apps of some
\* Target checked, and what it says of failing Targets holds.
LEMMA ChoiceCases ==
  ASSUME TypeOK, RecordInv, pc # "down", NEW latest \in 0 .. MaxVersion,
         NEW v \in {-1} \cup 1 .. MaxVersion, NEW allowBad \in BOOLEAN,
         v = -1 \/ allowBad = TRUE, NEW forceSync, NEW force, NEW choice,
         choice = GetTargetToInstall(latest, v, allowBad, forceSync, force),
         choice.tgt # UnknownTarget
  PROVE  /\ choice.check # UnknownTarget
         /\ IsFailing(log, choice.tgt) /\ allowBad = FALSE =>
              CurrentTarget(log, booted).name \in {choice.tgt.name, InitialName}
         /\ ChoiceSource(choice, latest, v, allowBad)
<1> DEFINE current   == CurrentTarget(log, booted)
           newest    == SelectTarget(latest, v)
           rollback  == IsFailing(log, current) /\ current.name = newest.name
           candidate == IF rollback THEN RollbackTarget(log, TRUE) ELSE newest
           byVersion == SelectTarget(latest, Version(current))
           active    == IF byVersion = UnknownTarget THEN current ELSE byVersion
<1>0. current # UnknownTarget /\ current.name # UnknownName
  BY Zenon, CurrentIsReal, CurrentTargetFacts DEF RecordInv, RealTarget
<1>1. \A s, t, c : /\ Choice(s, t, c).tgt = t
                   /\ Choice(s, t, c).check = c
  BY Zenon DEF Choice
<1>2. \/ /\ choice.tgt = candidate /\ choice.check = candidate
         /\ ToBeInstalled(candidate, allowBad)
      \/ /\ choice.tgt = active /\ choice.check = current
         /\ ~ToBeInstalled(candidate, allowBad) /\ newest # UnknownTarget
  <2> DEFINE found == GetTargetToInstall(latest, v, allowBad, forceSync, force)
  <2>1. \/ \E s : found = Choice(s, UnknownTarget, UnknownTarget)
        \/ found = Choice("NoUpdate", UnknownTarget, current)
        \/ /\ \E s : found = Choice(s, candidate, candidate)
           /\ ToBeInstalled(candidate, allowBad)
        \/ /\ found = Choice("UpdateSyncApps", active, current)
           /\ ~ToBeInstalled(candidate, allowBad) /\ newest # UnknownTarget
    <3> DEFINE older   == /\ ~AutoDowngrade /\ v = -1
                          /\ Version(newest) < Version(current)
               failing == IsFailing(log, candidate)
               install == ToBeInstalled(candidate, allowBad)
               sync    == forceSync \/ AppsToUpdate(current, force) # {}
               status  == IF rollback THEN "UpdateRollback" ELSE "UpdateNewVersion"
    <3>1. found =
            CASE newest = UnknownTarget ->
                   Choice("TufTargetNotFound", UnknownTarget, UnknownTarget)
              [] newest # UnknownTarget /\ older ->
                   Choice("NoUpdate", UnknownTarget, UnknownTarget)
              [] OTHER ->
                   IF rollback /\ candidate = UnknownTarget
                     THEN Choice("RollbackTargetNotFound", UnknownTarget,
                                 UnknownTarget)
                   ELSE IF rollback /\ failing
                     THEN Choice("BadRollbackTarget", UnknownTarget, UnknownTarget)
                   ELSE IF install THEN Choice(status, candidate, candidate)
                   ELSE IF sync THEN Choice("UpdateSyncApps", active, current)
                   ELSE Choice("NoUpdate", UnknownTarget, current)
      BY Zenon DEF GetTargetToInstall
    <3> HIDE DEF found, current, newest, rollback, candidate, byVersion, active,
                 older, failing, sync, status
    <3> QED
      BY Zenon, <3>1
  <2>2. choice = found
    BY Zenon
  <2> HIDE DEF newest, candidate, active, current, found
  <2>3. /\ \A s : choice # Choice(s, UnknownTarget, UnknownTarget)
        /\ choice # Choice("NoUpdate", UnknownTarget, current)
    BY SMTT(30), <1>1
  <2>4. \A s : choice = Choice(s, candidate, candidate)
               => choice.tgt = candidate /\ choice.check = candidate
    BY <1>1
  <2>5. choice = Choice("UpdateSyncApps", active, current)
          => choice.tgt = active /\ choice.check = current
    BY <1>1
  <2> QED
    BY Zenon, <2>1, <2>2, <2>3, <2>4, <2>5
<1>3. current.name \in 0 .. MaxVersion /\ MaxVersion \in Nat
  <2>1. current.name \in UnknownName .. MaxVersion /\ MaxVersion \in Nat
    BY Zenon, CurrentTargetFacts, TargetFields, BoundTypes
  <2> QED
    BY <1>0, <2>1 DEF UnknownName
<1> SUFFICES ChoiceSource(choice, latest, v, allowBad)
  <2>2. \A n : TufTarget(n).name = n
    BY Zenon DEF TufTarget
  <2> HIDE DEF current
  <2> QED
    BY Zenon, <1>0, <2>2 DEF ChoiceSource, current
<1>4. CASE choice.tgt = candidate /\ choice.check = candidate
           /\ ToBeInstalled(candidate, allowBad)
  BY Zenon, <1>4 DEF ToBeInstalled, ChoiceSource
<1>5. CASE choice.tgt = active /\ choice.check = current
           /\ ~ToBeInstalled(candidate, allowBad) /\ newest # UnknownTarget
  <2>1. CASE current.name = InitialName
    <3>1. Version(current) = -1
      BY Zenon, <2>1 DEF Version
    <3>2. newest.name \in 1 .. MaxVersion
      BY <1>3, <1>5 DEF SelectTarget, TufTarget
    <3>3. candidate = newest /\ newest.name # current.name
      <4>1. newest.name # current.name
        <5> HIDE DEF newest, current
        <5> QED
          BY <2>1, <3>2 DEF InitialName
      <4> QED
        BY Zenon, <4>1
    <3>4. ~allowBad /\ IsFailing(log, newest)
      BY Zenon, <1>5, <3>3 DEF ToBeInstalled
    <3>5. v = -1
      BY Zenon, <3>4
    <3>6. latest > 0 /\ newest = TufTarget(latest)
      BY <1>5, <3>5 DEF SelectTarget
    <3>7. byVersion = newest
      BY Zenon, <3>1, <3>5
    <3>8. active = newest
      BY Zenon, <1>5, <3>7
    <3>9. latest \in 1 .. MaxVersion /\ allowBad = FALSE
      BY <1>3, <3>4, <3>6
    <3> QED
      BY Zenon, <1>5, <2>1, <3>4, <3>6, <3>8, <3>9 DEF ChoiceSource
  <2>2. CASE current.name # InitialName
    <3>1. current.name \in 1 .. MaxVersion /\ Version(current) = current.name
      BY SMTT(30), <1>3, <2>2 DEF Version, InitialName
    <3>2. byVersion \in {UnknownTarget, TufTarget(current.name)}
      BY <3>1 DEF SelectTarget
    <3>3. active \in {current, TufTarget(current.name)}
      BY Zenon, <3>2
    <3> QED
      BY Zenon, <1>5, <3>1, <3>3 DEF ChoiceSource
  <2> QED
    BY Zenon, <2>1, <2>2
<1> QED
  BY Zenon, <1>2, <1>4, <1>5

\* What a process at work has behind it: only the rollback command skips the
\* check of the Apps, and the daemon has selected the Target it works on.
SessionInv ==
  /\ pc \in {"unmark", "rollback"} => session = "rollback"
  /\ AtWork /\ session # "rollback" => ~cleanup
  /\ DaemonSkipsFailing

\* Every step keeps SessionInv.
LEMMA SessionStep ==
  ASSUME TypeOK, TypeOK', RecordInv, SessionInv, [Next]_vars
  PROVE  SessionInv'
<1> USE DEF AtWork
<1>ret. \A r : Return(r) => pc' \in {"down", "reboot", "idle"}
  BY Zenon DEF Return
\* The process is not at work afterwards.
<1>rest. ASSUME pc' \in {"down", "reboot", "idle", "finalize", "finalizeApps",
                         "finalizeSave", "finalizeFile"}
         PROVE  SessionInv'
  BY Zenon, <1>rest DEF SessionInv, DaemonSkipsFailing
\* The process is at work, past the selection of a Target.
<1>work. ASSUME pc' \in {"install", "deploy", "apps", "save", "file"},
                session' # "rollback" => ~cleanup'
         PROVE  SessionInv'
  BY Zenon, <1>work DEF SessionInv, DaemonSkipsFailing
\* The process goes on with its work.
<1>on. ASSUME AtWork, pc' \in {"install", "deploy", "apps", "save", "file"},
              UNCHANGED <<session, cleanup>>
       PROVE  SessionInv'
  BY Zenon, <1>on, <1>work DEF SessionInv
<1>inst. ASSUME NEW status, InstallReturns(status)
         PROVE  SessionInv'
  <2>1. \/ \E r : Return(r)
        \/ pc' = "install" /\ ~cleanup'
    BY ZenonT(60), <1>inst DEF InstallReturns, Revert, CheckAndSetApps
  <2> QED
    BY Zenon, <1>ret, <1>rest, <1>work, <2>1
<1>1. CASE StartDaemon \/ StartCommand
  <2>1. pc' \in {"down", "finalize", "idle"}
    BY Zenon, <1>1 DEF StartDaemon, StartCommand, StartProcess
  <2> QED
    BY Zenon, <1>rest, <2>1
<1>2. CASE \/ FinalizeNotBooted \/ FinalizeRolledBack \/ FinalizeBooted
           \/ FinalizeApp \/ FinalizeAppFails \/ FinalizeAppsDone \/ FinalizeSave
  <2>1. pc' \in {"down", "finalizeApps", "finalizeSave", "finalizeFile"}
    BY Zenon, <1>2
    DEF FinalizeNotBooted, FinalizeRolledBack, FinalizeBooted, FinalizeApp,
        FinalizeAppFails, FinalizeAppsDone, FinalizeSave
  <2> QED
    BY Zenon, <1>rest, <2>1
<1>3. CASE FinalizeEnd
  <2>1. \/ \E r : Return(r)
        \/ pc' = "install" /\ ~cleanup'
    BY ZenonT(60), <1>3
    DEF FinalizeEnd, SyncAfterBootRollback, RollbackAfterAppFailure,
        CompleteWith, CheckAndSetApps
  <2> QED
    BY Zenon, <1>ret, <1>rest, <1>work, <2>1
<1>4. CASE DaemonCycle
  <2> DEFINE choice == GetTargetToInstall(published, -1, FALSE, FALSE, FALSE)
             inTuf  == choice.status = "UpdateNewVersion"
  <2>1. \/ Return(choice.status)
        \/ /\ choice.tgt # UnknownTarget
           /\ PullAndInstall(choice.tgt, published, "All", TRUE, TRUE, inTuf)
    BY ZenonT(60), <1>4 DEF DaemonCycle
  <2>2. UNCHANGED <<log, booted, session>> /\ pc = "idle" /\ session = "daemon"
    BY Zenon, <1>4 DEF DaemonCycle, disk
  <2>3. choice.check # UnknownTarget => ~cleanup'
    BY ZenonT(60), <1>4 DEF DaemonCycle, CheckAndSetApps
  <2>4. choice.tgt # UnknownTarget =>
          /\ choice.check # UnknownTarget
          /\ IsFailing(log, choice.tgt) =>
               CurrentTarget(log, booted).name \in {choice.tgt.name, InitialName}
    <3>1. published \in 0 .. MaxVersion
      BY Zenon DEF TypeOK
    <3> QED
      BY ZenonT(60), <2>2, <3>1, ChoiceCases
  <2> HIDE DEF choice, inTuf
  <2>5. CASE \E r : Return(r)
    BY Zenon, <1>ret, <1>rest, <2>5
  <2>6. CASE /\ choice.tgt # UnknownTarget
             /\ pc' = "download" /\ job'.tgt = choice.tgt
    BY Zenon, <2>2, <2>3, <2>4, <2>6 DEF SessionInv, DaemonSkipsFailing
  <2> QED
    BY <2>1, <2>5, <2>6 DEF PullAndInstall
<1>5. CASE CheckCommand
  <2>1. \E r : Return(r)
    BY ZenonT(60), <1>5 DEF CheckCommand
  <2> QED
    BY Zenon, <1>ret, <1>rest, <2>1
<1>6. CASE UpdateCommand
  <2>1. PICK v \in {-1} \cup 1 .. MaxVersion, mode \in {"All", "OstreeOnly"} :
          LET choice == GetTargetToInstall(tuf', v, TRUE, TRUE, TRUE)
          IN  \/ \E r : Return(r)
              \/ /\ choice.check # UnknownTarget => CheckAndSetApps(choice.check, TRUE)
                 /\ choice.tgt # UnknownTarget
                 /\ PullAndInstall(choice.tgt, tuf', mode,
                      session # "install", session # "pull",
                      choice.status = "UpdateNewVersion")
    BY ZenonT(60), <1>6 DEF UpdateCommand
  <2> DEFINE latest == tuf'
             choice == GetTargetToInstall(latest, v, TRUE, TRUE, TRUE)
             pull   == session # "install"
             inst   == session # "pull"
             inTuf  == choice.status = "UpdateNewVersion"
  <2>2. \/ \E r : Return(r)
        \/ /\ choice.tgt # UnknownTarget
           /\ choice.check # UnknownTarget => ~cleanup'
           /\ PullAndInstall(choice.tgt, latest, mode, pull, inst, inTuf)
    BY ZenonT(60), <2>1 DEF CheckAndSetApps
  <2>3. pc = "idle" /\ session' = session /\ session # "daemon"
    BY Zenon, <1>6 DEF UpdateCommand
  <2>4. latest \in 0 .. MaxVersion
    BY Zenon DEF TypeOK
  <2> HIDE DEF latest, pull, inst
  <2>5. choice.tgt # UnknownTarget => choice.check # UnknownTarget
    BY ZenonT(60), <2>1, <2>3, <2>4, ChoiceCases
  <2> HIDE DEF choice, inTuf
  <2>6. CASE \E r : Return(r)
    BY Zenon, <1>ret, <1>rest, <2>6
  <2>7. CASE ~cleanup' /\ pc' \in {"download", "install"}
    BY Zenon, <2>3, <2>7 DEF SessionInv, DaemonSkipsFailing
  <2> QED
    BY Zenon, <2>2, <2>5, <2>6, <2>7 DEF PullAndInstall
<1>7. CASE RollbackMark
  <2>1. /\ session = "rollback" /\ session' = session
        /\ pc' \in {"down", "reboot", "idle", "unmark", "rollback"}
    BY Zenon, <1>7, <1>ret DEF RollbackMark
  <2> QED
    BY Zenon, <2>1 DEF SessionInv, DaemonSkipsFailing
<1>8. CASE RollbackUnmark
  BY Zenon, <1>8 DEF RollbackUnmark, SessionInv, DaemonSkipsFailing
<1>9. CASE RollbackInstall
  <2>1. session = "rollback" /\ session' = session
    BY Zenon, <1>9 DEF RollbackInstall, SessionInv
  <2>2. pc' \in {"down", "reboot", "idle", "download", "install"}
    BY Zenon, <1>9, <1>ret DEF RollbackInstall, PullAndInstall
  <2> QED
    BY Zenon, <2>1, <2>2 DEF SessionInv, DaemonSkipsFailing
<1>10. CASE DownloadOk
  <2>1. \/ \E r : Return(r)
        \/ pc = "download" /\ pc' = "install" /\ UNCHANGED <<session, cleanup>>
    BY Zenon, <1>10 DEF DownloadOk
  <2> QED
    BY Zenon, <1>ret, <1>rest, <1>on, <2>1
<1>11. CASE PullFails \/ FetchFails
  BY Zenon, <1>11, <1>ret, <1>rest DEF PullFails, FetchFails, DownloadFails
<1>12. CASE VerifyFails \/ InstallEnd
  BY Zenon, <1>12, <1>inst DEF VerifyFails, InstallEnd
<1>13. CASE \/ StopApps \/ Deploy \/ DeployFails \/ InstallApp
            \/ InstallAppFails \/ AppsDone \/ SaveResult
  <2>1. /\ pc \in {"install", "deploy", "apps", "save"}
        /\ pc' \in {"deploy", "apps", "save", "file"}
        /\ UNCHANGED <<session, cleanup>>
    BY ZenonT(60), <1>13
    DEF StopApps, Deploy, DeployFails, InstallApp, InstallAppFails, AppsDone,
        SaveResult
  <2> QED
    BY Zenon, <1>on, <2>1
<1>14. CASE Reboot \/ StopDaemon \/ OperatorReboot \/ PowerCut \/ Kill
  <2>1. pc' = "down"
    BY Zenon, <1>14
    DEF Reboot, StopDaemon, OperatorReboot, PowerCut, Kill, ProcessGone
  <2> QED
    BY Zenon, <1>rest, <2>1
<1>15. CASE Publish \/ UNCHANGED vars
  <2>1. UNCHANGED <<pc, session, cleanup, log, booted, job>>
    BY Zenon, <1>15 DEF Publish, vars, disk, proc
  <2> QED
    BY Zenon, <2>1 DEF SessionInv, DaemonSkipsFailing
<1> QED
  BY ZenonT(60), <1>1, <1>2, <1>3, <1>4, <1>5, <1>6, <1>7, <1>8, <1>9, <1>10,
     <1>11, <1>12, <1>13, <1>14, <1>15
  DEF Next, Progress, Finalize, Update, Install

\* SessionInv holds in every reachable state.
LEMMA SessionsHold == Spec => []SessionInv
<1>1. Init => SessionInv
  BY Zenon DEF Init, SessionInv, AtWork, DaemonSkipsFailing
<1>2. TypeOK /\ TypeOK' /\ RecordInv /\ SessionInv /\ [Next]_vars => SessionInv'
  BY Zenon, SessionStep
<1> QED
  BY <1>1, <1>2, TypeCorrectness, RecordsHold, PTL DEF Spec

\* The daemon does not start the installation of a failing Target, except to
\* bring the Apps of the current one in sync or over the initial Target.
THEOREM FailingTargetsAreSkipped == Spec => []DaemonSkipsFailing
<1>1. SessionInv => DaemonSkipsFailing
  BY Zenon DEF SessionInv
<1> QED
  BY <1>1, SessionsHold, PTL

-----------------------------------------------------------------------------
(* The Apps a revert needs. *)

\* One step of PullAndInstall at work.
LEMMA PreviousAppsStep ==
  ASSUME SessionInv, [Next]_vars, AtWork, job'.prev = job.prev,
         session # "rollback", ~(pc = "apps" /\ rc = "Ok")
  PROVE  store \cap job.prev.apps \subseteq store'
<1>same. ASSUME store \subseteq store'
         PROVE  store \cap job.prev.apps \subseteq store'
  BY Zenon, <1>same
<1>ret. ASSUME \E r : Return(r)
        PROVE  store \cap job.prev.apps \subseteq store'
  <2>1. job' = NoJob
    BY Zenon, <1>ret DEF Return
  <2>2. NoJob.prev = UnknownTarget /\ UnknownTarget.apps = {}
    BY Zenon DEF NoJob, UnknownTarget
  <2> QED
    BY Zenon, <2>1, <2>2
<1>calm. ~cleanup
  BY Zenon DEF SessionInv
<1>inst. ASSUME NEW status, InstallReturns(status)
         PROVE  store \cap job.prev.apps \subseteq store'
  <2>1. \/ \E r : Return(r)
        \/ store' = store
    BY ZenonT(60), <1>calm, <1>inst
    DEF InstallReturns, Revert, CheckAndSetApps, apps
  <2> QED
    BY Zenon, <1>same, <1>ret, <2>1
<1>1. CASE \/ StartDaemon \/ StartCommand \/ Finalize \/ DaemonCycle
           \/ CheckCommand \/ UpdateCommand \/ RollbackMark \/ RollbackUnmark
           \/ RollbackInstall \/ Reboot \/ OperatorReboot \/ StopDaemon
  <2>1. ~AtWork
    BY ZenonT(60), <1>1
    DEF AtWork, StartDaemon, StartCommand, StartProcess, Finalize,
        FinalizeNotBooted, FinalizeRolledBack, FinalizeBooted, FinalizeApp,
        FinalizeAppFails, FinalizeAppsDone, FinalizeSave, FinalizeEnd,
        DaemonCycle, CheckCommand, UpdateCommand, RollbackMark, RollbackUnmark,
        RollbackInstall, Reboot, OperatorReboot, StopDaemon
  <2> QED
    BY Zenon, <2>1
<1>2. CASE DownloadOk
  BY Zenon, <1>2, <1>same DEF DownloadOk
<1>3. CASE PullFails \/ FetchFails
  BY Zenon, <1>3, <1>ret DEF PullFails, FetchFails, DownloadFails
<1>4. CASE VerifyFails \/ InstallEnd
  BY Zenon, <1>4, <1>inst DEF VerifyFails, InstallEnd
<1>5. CASE AppsDone
  BY Zenon, <1>5, <1>same DEF AppsDone, CleanUp, apps
<1>6. CASE \/ StopApps \/ Deploy \/ DeployFails \/ InstallApp
           \/ InstallAppFails \/ SaveResult \/ PowerCut \/ Kill \/ Publish
           \/ UNCHANGED vars
  <2>1. store' = store
    BY ZenonT(60), <1>6
    DEF StopApps, Deploy, DeployFails, InstallApp, InstallAppFails, SaveResult,
        PowerCut, Kill, Publish, vars, apps
  <2> QED
    BY Zenon, <1>same, <2>1
<1> QED
  BY ZenonT(60), <1>1, <1>2, <1>3, <1>4, <1>5, <1>6
  DEF Next, Progress, Update, Install

\* The download and an installation that is not complete prune no App of the
\* previous Target, so that a revert finds what was there.
THEOREM RevertFindsItsApps == Spec => PreviousAppsAreKept
<1>1. SessionInv /\ [Next]_vars =>
        [/\ AtWork /\ job'.prev = job.prev /\ session # "rollback"
         /\ ~(pc = "apps" /\ rc = "Ok")
         => store \cap job.prev.apps \subseteq store']_vars
  BY Zenon, PreviousAppsStep
<1> QED
  BY <1>1, SessionsHold, PTL DEF Spec, PreviousAppsAreKept

-----------------------------------------------------------------------------
(* Undisturbed devices: no command is run and no process is killed. *)

Undisturbed == Commands = {} /\ crashes = 0

\* The daemon asks for a reboot only for what it has recorded as pending, and
\* a process that starts has either nothing or a pending Target to deal with.
Quiet ==
  /\ job.phase # "complete" /\ job.mode = "All"
  /\ pc \in {"down", "finalize", "finalizeApps", "finalizeSave", "finalizeFile"}
       => ~needReboot
  /\ pc = "down" => log = << >> \/ (IsPending(log) /\ Known)
  /\ rebootReq => pc \in {"file", "reboot"} /\ AwaitsReboot
  /\ rebootReq /\ pc = "file" => rc = "NeedCompletion"
  /\ pc = "reboot" => rebootReq
  /\ pc \in {"apps", "save"} /\ rc = "NeedCompletion"
       => needReboot /\ staged = job.tgt.hash

QuietInv == Undisturbed => Quiet

\* What such a device never does.
LEMMA QuietSteps ==
  ASSUME TypeOK, RecordInv, SessionInv, QuietInv, [Next]_vars, Undisturbed'
  PROVE  /\ Undisturbed /\ Quiet /\ session = "daemon"
         /\ ~StartCommand /\ ~StopDaemon /\ ~OperatorReboot /\ ~PowerCut /\ ~Kill
         /\ ~FinalizeNotBooted /\ ~CheckCommand /\ ~UpdateCommand
         /\ ~RollbackMark /\ ~RollbackUnmark /\ ~RollbackInstall
<1>1. Commands = {} /\ crashes' = 0 /\ crashes \in Nat
  <2>1. crashes \in Nat
    BY BoundTypes DEF TypeOK
  <2> QED
    BY Zenon, <2>1 DEF Undisturbed
<1>2. ~PowerCut /\ ~Kill /\ ~StartCommand /\ ~StopDaemon
  BY <1>1 DEF PowerCut, Kill, StartCommand, StopDaemon
<1>3. crashes = 0
  <2>1. crashes' = crashes
    BY ZenonT(60), <1>2
    DEF Next, Progress, Finalize, Update, Install, StartDaemon,
        FinalizeNotBooted, FinalizeRolledBack, FinalizeBooted, FinalizeApp,
        FinalizeAppFails, FinalizeAppsDone, FinalizeSave, FinalizeEnd,
        DaemonCycle, CheckCommand, UpdateCommand, RollbackMark, RollbackUnmark,
        RollbackInstall, DownloadOk, PullFails, FetchFails, DownloadFails,
        VerifyFails, StopApps, Deploy, DeployFails, InstallApp,
        InstallAppFails, AppsDone, SaveResult, InstallEnd, Reboot,
        OperatorReboot, Publish, bounds, vars
  <2> QED
    BY Zenon, <1>1, <2>1
<1>4. Undisturbed /\ Quiet
  BY Zenon, <1>1, <1>3 DEF Undisturbed, QuietInv
<1>5. session = "daemon"
  BY Zenon, <1>1 DEF RecordInv
<1>6. ~OperatorReboot /\ ~FinalizeNotBooted
  BY Zenon, <1>4 DEF OperatorReboot, FinalizeNotBooted, Quiet
<1>7. /\ ~CheckCommand /\ ~UpdateCommand /\ ~RollbackMark
      /\ ~RollbackUnmark /\ ~RollbackInstall
  BY Zenon, <1>5
  DEF CheckCommand, UpdateCommand, RollbackMark, RollbackUnmark,
      RollbackInstall, SessionInv
<1> QED
  BY Zenon, <1>2, <1>4, <1>5, <1>6, <1>7

\* Every step keeps QuietInv.
LEMMA QuietStep ==
  ASSUME TypeOK, TypeOK', OneOfAKind, PendingInv, RecordInv, SessionInv,
         PendingCanComplete, QuietInv, [Next]_vars
  PROVE  QuietInv'
<1> SUFFICES ASSUME Undisturbed'
             PROVE  Quiet'
  BY Zenon DEF QuietInv
<1>quiet. Quiet /\ session = "daemon"
  BY Zenon, QuietSteps
<1>log. log \in Seq(Rows(Target)) /\ UniqueFlags(log)
  BY Zenon DEF TypeOK, OneOfAKind, UniqueFlags
<1>no. NoJob.phase # "complete" /\ NoJob.mode = "All"
  BY Zenon DEF NoJob
\* The daemon returns to its loop.
<1>ret. ASSUME NEW r, Return(r), UNCHANGED <<disk, session, rebootReq>>,
               pc \notin {"down", "reboot"}
        PROVE  Quiet'
  <2>1. /\ job' = NoJob /\ rc' = "Ok"
        /\ pc' = IF rebootReq THEN "reboot" ELSE "idle"
    BY Zenon, <1>quiet, <1>ret DEF Return
  <2>2. rebootReq => AwaitsReboot'
    BY Zenon, <1>quiet, <1>ret DEF Quiet, AwaitsReboot, disk
  <2> QED
    BY Zenon, <1>no, <1>ret, <2>1, <2>2 DEF Quiet
\* The process goes on and no reboot is asked for.
<1>on. ASSUME ~rebootReq', job'.phase # "complete", job'.mode = "All",
              pc' \in {"idle", "download", "install", "deploy"}
       PROVE  Quiet'
  BY Zenon, <1>on DEF Quiet
<1>fin. ASSUME pc \in {"finalize", "finalizeApps", "finalizeSave", "finalizeFile"},
               pc' \in {"finalizeApps", "finalizeSave", "finalizeFile"},
               job'.phase # "complete", job'.mode = "All",
               UNCHANGED <<needReboot, rebootReq>>
        PROVE  Quiet'
  BY Zenon, <1>quiet, <1>fin DEF Quiet
<1>apps. ASSUME pc \in {"apps", "save"}, pc' \in {"apps", "save"},
                rc' = rc \/ rc' # "NeedCompletion",
                UNCHANGED <<staged, needReboot, rebootReq, job>>
         PROVE  Quiet'
  BY Zenon, <1>quiet, <1>apps DEF Quiet
<1>1. CASE StartDaemon
  <2>1. /\ pc = "down" /\ pc' \in {"finalize", "idle"} /\ job' = NoJob
        /\ rebootReq' = FALSE /\ needReboot' = needReboot
    BY Zenon, <1>1 DEF StartDaemon, StartProcess
  <2> QED
    BY Zenon, <1>quiet, <1>no, <2>1 DEF Quiet
<1>2. CASE FinalizeRolledBack \/ FinalizeBooted
  <2>1. \A t : /\ [NoJob EXCEPT !.tgt = t].phase = NoJob.phase
               /\ [NoJob EXCEPT !.tgt = t].mode = NoJob.mode
    BY Zenon DEF NoJob
  <2> QED
    BY Zenon, <1>2, <1>no, <1>fin, <2>1 DEF FinalizeRolledBack, FinalizeBooted, disk
<1>3. CASE FinalizeApp \/ FinalizeAppFails \/ FinalizeAppsDone \/ FinalizeSave
  BY Zenon, <1>3, <1>quiet, <1>fin
  DEF FinalizeApp, FinalizeAppFails, FinalizeAppsDone, FinalizeSave, disk, Quiet
<1>4. CASE FinalizeEnd
  BY Zenon, <1>4, <1>quiet, <1>ret DEF FinalizeEnd
<1>5. CASE DaemonCycle
  <2> DEFINE choice == GetTargetToInstall(published, -1, FALSE, FALSE, FALSE)
             inTuf  == choice.status = "UpdateNewVersion"
  <2>1. \/ Return(choice.status)
        \/ PullAndInstall(choice.tgt, published, "All", TRUE, TRUE, inTuf)
    BY ZenonT(60), <1>5 DEF DaemonCycle
  <2>2. UNCHANGED <<disk, session, rebootReq>> /\ pc = "idle"
    BY Zenon, <1>5 DEF DaemonCycle
  <2> HIDE DEF choice, inTuf
  <2>3. CASE \E r : Return(r)
    BY Zenon, <1>ret, <2>2, <2>3
  <2>4. CASE pc' = "download" /\ job'.phase = "update" /\ job'.mode = "All"
    BY Zenon, <1>quiet, <1>on, <2>2, <2>4 DEF Quiet
  <2>5. \/ \E r : Return(r)
        \/ /\ pc' = "download"
           /\ job' = [phase |-> "update", tgt |-> choice.tgt,
                       prev |-> CurrentTarget(log, booted),
                       mode |-> "All", pull |-> TRUE, inst |-> TRUE]
    BY Zenon, <2>1 DEF PullAndInstall
  <2> QED
    BY SMTT(30), <2>3, <2>4, <2>5
<1>6. CASE DownloadOk
  <2>1. \/ \E r : Return(r)
        \/ pc' = "install" /\ job' = job
    BY Zenon, <1>6 DEF DownloadOk
  <2>2. pc = "download" /\ UNCHANGED <<disk, session, rebootReq>>
    BY Zenon, <1>6 DEF DownloadOk
  <2> QED
    BY Zenon, <1>quiet, <1>ret, <1>on, <2>1, <2>2 DEF Quiet
<1>7. CASE PullFails \/ FetchFails
  BY Zenon, <1>7, <1>ret DEF PullFails, FetchFails, DownloadFails
<1>inst. ASSUME NEW status, InstallReturns(status), pc \in {"install", "file"},
                UNCHANGED <<disk, session, rebootReq>>,
                rebootReq => status # "Failed"
         PROVE  Quiet'
  <2>1. \/ \E r : Return(r)
        \/ Revert /\ status = "Failed"
    BY Zenon, <1>inst DEF InstallReturns
  <2>2. LET next == [job EXCEPT !.phase = "revert", !.tgt = job.prev, !.mode = "All"]
        IN  next.phase = "revert" /\ next.mode = "All"
    BY Zenon DEF TypeOK, Job
  <2>3. Revert => \/ \E r : Return(r)
                  \/ pc' = "install" /\ job'.phase = "revert" /\ job'.mode = "All"
    BY ZenonT(60), <2>2 DEF Revert
  <2>4. CASE \E r : Return(r)
    BY Zenon, <1>inst, <1>ret, <2>4
  <2>5. CASE /\ status = "Failed" /\ pc' = "install"
             /\ job'.phase = "revert" /\ job'.mode = "All"
    BY Zenon, <1>inst, <1>on, <2>5 DEF TypeOK
  <2> QED
    BY Zenon, <2>1, <2>3, <2>4, <2>5
<1>8. CASE VerifyFails
  <2>1. /\ pc = "install" /\ InstallReturns("DownloadFailed")
        /\ UNCHANGED <<disk, session, rebootReq>>
    BY Zenon, <1>8 DEF VerifyFails
  <2> QED
    BY Zenon, <1>inst, <2>1
<1>9. CASE StopApps
  BY Zenon, <1>9, <1>quiet, <1>on DEF StopApps, Quiet
<1>10. CASE Deploy
  <2>1. /\ pc = "deploy" /\ UNCHANGED <<booted, job, rebootReq>>
        /\ pc' \in {"save", "apps"}
        /\ booted # job.tgt.hash => staged' = job.tgt.hash /\ needReboot' = TRUE
        /\ rc' = "NeedCompletion" => booted # job.tgt.hash
    BY ZenonT(60), <1>10 DEF Deploy, NeedsDeploy
  <2> QED
    BY Zenon, <1>quiet, <2>1 DEF Quiet
<1>11. CASE DeployFails
  BY Zenon, <1>11, <1>quiet DEF DeployFails, Quiet
<1>12. CASE InstallApp \/ AppsDone \/ InstallAppFails
  <2>1. /\ pc = "apps" /\ pc' \in {"apps", "save"}
        /\ UNCHANGED <<staged, needReboot, rebootReq, job>>
        /\ rc' = rc \/ rc' \in {"InstallFailed", "DownloadFailed"}
    BY ZenonT(60), <1>12 DEF InstallApp, AppsDone, InstallAppFails, disk
  <2> QED
    BY Zenon, <1>apps, <2>1
<1>13. CASE SaveResult
  <2>1. /\ pc = "save" /\ pc' = "file" /\ log' = SavedLog
        /\ rebootReq' = (rebootReq \/ rc = "NeedCompletion")
        /\ UNCHANGED <<booted, staged, needReboot, job, rc>>
    BY Zenon, <1>13 DEF SaveResult
  <2>2. ~rebootReq
    BY Zenon, <1>quiet, <2>1 DEF Quiet
  <2>3. CASE rc # "NeedCompletion"
    BY Zenon, <1>quiet, <2>1, <2>2, <2>3 DEF Quiet
  <2>4. CASE rc = "NeedCompletion"
    <3>1. needReboot /\ staged = job.tgt.hash /\ booted # job.tgt.hash
      BY Zenon, <1>quiet, <2>1, <2>4 DEF Quiet, PendingInv
    <3>2. log' = SaveInstalledVersion(log, job.tgt, "Pending")
      BY Zenon, <2>1, <2>4, <3>1 DEF SavedLog
    <3>3. job.tgt \in Target
      BY Zenon, JobTypes DEF TypeOK
    <3>4. PendingTarget(log').hash = job.tgt.hash /\ log'[Len(log')].pend
      BY Zenon, <1>log, <3>2, <3>3, SavedAsPending
    <3>5. IsPending(log')
      <4>1. Len(log') \in DOMAIN log'
        <5>1. Len(log') >= 1
          BY Zenon, <1>log, <3>2, <3>3, SavedIsLast
        <5>2. DOMAIN log' = 1 .. Len(log') /\ Len(log') \in Nat
          BY Zenon, LenProperties DEF TypeOK
        <5> QED
          BY <5>1, <5>2
      <4> QED
        BY Zenon, <3>4, <4>1 DEF IsPending, PendingRows
    <3>6. AwaitsReboot'
      BY Zenon, <2>1, <3>1, <3>4, <3>5 DEF AwaitsReboot
    <3> QED
      BY Zenon, <1>quiet, <2>1, <2>4, <3>6 DEF Quiet
  <2> QED
    BY Zenon, <2>3, <2>4
<1>14. CASE InstallEnd
  <2>1. /\ pc = "file" /\ InstallReturns(InstallStatus)
        /\ UNCHANGED <<disk, session, rebootReq>>
    BY Zenon, <1>14 DEF InstallEnd
  <2>2. rebootReq => InstallStatus # "Failed"
    BY Zenon, <1>quiet, <2>1 DEF Quiet, InstallStatus
  <2> QED
    BY Zenon, <1>inst, <2>1, <2>2
<1>15. CASE Reboot
  <2>1. /\ pc = "reboot" /\ pc' = "down" /\ job' = NoJob /\ log' = log
        /\ rebootReq' = FALSE /\ needReboot' = FALSE
        /\ booted' \in {booted, staged}
    BY ZenonT(60), <1>15 DEF Reboot, Boot, ProcessGone
  <2>2. AwaitsReboot /\ staged = PendingTarget(log).hash
    BY Zenon, <1>quiet, <2>1 DEF Quiet, PendingCanComplete
  <2>3. Known
    BY Zenon, <2>1 DEF RecordInv
  <2>4. \E i \in DOMAIN log : log[i].target.hash = PendingTarget(log).hash
    <3>1. PendingRows(log) \in SUBSET DOMAIN log /\ PendingRows(log) # {}
      BY Zenon, <2>2 DEF AwaitsReboot, IsPending, PendingRows
    <3>2. LastRow(PendingRows(log)) \in DOMAIN log
      BY Zenon, <1>log, <3>1, RowOfTable
    <3> QED
      BY Zenon, <2>2, <3>2 DEF PendingTarget, AwaitsReboot
  <2>5. Known' /\ IsPending(log')
    BY Zenon, <2>1, <2>2, <2>3, <2>4 DEF Known, AwaitsReboot
  <2> QED
    BY Zenon, <1>no, <2>1, <2>5 DEF Quiet
<1>16. CASE Publish \/ UNCHANGED vars
  <2>1. UNCHANGED <<job, pc, needReboot, log, booted, rebootReq, rc, staged>>
    BY Zenon, <1>16 DEF Publish, vars, disk, proc
  <2> QED
    BY Zenon, <1>quiet, <2>1 DEF Quiet, AwaitsReboot, Known
<1> QED
  BY ZenonT(60), QuietSteps, <1>1, <1>2, <1>3, <1>4, <1>5, <1>6, <1>7, <1>8,
     <1>9, <1>10, <1>11, <1>12, <1>13, <1>14, <1>15, <1>16
  DEF Next, Progress, Finalize, Update, Install

\* QuietInv holds in every reachable state.
LEMMA QuietHolds == Spec => []QuietInv
<1>1. Init => QuietInv
  BY SMTT(30) DEF Init, QuietInv, Quiet, NoJob
<1>2. /\ TypeOK /\ TypeOK' /\ OneOfAKind /\ PendingInv /\ RecordInv
      /\ SessionInv /\ PendingCanComplete /\ QuietInv /\ [Next]_vars
      => QuietInv'
  BY Zenon, QuietStep
<1> QED
  BY <1>1, <1>2, TypeCorrectness, FlagsAreUnique, RecordsHold, SessionsHold,
     PendingIsCompletable, PTL DEF Spec

\* An undisturbed device boots no other commit than the pending Target's.
THEOREM OnlyPendingIsBooted == Spec => BootsPendingOnly
<1>1. /\ TypeOK /\ RecordInv /\ SessionInv /\ QuietInv /\ PendingCanComplete
      /\ [Next]_vars
      => [Commands = {} /\ crashes' = 0 /\ booted' # booted
            => PendingTarget(log).hash = booted']_vars
  <2> SUFFICES ASSUME TypeOK, RecordInv, SessionInv, QuietInv,
                      PendingCanComplete, Next,
                      Commands = {}, crashes' = 0, booted' # booted
               PROVE  PendingTarget(log).hash = booted'
    BY Zenon
  <2>1. /\ Quiet /\ ~OperatorReboot /\ ~PowerCut /\ ~StartCommand /\ ~Kill
        /\ ~StopDaemon
    <3>1. Undisturbed'
      BY Zenon DEF Undisturbed
    <3> QED
      BY Zenon, <3>1, QuietSteps
  <2>2. Reboot
    BY ZenonT(60), <2>1
    DEF Next, Progress, Finalize, Update, Install, StartDaemon, StartProcess,
        FinalizeNotBooted, FinalizeRolledBack, FinalizeBooted, FinalizeApp,
        FinalizeAppFails, FinalizeAppsDone, FinalizeSave, FinalizeEnd,
        DaemonCycle, CheckCommand, UpdateCommand, RollbackMark, RollbackUnmark,
        RollbackInstall, DownloadOk, PullFails, FetchFails, DownloadFails,
        VerifyFails, StopApps, Deploy, DeployFails, InstallApp,
        InstallAppFails, AppsDone, SaveResult, InstallEnd, Publish, disk
  <2>3. pc = "reboot" /\ booted' = staged
    BY Zenon, <2>2 DEF Reboot, Boot
  <2>4. staged = PendingTarget(log).hash
    BY Zenon, <2>1, <2>3 DEF Quiet, PendingCanComplete
  <2> QED
    BY Zenon, <2>3, <2>4
<1> QED
  BY <1>1, TypeCorrectness, RecordsHold, SessionsHold, QuietHolds,
     PendingIsCompletable, PTL DEF Spec, BootsPendingOnly

-----------------------------------------------------------------------------
(* The file /var/sota/current-target. *)

FileFollows ==
  \/ curFile = UnknownName
  \/ RecordedHash(log) # booted
  \/ curFile = CurrentTarget(log, booted).name

\* Between the record of a Target as current and the end of its installation
\* the file is behind the table, and it is about to be written.
FileUpToDate ==
  /\ pc \in {"idle", "download", "install", "deploy", "apps", "save"}
       => FileFollows
  /\ pc = "file" =>
       IF rc = "Ok" THEN CurrentTarget(log, booted).name = job.tgt.name
                    ELSE FileFollows
  /\ log = << >> => curFile = UnknownName

FileInv == Undisturbed => FileUpToDate

\* Every step keeps FileInv.
LEMMA FileStep ==
  ASSUME TypeOK, TypeOK', OneOfAKind, PendingInv, RecordInv, SessionInv,
         QuietInv, FileInv, [Next]_vars
  PROVE  FileInv'
<1> DEFINE before == {"idle", "download", "install", "deploy", "apps", "save"}
<1> SUFFICES ASSUME Undisturbed'
             PROVE  FileUpToDate'
  BY Zenon DEF FileInv
<1>quiet. Undisturbed /\ Quiet /\ session = "daemon"
  BY Zenon, QuietSteps
<1>file. FileUpToDate
  BY Zenon, <1>quiet DEF FileInv
<1>log. log \in Seq(Rows(Target)) /\ UniqueFlags(log) /\ booted # NoHash
  BY Zenon, ConstantsAssumption DEF TypeOK, OneOfAKind, UniqueFlags
<1>job. job.tgt \in Target
  BY Zenon, JobTypes DEF TypeOK
<1>known. pc # "down" => log # << >>
  BY DEF RecordInv, Known
\* The table, the booted commit and the file stay as they are.
<1>same. ASSUME UNCHANGED <<log, booted, curFile>>
         PROVE  /\ FileFollows => FileFollows'
                /\ log' = << >> => curFile' = UnknownName
  BY Zenon, <1>file, <1>same DEF FileFollows, FileUpToDate
<1>on. ASSUME UNCHANGED <<log, booted, curFile>>, pc \in before, pc' # "file"
       PROVE  FileUpToDate'
  BY Zenon, <1>file, <1>on, <1>same DEF FileUpToDate
<1>rest. ASSUME UNCHANGED <<log, booted, curFile>>, pc' \notin before, pc' # "file"
         PROVE  FileUpToDate'
  BY Zenon, <1>rest, <1>same, <1>file DEF FileUpToDate
\* A save leaves rows in the table.
<1>rows. ASSUME NEW mode, log' = SaveInstalledVersion(log, job.tgt, mode)
         PROVE  log' # << >>
  <2>1. Len(log') >= 1
    BY Zenon, <1>log, <1>job, <1>rows, SavedIsLast
  <2> QED
    BY <2>1
<1>1. CASE StartDaemon
  <2>1. /\ pc = "down" /\ pc' \in {"finalize", "idle"}
        /\ UNCHANGED <<booted, curFile>>
        /\ log' = IF CurrentTarget(log, booted).name = UnknownName
                    THEN SaveInstalledVersion(log, InitialTarget, "Current")
                    ELSE log
        /\ IsPending(log') => pc' = "finalize"
    BY ZenonT(60), <1>1 DEF StartDaemon, StartProcess
  <2>2. CASE log = << >>
    <3>1. curFile' = UnknownName
      BY Zenon, <1>file, <2>1, <2>2 DEF FileUpToDate
    <3> QED
      BY Zenon, <2>1, <3>1 DEF FileUpToDate, FileFollows
  <2>3. CASE log # << >>
    <3>1. IsPending(log) /\ Known
      BY Zenon, <1>quiet, <2>1, <2>3 DEF Quiet
    <3>2. CurrentTarget(log, booted).name # UnknownName
      BY Zenon, <3>1, CurrentIsReal DEF RecordInv, RealTarget
    <3>3. log' = log /\ pc' = "finalize"
      BY Zenon, <2>1, <3>1, <3>2
    <3> QED
      BY Zenon, <1>rest, <2>1, <3>3
  <2> QED
    BY Zenon, <2>2, <2>3
<1>2. CASE \/ FinalizeRolledBack \/ FinalizeBooted \/ FinalizeApp
           \/ FinalizeAppFails \/ FinalizeAppsDone
  <2>1. /\ UNCHANGED <<log, booted, curFile>>
        /\ pc' \in {"finalizeApps", "finalizeSave"}
    BY ZenonT(60), <1>2
    DEF FinalizeRolledBack, FinalizeBooted, FinalizeApp, FinalizeAppFails,
        FinalizeAppsDone, disk
  <2> QED
    BY Zenon, <1>rest, <2>1
<1>3. CASE FinalizeSave
  <2>1. /\ pc # "down" /\ pc' = "finalizeFile" /\ curFile' = curFile
        /\ \/ log' = log
           \/ \E mode : log' = SaveInstalledVersion(log, job.tgt, mode)
    BY Zenon, <1>3 DEF FinalizeSave, FinalizedLog
  <2> QED
    BY Zenon, <1>known, <1>rows, <2>1 DEF FileUpToDate
<1>4. CASE FinalizeEnd
  <2>1. /\ UNCHANGED <<log, booted>> /\ pc = "finalizeFile"
        /\ curFile' = CurrentTarget(log, booted).name
    BY Zenon, <1>4 DEF FinalizeEnd, FinalizedFile, disk
  <2>2. \E r : Return(r)
    BY Zenon, <1>4, <1>quiet DEF FinalizeEnd
  <2>3. pc' # "file"
    BY Zenon, <2>2 DEF Return
  <2> QED
    BY Zenon, <1>known, <2>1, <2>3 DEF FileFollows, FileUpToDate
<1>5. CASE \/ DaemonCycle \/ DownloadOk \/ PullFails \/ FetchFails
           \/ VerifyFails \/ StopApps \/ Deploy \/ DeployFails \/ InstallApp
           \/ InstallAppFails \/ AppsDone
  <2>1. pc \in before /\ UNCHANGED <<log, booted, curFile>>
    BY ZenonT(60), <1>5
    DEF DaemonCycle, DownloadOk, PullFails, FetchFails, DownloadFails,
        VerifyFails, StopApps, Deploy, DeployFails, InstallApp,
        InstallAppFails, AppsDone, disk
  <2>2. \A r : Return(r) => pc' # "file"
    BY Zenon DEF Return
  <2>3. pc' # "file"
    BY ZenonT(60), <1>5, <2>2
    DEF DaemonCycle, PullAndInstall, DownloadOk, PullFails, FetchFails,
        DownloadFails, VerifyFails, InstallReturns, Revert, StopApps, Deploy,
        DeployFails, InstallApp, InstallAppFails, AppsDone
  <2> QED
    BY Zenon, <1>on, <2>1, <2>3
<1>6. CASE SaveResult
  <2>1. /\ pc = "save" /\ pc' = "file" /\ log' = SavedLog
        /\ UNCHANGED <<booted, curFile, job, rc>>
    BY Zenon, <1>6 DEF SaveResult
  <2>2. FileFollows /\ job.mode = "All"
    BY Zenon, <1>quiet, <1>file, <2>1 DEF Quiet, FileUpToDate
  <2>3. CASE rc = "Ok"
    <3>1. log' = SaveInstalledVersion(log, job.tgt, "Current")
      BY Zenon, <2>1, <2>2, <2>3 DEF SavedLog
    <3>2. job.tgt.hash = booted
      BY Zenon, <2>1, <2>3 DEF PendingInv
    <3>3. CurrentTarget(log', booted).name = job.tgt.name
      BY Zenon, <1>log, <1>job, <3>1, <3>2, SavedSetsCurrent
    <3>4. log' # << >>
      BY Zenon, <1>rows, <3>1
    <3> QED
      BY Zenon, <2>1, <2>3, <3>3, <3>4 DEF FileUpToDate
  <2>4. CASE log' = log
    BY Zenon, <1>file, <1>same, <2>1, <2>2, <2>3, <2>4 DEF FileUpToDate
  <2>5. CASE /\ rc # "Ok"
             /\ \E mode \in {"Pending", "None"} :
                  log' = SaveInstalledVersion(log, job.tgt, mode)
    <3>1. PICK mode \in {"Pending", "None"} :
            log' = SaveInstalledVersion(log, job.tgt, mode)
      BY Zenon, <2>5
    <3>2. mode # "Current"
      BY Zenon, <3>1
    <3>3. RecordedHash(log') = booted
            => /\ RecordedHash(log) = booted
               /\ CurrentTarget(log', booted) = CurrentTarget(log, booted)
      BY Zenon, <1>log, <1>job, <3>1, <3>2, SavedSetsCurrent
    <3>4. log' # << >>
      BY Zenon, <1>rows, <3>1
    <3>5. FileFollows'
      BY Zenon, <2>1, <2>2, <3>3 DEF FileFollows
    <3> QED
      BY Zenon, <2>1, <2>5, <3>4, <3>5 DEF FileUpToDate
  <2>6. rc # "Ok" => \/ log' = log
                     \/ \E mode \in {"Pending", "None"} :
                          log' = SaveInstalledVersion(log, job.tgt, mode)
    BY Zenon, <2>1 DEF SavedLog
  <2> QED
    BY Zenon, <2>3, <2>4, <2>5, <2>6
<1>7. CASE InstallEnd
  <2>1. /\ pc = "file" /\ UNCHANGED <<log, booted>>
        /\ curFile' = IF InstallStatus = "Ok" THEN job.tgt.name ELSE curFile
    BY Zenon, <1>7 DEF InstallEnd, disk
  <2>2. \A r : Return(r) => pc' # "file"
    BY Zenon DEF Return
  <2>3. pc' # "file"
    BY ZenonT(60), <1>7, <2>2 DEF InstallEnd, InstallReturns, Revert
  <2>4. InstallStatus = "Ok" <=> rc = "Ok"
    BY Zenon, <1>quiet DEF Quiet, InstallStatus
  <2>5. FileFollows'
    BY Zenon, <1>file, <2>1, <2>4 DEF FileFollows, FileUpToDate
  <2> QED
    BY Zenon, <1>known, <2>1, <2>3, <2>5 DEF FileUpToDate
<1>8. CASE Reboot
  <2>1. pc' = "down" /\ UNCHANGED <<log, curFile>>
    BY Zenon, <1>8 DEF Reboot, ProcessGone
  <2> QED
    BY Zenon, <1>file, <2>1 DEF FileUpToDate
<1>9. CASE Publish \/ UNCHANGED vars
  <2>1. UNCHANGED <<pc, rc, job, log, booted, curFile>>
    BY Zenon, <1>9 DEF Publish, vars, disk, proc
  <2> QED
    BY Zenon, <1>file, <1>same, <2>1 DEF FileUpToDate
<1> QED
  BY ZenonT(60), QuietSteps, <1>1, <1>2, <1>3, <1>4, <1>5, <1>6, <1>7, <1>8,
     <1>9
  DEF Next, Progress, Finalize, Update, Install

\* The file names what the idle daemon of an undisturbed device takes for the
\* current Target, unless another commit is booted than the recorded one.
THEOREM FileNamesCurrent == Spec => []CurrentFileFollows
<1>1. Init => FileInv
  BY Zenon DEF Init, FileInv, FileUpToDate
<1>2. /\ TypeOK /\ TypeOK' /\ OneOfAKind /\ PendingInv /\ RecordInv
      /\ SessionInv /\ QuietInv /\ FileInv /\ [Next]_vars
      => FileInv'
  BY Zenon, FileStep
<1>3. FileInv => CurrentFileFollows
  BY Zenon DEF FileInv, FileUpToDate, FileFollows, Undisturbed, CurrentFileFollows
<1> QED
  BY <1>1, <1>2, <1>3, TypeCorrectness, FlagsAreUnique, RecordsHold,
     SessionsHold, QuietHolds, PTL DEF Spec

-----------------------------------------------------------------------------
(* The Apps that run when a Target is recorded as current. *)

\* One version of each App.
Single(us) == \A u, w \in us : AppName[u] = AppName[w] => u = w

\* A Target with a version is the one of that version in the TUF metadata; no
\* Target has two versions of an App.
GenuineTarget ==
  {t \in Target : /\ Single(t.apps)
                  /\ t.name \in 1 .. MaxVersion => t = TufTarget(t.name)}

GenuineInv ==
  /\ log \in Seq(Rows(GenuineTarget)) /\ Single(installed)
  /\ job.tgt \in GenuineTarget /\ job.prev \in GenuineTarget

\* The Targets of the metadata, and the ones that stand for none, are genuine.
LEMMA GenuineTypes ==
  /\ UnknownTarget \in GenuineTarget
  /\ \A h \in Hash : [UnknownTarget EXCEPT !.hash = h] \in GenuineTarget
  /\ \A v \in 1 .. MaxVersion : TufTarget(v) \in GenuineTarget
  /\ \A latest \in 0 .. MaxVersion, v \in Int :
       SelectTarget(latest, v) \in GenuineTarget
<1>1. UnknownTarget \in GenuineTarget
  <2>1. UnknownTarget.apps = {} /\ UnknownTarget.name \notin 1 .. MaxVersion
    BY SMTT(30), BoundTypes DEF UnknownTarget, UnknownName
  <2> QED
    BY Zenon, <2>1, TargetTypes DEF GenuineTarget, Single
<1>2. ASSUME NEW h \in Hash
      PROVE  [UnknownTarget EXCEPT !.hash = h] \in GenuineTarget
  <2> DEFINE t == [UnknownTarget EXCEPT !.hash = h]
  <2>1. t.apps = {} /\ t.name \notin 1 .. MaxVersion
    BY SMTT(30), BoundTypes DEF UnknownTarget, UnknownName
  <2>2. t \in Target
    BY Zenon, TargetTypes
  <2> HIDE DEF t
  <2>3. t \in GenuineTarget
    BY Zenon, <2>1, <2>2 DEF GenuineTarget, Single
  <2> QED
    BY Zenon, <2>3 DEF t
<1>3. ASSUME NEW v \in 1 .. MaxVersion
      PROVE  TufTarget(v) \in GenuineTarget
  <2>1. TufTarget(v).apps = AppsOf[v] /\ TufTarget(v).name = v
    BY Zenon DEF TufTarget
  <2>2. Single(AppsOf[v])
    BY Zenon, OneVersionPerApp DEF Single
  <2>3. TufTarget(v) \in Target
    BY Zenon, TargetTypes
  <2> QED
    BY Zenon, <2>1, <2>2, <2>3 DEF GenuineTarget
<1>4. ASSUME NEW latest \in 0 .. MaxVersion, NEW v \in Int
      PROVE  SelectTarget(latest, v) \in GenuineTarget
  <2>1. latest > 0 => latest \in 1 .. MaxVersion
    BY BoundTypes
  <2>2. v \in 1 .. latest => v \in 1 .. MaxVersion
    BY BoundTypes
  <2> QED
    BY Zenon, <1>1, <1>3, <2>1, <2>2 DEF SelectTarget
<1> QED
  BY Zenon, <1>1, <1>2, <1>3, <1>4

\* So are the Targets the table is asked for, and the initial one.
LEMMA GenuineQueries ==
  ASSUME TypeOK, log \in Seq(Rows(GenuineTarget))
  PROVE  /\ CurrentTarget(log, booted) \in GenuineTarget
         /\ PendingTarget(log) \in GenuineTarget
         /\ RollbackTarget(log, TRUE) \in GenuineTarget
         /\ Single(installed) => InitialTarget \in GenuineTarget
<1>1. CurrentTarget(log, booted) \in GenuineTarget
  <2>1. booted \in Hash
    BY Zenon DEF TypeOK
  <2> QED
    BY Zenon, <2>1, GenuineTypes, CurrentTargetType
<1>2. PendingTarget(log) \in GenuineTarget /\ RollbackTarget(log, TRUE) \in GenuineTarget
  BY Zenon, GenuineTypes, QueryTypes
<1>3. ASSUME Single(installed)
      PROVE  InitialTarget \in GenuineTarget
  <2>1. /\ InitialTarget.apps = installed \cap store
        /\ InitialTarget.name \notin 1 .. MaxVersion
    BY BoundTypes DEF InitialTarget, InitialName
  <2>2. Single(installed \cap store)
    BY Zenon, <1>3 DEF Single
  <2> QED
    BY Zenon, <2>1, <2>2, InitialTargetType DEF GenuineTarget
<1> QED
  BY Zenon, <1>1, <1>2, <1>3

\* Whatever is done to an App, its project takes the place of its old one.
LEMMA SingleSteps ==
  ASSUME Single(installed), NEW u, NEW code, NEW t
  PROVE  /\ RunApp(u) => Single(installed')
         /\ CreateApp(u) => Single(installed')
         /\ FailApp(u, code) => Single(installed')
         /\ HandleRemovedApps(t) => Single(installed')
<1>1. Single(WithProject(u))
  BY Zenon DEF Single, WithProject, Named
<1>2. HandleRemovedApps(t) => Single(installed')
  BY Zenon DEF HandleRemovedApps, Single
<1> QED
  BY Zenon, <1>1, <1>2 DEF RunApp, CreateApp, FailApp

\* checkAndSetAppsForUpdate leaves to do what does not run; the Apps it may
\* remove on the way are not the Target's.
LEMMA CheckedApps ==
  ASSUME NEW t, NEW force, CheckAndSetApps(t, force)
  PROVE  /\ todo' \subseteq t.apps /\ t.apps \ todo' \subseteq running'
         /\ Single(installed) => Single(installed')
<1> DEFINE current == CurrentTarget(log, booted)
<1>1. todo' = AppsToUpdate(t, force)
  BY Zenon DEF CheckAndSetApps
<1>2. /\ todo' \subseteq t.apps
      /\ \A u \in t.apps \ todo' : u \in current.apps /\ u \in running
  BY Zenon, <1>1 DEF AppsToUpdate, IsRunning
<1> HIDE DEF current
<1>3. CASE HandleRemovedApps(current)
  BY Zenon, <1>2, <1>3, SingleSteps DEF HandleRemovedApps, Disabled, NamesOf
<1>4. CASE UNCHANGED apps
  BY Zenon, <1>2, <1>4 DEF apps
<1> QED
  BY Zenon, <1>3, <1>4 DEF CheckAndSetApps, current

\* The Target GetTargetToInstall selects is genuine, and it is the one whose
\* Apps are checked, except for a failing one over the initial Target.
LEMMA ChoiceIsGenuine ==
  ASSUME TypeOK, GenuineInv, NEW latest \in 0 .. MaxVersion,
         NEW v \in {-1} \cup 1 .. MaxVersion, NEW allowBad, NEW choice,
         ChoiceSource(choice, latest, v, allowBad)
  PROVE  /\ choice.tgt \in GenuineTarget
         /\ \/ choice.check = choice.tgt
            \/ /\ CurrentTarget(log, booted).name = InitialName
               /\ IsFailing(log, choice.tgt)
<1> DEFINE current == CurrentTarget(log, booted)
<1>1. current \in GenuineTarget /\ RollbackTarget(log, TRUE) \in GenuineTarget
  BY Zenon, GenuineQueries DEF GenuineInv
<1>2. SelectTarget(latest, v) \in GenuineTarget
  <2>1. v \in Int
    BY BoundTypes
  <2> QED
    BY Zenon, <2>1, GenuineTypes
<1>3. current.name \in 1 .. MaxVersion => current = TufTarget(current.name)
  BY Zenon, <1>1 DEF GenuineTarget
<1>4. \A w \in 1 .. MaxVersion : TufTarget(w) \in GenuineTarget
  BY Zenon, GenuineTypes
<1>5. \/ /\ choice.check = choice.tgt
         /\ choice.tgt \in {SelectTarget(latest, v), RollbackTarget(log, TRUE)}
      \/ choice.check = current /\ choice.tgt = current
      \/ /\ choice.check = current /\ current.name \in 1 .. MaxVersion
         /\ choice.tgt = TufTarget(current.name)
      \/ /\ current.name = InitialName /\ latest \in 1 .. MaxVersion
         /\ choice.tgt = TufTarget(latest) /\ IsFailing(log, choice.tgt)
  BY Zenon DEF ChoiceSource
<1> HIDE DEF current
<1>6. choice.tgt \in GenuineTarget
  BY Zenon, <1>1, <1>2, <1>3, <1>4, <1>5
<1>7. \/ choice.check = choice.tgt
      \/ current.name = InitialName /\ IsFailing(log, choice.tgt)
  <2>1. CASE /\ choice.check = current /\ current.name \in 1 .. MaxVersion
             /\ choice.tgt = TufTarget(current.name)
    BY Zenon, <1>3, <2>1
  <2>2. CASE choice.check = current /\ choice.tgt = current
    BY Zenon, <2>2
  <2> QED
    BY Zenon, <1>5, <2>1, <2>2
<1> QED
  BY Zenon, <1>6, <1>7 DEF current

\* Every step keeps GenuineInv.
LEMMA GenuineStep ==
  ASSUME TypeOK, TypeOK', RecordInv, GenuineInv, [Next]_vars
  PROVE  GenuineInv'
<1> DEFINE JobOK == job'.tgt \in GenuineTarget /\ job'.prev \in GenuineTarget
<1>log. log \in Seq(Rows(GenuineTarget)) /\ Single(installed)
  BY Zenon DEF GenuineInv
<1>job. job.tgt \in GenuineTarget /\ job.prev \in GenuineTarget
  BY Zenon DEF GenuineInv
<1>found. /\ UnknownTarget \in GenuineTarget
          /\ CurrentTarget(log, booted) \in GenuineTarget
          /\ PendingTarget(log) \in GenuineTarget
          /\ RollbackTarget(log, TRUE) \in GenuineTarget
          /\ InitialTarget \in GenuineTarget
  BY Zenon, <1>log, GenuineTypes, GenuineQueries
<1>keep. job' = job => JobOK
  BY Zenon, <1>job
<1>ret. \A r : Return(r) => JobOK
  <2>1. \A r : Return(r) => job' = NoJob
    BY Zenon DEF Return
  <2>2. NoJob.tgt = UnknownTarget /\ NoJob.prev = UnknownTarget
    BY Zenon DEF NoJob
  <2> QED
    BY Zenon, <1>found, <2>1, <2>2
<1>new. \A t \in GenuineTarget :
          /\ job' = [NoJob EXCEPT !.tgt = t] => JobOK
          /\ job' = [NoJob EXCEPT !.tgt = t, !.pull = ~IsPending(log)] => JobOK
          /\ CompleteWith(t) => JobOK
  BY Zenon, <1>found DEF NoJob, CompleteWith
<1>pull. ASSUME NEW t \in GenuineTarget, NEW latest, NEW mode, NEW pull,
                NEW inst, NEW inTuf,
                PullAndInstall(t, latest, mode, pull, inst, inTuf)
         PROVE  JobOK
  <2>1. \/ \E r : Return(r)
        \/ job' = [phase |-> "update", tgt |-> t,
                    prev |-> CurrentTarget(log, booted),
                    mode |-> mode, pull |-> pull, inst |-> inst]
    BY Zenon, <1>pull DEF PullAndInstall
  <2>2. CASE \E r : Return(r)
    BY Zenon, <1>ret, <2>2
  <2>3. CASE job' = [phase |-> "update", tgt |-> t,
                     prev |-> CurrentTarget(log, booted),
                     mode |-> mode, pull |-> pull, inst |-> inst]
    BY Zenon, <1>found, <2>3
  <2> QED
    BY Zenon, <2>1, <2>2, <2>3
<1>check. ASSUME \/ UNCHANGED apps
                 \/ \E t, force : CheckAndSetApps(t, force)
          PROVE  Single(installed')
  BY Zenon, <1>log, <1>check, CheckedApps DEF apps
<1>same. ASSUME log' = log, Single(installed'), JobOK
         PROVE  GenuineInv'
  BY Zenon, <1>log, <1>same DEF GenuineInv
<1>save. ASSUME NEW t \in GenuineTarget, NEW mode,
                log' = SaveInstalledVersion(log, t, mode) \/ log' = log
         PROVE  log' \in Seq(Rows(GenuineTarget))
  BY Zenon, <1>log, <1>save, SaveType
<1>inst. ASSUME NEW status, InstallReturns(status), log' = log
         PROVE  GenuineInv'
  <2> DEFINE next == [job EXCEPT !.phase = "revert", !.tgt = job.prev, !.mode = "All"]
  <2>1. \/ (\E r : Return(r)) /\ UNCHANGED apps
        \/ CheckAndSetApps(job.prev, ForcesUpdate) /\ job' = next
    BY ZenonT(60), <1>inst DEF InstallReturns, Revert
  <2>2. next.tgt = job.prev /\ next.prev = job.prev
    BY Zenon DEF TypeOK, Job
  <2> HIDE DEF next
  <2>3. JobOK
    BY Zenon, <1>ret, <1>job, <2>1, <2>2
  <2>4. Single(installed')
    BY Zenon, <1>check, <2>1
  <2> QED
    BY Zenon, <1>inst, <1>same, <2>3, <2>4
<1>1. ASSUME NEW s, StartProcess(s)
      PROVE  GenuineInv'
  <2>1. /\ job' = NoJob /\ UNCHANGED installed
        /\ \/ log' = log
           \/ log' = SaveInstalledVersion(log, InitialTarget, "Current")
    BY Zenon, <1>1 DEF StartProcess, apps
  <2>2. log' \in Seq(Rows(GenuineTarget))
    BY Zenon, <1>found, <1>save, <2>1
  <2>3. JobOK
    BY Zenon, <1>found, <2>1 DEF NoJob
  <2> QED
    BY Zenon, <1>log, <2>1, <2>2, <2>3 DEF GenuineInv
<1>2. CASE StartDaemon \/ StartCommand
  BY Zenon, <1>1, <1>2 DEF StartDaemon, StartCommand
<1>3. CASE FinalizeRolledBack \/ FinalizeBooted
  <2>1. /\ job' = [NoJob EXCEPT !.tgt = PendingTarget(log)]
        /\ UNCHANGED <<log, installed>>
    BY ZenonT(60), <1>3 DEF FinalizeRolledBack, FinalizeBooted, disk, apps
  <2> QED
    BY Zenon, <1>log, <1>found, <1>new, <1>same, <2>1
<1>4. CASE FinalizeApp \/ FinalizeAppFails \/ FinalizeAppsDone
           \/ InstallApp \/ InstallAppFails \/ AppsDone
  <2>1. /\ job' = job /\ log' = log
        /\ \/ UNCHANGED apps
           \/ \E u : RunApp(u) \/ CreateApp(u)
           \/ \E u, code : FailApp(u, code)
           \/ HandleRemovedApps(job.tgt)
    BY ZenonT(60), <1>4
    DEF FinalizeApp, FinalizeAppFails, FinalizeAppsDone, InstallApp,
        InstallAppFails, AppsDone, CleanUp, disk
  <2>2. Single(installed')
    BY Zenon, <1>log, <2>1, SingleSteps DEF apps
  <2> QED
    BY Zenon, <1>keep, <1>same, <2>1, <2>2
<1>5. CASE FinalizeSave \/ SaveResult
  <2>1. /\ job' = job /\ installed' = installed
        /\ \E mode : log' = SaveInstalledVersion(log, job.tgt, mode) \/ log' = log
    BY ZenonT(60), <1>5
    DEF FinalizeSave, FinalizedLog, SaveResult, SavedLog, apps
  <2>2. log' \in Seq(Rows(GenuineTarget))
    BY Zenon, <1>job, <1>save, <2>1
  <2> QED
    BY Zenon, <1>log, <1>keep, <2>1, <2>2 DEF GenuineInv
<1>6. CASE FinalizeEnd
  <2>1. /\ \/ \E r : Return(r)
           \/ CompleteWith(CurrentTarget(log, booted))
           \/ CompleteWith(RollbackTarget(log, TRUE))
        /\ UNCHANGED apps \/ \E t, force : CheckAndSetApps(t, force)
        /\ log' = log
    BY ZenonT(60), <1>6
    DEF FinalizeEnd, SyncAfterBootRollback, RollbackAfterAppFailure, disk
  <2>2. JobOK
    BY Zenon, <1>found, <1>ret, <1>new, <2>1
  <2> QED
    BY Zenon, <1>check, <1>same, <2>1, <2>2
<1>7. CASE DaemonCycle \/ CheckCommand
  <2> DEFINE choice == GetTargetToInstall(published, -1, FALSE, FALSE, FALSE)
             inTuf  == choice.status = "UpdateNewVersion"
  <2>1. \/ \E r : Return(r)
        \/ /\ choice.tgt # UnknownTarget
           /\ PullAndInstall(choice.tgt, published, "All", TRUE, TRUE, inTuf)
    BY ZenonT(60), <1>7 DEF DaemonCycle, CheckCommand
  <2>2. /\ UNCHANGED apps \/ \E t, force : CheckAndSetApps(t, force)
        /\ log' = log /\ pc = "idle"
    BY ZenonT(60), <1>7 DEF DaemonCycle, CheckCommand, disk
  <2>3. published \in 0 .. MaxVersion
    BY Zenon DEF TypeOK
  <2>4. choice.tgt # UnknownTarget => ChoiceSource(choice, published, -1, FALSE)
    BY ZenonT(60), <2>2, <2>3, ChoiceCases
  <2> HIDE DEF choice, inTuf
  <2>5. choice.tgt # UnknownTarget => choice.tgt \in GenuineTarget
    BY Zenon, <2>3, <2>4, ChoiceIsGenuine
  <2>6. JobOK
    BY Zenon, <1>ret, <1>pull, <2>1, <2>5
  <2> QED
    BY Zenon, <1>check, <1>same, <2>2, <2>6
<1>8. CASE UpdateCommand
  <2>1. PICK v \in {-1} \cup 1 .. MaxVersion, mode \in {"All", "OstreeOnly"} :
          LET choice == GetTargetToInstall(tuf', v, TRUE, TRUE, TRUE)
          IN  /\ UNCHANGED apps \/ CheckAndSetApps(choice.check, TRUE)
              /\ \/ \E r : Return(r)
                 \/ /\ choice.tgt # UnknownTarget
                    /\ PullAndInstall(choice.tgt, tuf', mode,
                         session # "install", session # "pull",
                         choice.status = "UpdateNewVersion")
    BY ZenonT(60), <1>8 DEF UpdateCommand
  <2> DEFINE latest == tuf'
             choice == GetTargetToInstall(latest, v, TRUE, TRUE, TRUE)
             pull   == session # "install"
             inst   == session # "pull"
             inTuf  == choice.status = "UpdateNewVersion"
  <2>2. /\ UNCHANGED apps \/ \E t, force : CheckAndSetApps(t, force)
        /\ \/ \E r : Return(r)
           \/ /\ choice.tgt # UnknownTarget
              /\ PullAndInstall(choice.tgt, latest, mode, pull, inst, inTuf)
    BY ZenonT(60), <2>1
  <2>3. log' = log /\ pc = "idle" /\ latest \in 0 .. MaxVersion
    BY Zenon, <1>8 DEF UpdateCommand, disk, TypeOK
  <2> HIDE DEF latest, pull, inst
  <2>4. choice.tgt # UnknownTarget => ChoiceSource(choice, latest, v, TRUE)
    BY ZenonT(60), <2>1, <2>3, ChoiceCases
  <2> HIDE DEF choice, inTuf
  <2>5. choice.tgt # UnknownTarget => choice.tgt \in GenuineTarget
    BY Zenon, <2>1, <2>3, <2>4, ChoiceIsGenuine
  <2>6. JobOK
    BY Zenon, <1>ret, <1>pull, <2>2, <2>5
  <2> QED
    BY Zenon, <1>check, <1>same, <2>2, <2>3, <2>6
<1>9. CASE RollbackMark
  <2> DEFINE target == RollbackTarget(log', IsPending(log))
  <2>1. PICK t : log' = SaveBadTarget(log, t)
    BY ZenonT(30), <1>9 DEF RollbackMark
  <2>2. /\ installed' = installed
        /\ \/ \E r : Return(r)
           \/ job' = [NoJob EXCEPT !.tgt = target, !.pull = ~IsPending(log)]
    BY ZenonT(60), <1>9 DEF RollbackMark, apps
  <2>3. log' \in Seq(Rows(GenuineTarget))
    BY Zenon, <1>log, <2>1, SaveBadType
  <2>4. target \in GenuineTarget
    <3>1. IsPending(log) \in BOOLEAN
      BY Zenon DEF IsPending
    <3> QED
      BY Zenon, <1>found, <2>3, <3>1, QueryTypes
  <2> HIDE DEF target
  <2>5. JobOK
    BY Zenon, <1>ret, <1>new, <2>2, <2>4
  <2> QED
    BY Zenon, <1>log, <2>2, <2>3, <2>5 DEF GenuineInv
<1>10. CASE RollbackUnmark
  <2>1. /\ log' = SaveInstalledVersion(log, PendingTarget(log), "None")
        /\ job' = job /\ installed' = installed
    BY Zenon, <1>10 DEF RollbackUnmark, apps
  <2>2. log' \in Seq(Rows(GenuineTarget))
    BY Zenon, <1>found, <1>save, <2>1
  <2> QED
    BY Zenon, <1>log, <1>keep, <2>1, <2>2 DEF GenuineInv
<1>11. CASE RollbackInstall
  <2>1. /\ PullAndInstall(job.tgt, tuf, "All", job.pull, TRUE, job.pull)
        /\ log' = log /\ installed' = installed
    BY Zenon, <1>11 DEF RollbackInstall, disk, apps
  <2> QED
    BY Zenon, <1>log, <1>job, <1>pull, <1>same, <2>1
<1>12. CASE DownloadOk \/ PullFails \/ FetchFails
  <2>1. /\ job' = job \/ \E r : Return(r)
        /\ log' = log /\ installed' = installed
    BY ZenonT(60), <1>12 DEF DownloadOk, PullFails, FetchFails, DownloadFails, disk
  <2> QED
    BY Zenon, <1>log, <1>keep, <1>ret, <1>same, <2>1
<1>13. CASE VerifyFails \/ InstallEnd
  BY Zenon, <1>13, <1>inst DEF VerifyFails, InstallEnd, disk
<1>14. CASE \/ FinalizeNotBooted \/ StopApps \/ Deploy \/ DeployFails
            \/ StopDaemon \/ Publish \/ UNCHANGED vars
  <2>1. UNCHANGED <<log, installed, job>>
    BY ZenonT(60), <1>14
    DEF FinalizeNotBooted, StopApps, Deploy, DeployFails, StopDaemon, Publish,
        vars, disk, apps, proc
  <2> QED
    BY Zenon, <1>log, <1>keep, <1>same, <2>1
<1>15. CASE Reboot \/ OperatorReboot \/ PowerCut \/ Kill
  <2>1. UNCHANGED <<log, installed>> /\ job' = NoJob
    BY ZenonT(60), <1>15
    DEF Reboot, OperatorReboot, PowerCut, Kill, ProcessGone, disk, apps
  <2>2. JobOK
    BY Zenon, <1>found, <2>1 DEF NoJob
  <2> QED
    BY Zenon, <1>log, <1>same, <2>1, <2>2
<1> QED
  BY ZenonT(60), <1>2, <1>3, <1>4, <1>5, <1>6, <1>7, <1>8, <1>9, <1>10, <1>11,
     <1>12, <1>13, <1>14, <1>15
  DEF Next, Progress, Finalize, Update, Install

\* Starting one of the Apps left to do stops no other App of the Target.
LEMMA RunKeepsRest ==
  ASSUME NEW us, Single(us), todo \subseteq us, us \ todo \subseteq running,
         NEW u \in todo, RunApp(u), todo' = todo \ {u}
  PROVE  todo' \subseteq us /\ us \ todo' \subseteq running'
BY Zenon DEF RunApp, Named, Single

\* Neither does the removal of the Apps the Target does not have.
LEMMA RemovalKeepsTarget ==
  ASSUME NEW t, HandleRemovedApps(t), t.apps \subseteq running
  PROVE  t.apps \subseteq running'
BY Zenon DEF HandleRemovedApps, Disabled, NamesOf

\* The Target at work may be recorded although an App of it does not run.
Excepted ==
  \/ job.prev.name = InitialName /\ IsFailing(log, job.tgt)
  \/ session = "rollback"

\* What is not left to do runs.
Ready == todo \subseteq job.tgt.apps /\ job.tgt.apps \ todo \subseteq running

AppsInv ==
  /\ pc = "finalizeApps" => rc = "Ok" /\ Ready
  /\ pc = "finalizeSave" /\ rc = "Ok" => job.tgt.apps \subseteq running
  /\ pc \in {"download", "install", "deploy"} => Ready \/ Excepted
  /\ pc = "apps" /\ rc = "Ok" => Ready \/ Excepted
  /\ pc = "save" /\ rc = "Ok" /\ job.mode = "All"
       => job.tgt.apps \subseteq running \/ Excepted

\* Every step keeps AppsInv.
LEMMA AppsStep ==
  ASSUME TypeOK, TypeOK', PendingInv, RecordInv, SessionInv, GenuineInv,
         AppsInv, [Next]_vars
  PROVE  AppsInv'
<1>single. Single(job.tgt.apps)
  BY Zenon DEF GenuineInv, GenuineTarget
\* The process has nothing to do with Apps, or not yet.
<1>rest. ASSUME \/ pc' \in {"down", "finalize", "finalizeFile", "idle", "unmark",
                            "rollback", "file", "reboot"}
                \/ pc' \in {"finalizeSave", "save"} /\ rc' # "Ok"
                \/ pc' \in {"download", "install", "deploy"} /\ (Ready' \/ Excepted')
         PROVE  AppsInv'
  BY Zenon, <1>rest DEF AppsInv
<1>ret. \A r : Return(r) => AppsInv'
  <2>1. \A r : Return(r) => pc' \in {"down", "reboot", "idle"}
    BY Zenon DEF Return
  <2> QED
    BY Zenon, <1>rest, <2>1
\* The check of the Apps of the Target that is about to be installed.
<1>check. ASSUME NEW force, CheckAndSetApps(job'.tgt, force),
                 pc' \in {"download", "install"}
          PROVE  AppsInv'
  <2>1. Ready'
    BY Zenon, <1>check, CheckedApps DEF Ready
  <2> QED
    BY Zenon, <1>rest, <1>check, <2>1
<1>keep. UNCHANGED <<job, log, session>> => (Excepted => Excepted')
  BY Zenon DEF Excepted
<1>inst. ASSUME NEW status, InstallReturns(status), UNCHANGED session
         PROVE  AppsInv'
  <2> DEFINE next == [job EXCEPT !.phase = "revert", !.tgt = job.prev, !.mode = "All"]
  <2>1. \/ \E r : Return(r)
        \/ /\ CheckAndSetApps(job.prev, ForcesUpdate) /\ job' = next
           /\ pc' = "install"
    BY ZenonT(60), <1>inst DEF InstallReturns, Revert
  <2>2. next.tgt = job.prev
    BY Zenon DEF TypeOK, Job
  <2> HIDE DEF next
  <2>3. CASE /\ CheckAndSetApps(job.prev, ForcesUpdate)
             /\ job'.tgt = job.prev /\ pc' = "install"
    BY Zenon, <1>check, <2>3
  <2> QED
    BY Zenon, <1>ret, <2>1, <2>2, <2>3
<1>1. CASE \/ StartDaemon \/ StartCommand \/ StopDaemon \/ FinalizeNotBooted
           \/ FinalizeRolledBack \/ FinalizeAppFails \/ FinalizeSave
           \/ SaveResult \/ DeployFails
  <2>1. \/ pc' \in {"down", "finalize", "finalizeFile", "idle", "file"}
        \/ pc' \in {"finalizeSave", "save"}
           /\ rc' \in {"InstallFailed", "CustomError", "DownloadFailed"}
    BY ZenonT(60), <1>1
    DEF StartDaemon, StartCommand, StartProcess, StopDaemon, FinalizeNotBooted,
        FinalizeRolledBack, FinalizeAppFails, FinalizeSave, SaveResult, DeployFails
  <2> QED
    BY Zenon, <1>rest, <2>1
<1>2. CASE Reboot \/ OperatorReboot \/ PowerCut \/ Kill
  <2>1. pc' = "down"
    BY ZenonT(60), <1>2 DEF Reboot, OperatorReboot, PowerCut, Kill, ProcessGone
  <2> QED
    BY Zenon, <1>rest, <2>1
<1>3. CASE FinalizeBooted
  <2>1. /\ pc' = "finalizeApps" /\ rc' = "Ok"
        /\ job' = [NoJob EXCEPT !.tgt = PendingTarget(log)]
        /\ todo' = PendingTarget(log).apps
    BY Zenon, <1>3 DEF FinalizeBooted
  <2>2. job'.tgt = PendingTarget(log)
    BY Zenon, <2>1 DEF NoJob
  <2>3. Ready'
    BY Zenon, <2>1, <2>2 DEF Ready
  <2> QED
    BY Zenon, <2>1, <2>3 DEF AppsInv
<1>4. CASE FinalizeApp
  <2>1. PICK u \in todo : RunApp(u) /\ todo' = todo \ {u}
    BY Zenon, <1>4 DEF FinalizeApp
  <2>2. pc = "finalizeApps" /\ UNCHANGED <<pc, rc, job>>
    BY Zenon, <1>4 DEF FinalizeApp
  <2>3. rc = "Ok" /\ Ready
    BY Zenon, <2>2 DEF AppsInv
  <2>4. Ready'
    BY Zenon, <1>single, <2>1, <2>2, <2>3, RunKeepsRest DEF Ready
  <2> QED
    BY Zenon, <2>2, <2>3, <2>4 DEF AppsInv
<1>5. CASE FinalizeAppsDone
  <2>1. /\ pc = "finalizeApps" /\ todo = {} /\ pc' = "finalizeSave"
        /\ HandleRemovedApps(job.tgt) /\ job' = job
    BY Zenon, <1>5 DEF FinalizeAppsDone
  <2>2. job.tgt.apps \subseteq running
    BY Zenon, <2>1 DEF AppsInv, Ready
  <2>3. job'.tgt.apps \subseteq running'
    BY Zenon, <2>1, <2>2, RemovalKeepsTarget
  <2> QED
    BY Zenon, <2>1, <2>3 DEF AppsInv
<1>6. CASE FinalizeEnd
  <2>1. \/ \E r : Return(r)
        \/ \E t : CheckAndSetApps(t, FALSE) /\ CompleteWith(t)
    BY ZenonT(60), <1>6
    DEF FinalizeEnd, SyncAfterBootRollback, RollbackAfterAppFailure
  <2>2. \A t : CompleteWith(t) => job'.tgt = t /\ pc' = "install"
    BY Zenon DEF CompleteWith, NoJob
  <2> QED
    BY Zenon, <1>ret, <1>check, <2>1, <2>2
\* The installation of a selected Target begins.
<1>pull. ASSUME NEW choice, NEW latest \in 0 .. MaxVersion,
                NEW v \in {-1} \cup 1 .. MaxVersion, NEW allowBad, NEW force,
                ChoiceSource(choice, latest, v, allowBad),
                CheckAndSetApps(choice.check, force),
                NEW mode, NEW pull, NEW inst, NEW inTuf,
                PullAndInstall(choice.tgt, latest, mode, pull, inst, inTuf),
                UNCHANGED <<log, session>>
         PROVE  AppsInv'
  <2>1. CASE \E r : Return(r)
    BY Zenon, <1>ret, <2>1
  <2>2. CASE /\ job'.tgt = choice.tgt /\ job'.prev = CurrentTarget(log, booted)
             /\ pc' \in {"download", "install"}
    <3>1. \/ choice.check = choice.tgt
          \/ /\ CurrentTarget(log, booted).name = InitialName
             /\ IsFailing(log, choice.tgt)
      BY Zenon, <1>pull, ChoiceIsGenuine
    <3>2. CASE choice.check = choice.tgt
      BY Zenon, <1>check, <1>pull, <2>2, <3>2
    <3>3. CASE /\ CurrentTarget(log, booted).name = InitialName
               /\ IsFailing(log, choice.tgt)
      <4>1. Excepted'
        BY Zenon, <1>pull, <2>2, <3>3 DEF Excepted
      <4> QED
        BY Zenon, <1>rest, <2>2, <4>1
    <3> QED
      BY Zenon, <3>1, <3>2, <3>3
  <2>3. \/ \E r : Return(r)
        \/ /\ job'.tgt = choice.tgt /\ job'.prev = CurrentTarget(log, booted)
           /\ pc' \in {"download", "install"}
    <3>1. \/ \E r : Return(r)
          \/ /\ pc' = IF pull THEN "download" ELSE "install"
             /\ job' = [phase |-> "update", tgt |-> choice.tgt,
                         prev |-> CurrentTarget(log, booted),
                         mode |-> mode, pull |-> pull, inst |-> inst]
      BY Zenon, <1>pull DEF PullAndInstall
    <3> QED
      BY SMTT(30), <3>1
  <2> QED
    BY Zenon, <2>1, <2>2, <2>3
<1>7. CASE DaemonCycle
  <2> DEFINE choice == GetTargetToInstall(published, -1, FALSE, FALSE, FALSE)
             inTuf  == choice.status = "UpdateNewVersion"
  <2>1. \/ \E r : Return(r)
        \/ /\ choice.tgt # UnknownTarget
           /\ PullAndInstall(choice.tgt, published, "All", TRUE, TRUE, inTuf)
    BY ZenonT(60), <1>7 DEF DaemonCycle
  <2>2. choice.check # UnknownTarget => CheckAndSetApps(choice.check, FALSE)
    BY ZenonT(60), <1>7 DEF DaemonCycle
  <2>3. UNCHANGED <<log, session>> /\ pc = "idle" /\ published \in 0 .. MaxVersion
    BY Zenon, <1>7 DEF DaemonCycle, disk, TypeOK
  <2>4. choice.tgt # UnknownTarget =>
          /\ choice.check # UnknownTarget
          /\ ChoiceSource(choice, published, -1, FALSE)
    BY ZenonT(60), <2>3, ChoiceCases
  <2> HIDE DEF choice, inTuf
  <2>5. CASE \E r : Return(r)
    BY Zenon, <1>ret, <2>5
  <2> QED
    BY Zenon, <1>pull, <2>1, <2>2, <2>3, <2>4, <2>5
<1>8. CASE CheckCommand
  BY ZenonT(60), <1>8, <1>ret DEF CheckCommand
<1>9. CASE UpdateCommand
  <2>1. PICK v \in {-1} \cup 1 .. MaxVersion, mode \in {"All", "OstreeOnly"} :
          LET choice == GetTargetToInstall(tuf', v, TRUE, TRUE, TRUE)
          IN  \/ \E r : Return(r)
              \/ /\ choice.check # UnknownTarget => CheckAndSetApps(choice.check, TRUE)
                 /\ choice.tgt # UnknownTarget
                 /\ PullAndInstall(choice.tgt, tuf', mode,
                      session # "install", session # "pull",
                      choice.status = "UpdateNewVersion")
    BY ZenonT(60), <1>9 DEF UpdateCommand
  <2> DEFINE latest == tuf'
             choice == GetTargetToInstall(latest, v, TRUE, TRUE, TRUE)
             pull   == session # "install"
             inst   == session # "pull"
             inTuf  == choice.status = "UpdateNewVersion"
  <2>2. \/ \E r : Return(r)
        \/ /\ choice.check # UnknownTarget => CheckAndSetApps(choice.check, TRUE)
           /\ choice.tgt # UnknownTarget
           /\ PullAndInstall(choice.tgt, latest, mode, pull, inst, inTuf)
    BY ZenonT(60), <2>1
  <2>3. UNCHANGED <<log, session>> /\ pc = "idle" /\ latest \in 0 .. MaxVersion
    BY Zenon, <1>9 DEF UpdateCommand, disk, TypeOK
  <2> HIDE DEF latest, pull, inst
  <2>4. choice.tgt # UnknownTarget =>
          choice.check # UnknownTarget /\ ChoiceSource(choice, latest, v, TRUE)
    BY ZenonT(60), <2>1, <2>3, ChoiceCases
  <2> HIDE DEF choice, inTuf
  <2>5. CASE \E r : Return(r)
    BY Zenon, <1>ret, <2>5
  <2> QED
    BY Zenon, <1>pull, <2>1, <2>2, <2>3, <2>4, <2>5
<1>10. CASE RollbackMark \/ RollbackUnmark
  <2>1. \/ \E r : Return(r)
        \/ pc' \in {"unmark", "rollback"}
    BY ZenonT(60), <1>10 DEF RollbackMark, RollbackUnmark
  <2> QED
    BY Zenon, <1>ret, <1>rest, <2>1
<1>11. CASE RollbackInstall
  <2>1. \/ \E r : Return(r)
        \/ pc' \in {"download", "install"}
    BY Zenon, <1>11 DEF RollbackInstall, PullAndInstall
  <2>2. session' = "rollback"
    BY Zenon, <1>11 DEF RollbackInstall, SessionInv
  <2> QED
    BY Zenon, <1>ret, <1>rest, <2>1, <2>2 DEF Excepted
<1>12. CASE DownloadOk
  <2>1. \/ \E r : Return(r)
        \/ /\ pc = "download" /\ pc' = "install"
           /\ UNCHANGED <<job, log, session, todo, running>>
    BY Zenon, <1>12 DEF DownloadOk, disk
  <2>2. pc = "download" => Ready \/ Excepted
    BY Zenon DEF AppsInv
  <2> QED
    BY Zenon, <1>ret, <1>rest, <1>keep, <2>1, <2>2 DEF Ready
<1>13. CASE PullFails \/ FetchFails
  BY Zenon, <1>13, <1>ret DEF PullFails, FetchFails, DownloadFails
<1>14. CASE VerifyFails \/ InstallEnd
  BY Zenon, <1>14, <1>inst DEF VerifyFails, InstallEnd
<1>15. CASE StopApps
  <2>1. /\ pc = "install" /\ pc' = "deploy"
        /\ UNCHANGED <<job, log, session, todo>>
        /\ \/ running' = running
           \/ running' = running \ Disabled(job.tgt)
           \/ running' = (running \ Disabled(job.tgt)) \ Named(running, NamesOf(todo))
    <3>1. \A us : us \ {} = us
      BY Zenon
    <3> QED
      BY ZenonT(60), <1>15, <3>1 DEF StopApps, disk
  <2>2. Ready \/ Excepted
    BY Zenon, <2>1 DEF AppsInv
  <2>3. Ready => Ready'
    BY ZenonT(30), <1>single, <2>1 DEF Ready, Disabled, Named, NamesOf, Single
  <2> QED
    BY Zenon, <1>rest, <1>keep, <2>1, <2>2, <2>3
<1>16. CASE Deploy
  <2>1. /\ pc = "deploy" /\ UNCHANGED <<job, log, session, running>>
        /\ \/ pc' = "save" /\ job.mode = "OstreeOnly"
           \/ /\ pc' = "apps" /\ job.mode # "OstreeOnly"
              /\ rc' = "Ok" /\ job.mode = "All" => todo' = todo
    BY ZenonT(60), <1>16 DEF Deploy, AppsFollow, apps
  <2>2. job.mode \in {"All", "OstreeOnly"}
    BY Zenon DEF TypeOK, Job
  <2>3. Ready \/ Excepted
    BY Zenon, <2>1 DEF AppsInv
  <2> QED
    BY Zenon, <1>keep, <2>1, <2>2, <2>3 DEF AppsInv, Ready
<1>17. CASE InstallApp
  <2>1. PICK u \in todo : /\ todo' = todo \ {u}
                          /\ booted = job.tgt.hash => RunApp(u)
    BY Zenon, <1>17 DEF InstallApp
  <2>2. pc = "apps" /\ UNCHANGED <<pc, rc, job, log, session>>
    BY Zenon, <1>17 DEF InstallApp, disk
  <2>3. CASE rc # "Ok"
    BY Zenon, <2>2, <2>3 DEF AppsInv
  <2>4. CASE rc = "Ok"
    <3>1. RunApp(u) /\ (Ready \/ Excepted)
      BY Zenon, <2>1, <2>2, <2>4 DEF PendingInv, AppsInv
    <3>2. Ready => Ready'
      BY Zenon, <1>single, <2>1, <2>2, <3>1, RunKeepsRest DEF Ready
    <3> QED
      BY Zenon, <1>keep, <2>2, <3>1, <3>2 DEF AppsInv
  <2> QED
    BY Zenon, <2>3, <2>4
<1>18. CASE InstallAppFails
  <2>1. pc' = "apps" /\ rc' \in {"InstallFailed", "DownloadFailed"}
    BY Zenon, <1>18 DEF InstallAppFails
  <2> QED
    BY Zenon, <2>1 DEF AppsInv
<1>19. CASE AppsDone
  <2>1. /\ pc = "apps" /\ todo = {} /\ pc' = "save"
        /\ rc = "Ok" => HandleRemovedApps(job.tgt)
        /\ UNCHANGED <<rc, job, log, session>>
    BY Zenon, <1>19 DEF AppsDone, CleanUp, disk
  <2>2. CASE rc # "Ok"
    BY Zenon, <1>rest, <2>1, <2>2
  <2>3. CASE rc = "Ok"
    <3>1. job.tgt.apps \subseteq running \/ Excepted
      BY Zenon, <2>1, <2>3 DEF AppsInv, Ready
    <3>2. job.tgt.apps \subseteq running => job'.tgt.apps \subseteq running'
      BY Zenon, <2>1, <2>3, RemovalKeepsTarget
    <3> QED
      BY Zenon, <1>keep, <2>1, <3>1, <3>2 DEF AppsInv
  <2> QED
    BY Zenon, <2>2, <2>3
<1>20. CASE Publish \/ UNCHANGED vars
  <2>1. UNCHANGED <<pc, rc, job, log, session, todo, running>>
    BY Zenon, <1>20 DEF Publish, vars, disk, apps, proc
  <2> QED
    BY Zenon, <1>keep, <2>1 DEF AppsInv, Ready
<1> QED
  BY ZenonT(60), <1>1, <1>2, <1>3, <1>4, <1>5, <1>6, <1>7, <1>8, <1>9, <1>10,
     <1>11, <1>12, <1>13, <1>14, <1>15, <1>16, <1>17, <1>18, <1>19, <1>20
  DEF Next, Progress, Finalize, Update, Install

\* All Apps of a Target run when it is recorded as current, except for a
\* failing Target over the initial one and for the rollback command.
THEOREM RecordedTargetRuns == Spec => []OkMeansAppsRun
<1>1. Init => GenuineInv /\ AppsInv
  <2> SUFFICES ASSUME Init PROVE GenuineInv /\ AppsInv
    BY Zenon
  <2>1. Single(installed)
    BY Zenon, OneVersionPerApp DEF Init, Single
  <2>2. log \in Seq(Rows(GenuineTarget))
    BY DEF Init
  <2>3. job.tgt = UnknownTarget /\ job.prev = UnknownTarget /\ pc = "down"
    BY Zenon DEF Init, NoJob
  <2> QED
    BY Zenon, <2>1, <2>2, <2>3, GenuineTypes DEF GenuineInv, AppsInv
<1>2. /\ TypeOK /\ TypeOK' /\ PendingInv /\ RecordInv /\ SessionInv
      /\ GenuineInv /\ AppsInv /\ [Next]_vars
      => GenuineInv' /\ AppsInv'
  BY Zenon, GenuineStep, AppsStep
<1>3. AppsInv => OkMeansAppsRun
  BY Zenon DEF AppsInv, Excepted, OkMeansAppsRun
<1> QED
  BY <1>1, <1>2, <1>3, TypeCorrectness, RecordsHold, SessionsHold, PTL DEF Spec
=============================================================================
