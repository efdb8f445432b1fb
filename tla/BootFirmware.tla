---------------------------- MODULE BootFirmware ----------------------------
(***************************************************************************)
(* Boot firmware updates: a rootfs may bring a new version of the boot     *)
(* firmware.  RootfsTreeManager verifies it before it deploys the rootfs,  *)
(* BootloaderLite asks the bootloader for the upgrade through its          *)
(* environment, and the bootloader (external) runs the new firmware on     *)
(* trial from the next boot until the boot after it.                       *)
(*                                                                         *)
(* Apps, downloads and the rest of the update cycle are in UpdateAgent.    *)
(***************************************************************************)
EXTENDS Integers

CONSTANTS
  Hash, NoHash,          \* ostree commit hashes
  FactoryHash,           \* the rootfs the device was made with
  FwVersion,             \* numbers of firmware versions
  UpdateSupported,       \* the bootloader has an environment to read and set
  UpdateBlock,           \* sota.toml: no rootfs update during a trial
  RollbackProtection,    \* the bootloader's variable rollback_protection
  Failures,              \* the kinds of failure that may happen
  MaxFailures, MaxCrashes, MaxPublish,
  MaxUndeploys           \* how often a pending rootfs is undeployed

\* A deployment, a boot, a command that reads or sets a bootloader variable.
AllFailures == {"deploy", "boot", "get_env", "set_env"}

\* What /usr/lib/firmware/version.txt of a rootfs may hold: no file, no
\* `bootfirmware_version`, a version that is not a number.
NoFile == -1
Malformed == -2
Text == -3
FwFile == FwVersion \union {NoFile, Malformed, Text}

ASSUME BootFirmwareAssumption ==
  /\ NoHash \notin Hash /\ FactoryHash \in Hash
  /\ FwVersion \subseteq Nat
  /\ {UpdateSupported, UpdateBlock, RollbackProtection} \subseteq BOOLEAN
  /\ Failures \subseteq AllFailures
  /\ {MaxFailures, MaxCrashes, MaxPublish, MaxUndeploys} \subseteq Nat

VARIABLES
  fwOf,          \* [Hash -> FwFile], the firmware of each rootfs
  booted, staged,        \* the booted deployment, the one to boot next
  pending, failing,      \* what the installed-versions table says
  firmware,      \* the bootloader's bootfirmware_version
  upgrade,       \* its bootupgrade_available
  trial,         \* the bootloader runs a firmware it has not confirmed
  published,     \* the rootfs of the latest Target
  job,           \* the installation that runs
  result,        \* the status InstallContext::Install returned last
  rebootRequired, rebooted,
  failures,      \* how many of each kind have happened
  crashes, publishes, undeploys

device == <<fwOf, booted, staged, firmware, upgrade, trial>>
table == <<pending, failing>>
counts == <<failures, crashes, publishes, undeploys>>
vars == <<device, table, published, job, result, rebootRequired, rebooted, counts>>

Codes == {"None", "Ok", "NeedCompletion", "InstallFailed"}
Job == [target : Hash \union {NoHash},
        at : {"idle", "verify", "deploy", "notify", "save"}, code : Codes]
NoJob == [target |-> NoHash, at |-> "idle", code |-> "None"]

Statuses == {"None", "Ok", "NeedsCompletion", "BootFwNeedsCompletion", "Failed",
             "OkBootFwNeedsCompletion"}

TypeOK ==
  /\ fwOf \in [Hash -> FwFile]
  /\ booted \in Hash /\ staged \in Hash
  /\ pending \in Hash \union {NoHash} /\ failing \subseteq Hash
  /\ firmware \in FwVersion \union {Text}
  /\ {upgrade, trial, rebootRequired, rebooted} \subseteq BOOLEAN
  /\ published \in Hash
  /\ job \in Job
  /\ result \in Statuses
  /\ failures \in [AllFailures -> 0 .. MaxFailures]
  /\ crashes \in 0 .. MaxCrashes
  /\ publishes \in 0 .. MaxPublish
  /\ undeploys \in 0 .. MaxUndeploys

-----------------------------------------------------------------------------
(* Reading the bootloader's environment. *)

TotalFailures ==
  failures["deploy"] + failures["boot"] + failures["get_env"] + failures["set_env"]

Fails(kind) ==
  /\ kind \in Failures
  /\ TotalFailures < MaxFailures
  /\ failures' = [failures EXCEPT ![kind] = @ + 1]

\* A reading that fails: no upgrade in progress, no protection, version 0.
IsUpdateInProgress(readable) == UpdateSupported /\ readable /\ upgrade
IsRollbackProtectionEnabled(readable) ==
  UpdateSupported /\ readable /\ RollbackProtection
CurrentVersion(readable) == IF readable /\ firmware # Text THEN firmware ELSE 0

-----------------------------------------------------------------------------
(* RootfsTreeManager::install. *)

\* A slip: a trial blocks nothing while the new rootfs has no new firmware.
VerifyBootloaderUpdateSame(h, flag, protection, version) ==
  IF UpdateBlock /\ IsUpdateInProgress(flag) /\ fwOf[h] # firmware THEN "NeedCompletion"
  ELSE IF ~IsRollbackProtectionEnabled(protection) \/ fwOf[h] = NoFile THEN "Ok"
  ELSE IF fwOf[h] \in {Malformed, Text} \/ fwOf[h] < CurrentVersion(version)
       THEN "InstallFailed" ELSE "Ok"

\* A slip: the rollback check is left out.
VerifyBootloaderUpdateLax(h, flag, protection, version) ==
  IF UpdateBlock /\ IsUpdateInProgress(flag) THEN "NeedCompletion" ELSE "Ok"

\* A slip: the status of an installation is returned for its result code.
VerifyBootloaderUpdateStatus(h, flag, protection, version) ==
  IF UpdateBlock /\ IsUpdateInProgress(flag) THEN "NeedsCompletion" ELSE "Ok"

\* The parameters tell whether the variables can be read.
VerifyBootloaderUpdate(h, flag, protection, version) ==
  IF UpdateBlock /\ IsUpdateInProgress(flag) THEN "NeedCompletion"
  ELSE IF ~IsRollbackProtectionEnabled(protection) \/ fwOf[h] = NoFile THEN "Ok"
  ELSE IF fwOf[h] \in {Malformed, Text} \/ fwOf[h] < CurrentVersion(version)
       THEN "InstallFailed" ELSE "Ok"

Verify ==
  /\ job.at = "verify"
  /\ \E flag, protection, version \in BOOLEAN :
       LET code == IF job.target # booted /\ UpdateSupported
                   THEN VerifyBootloaderUpdate(job.target, flag, protection, version)
                   ELSE "Ok"
       IN  /\ IF flag /\ protection /\ version THEN UNCHANGED failures
                                               ELSE Fails("get_env")
           /\ job' = [job EXCEPT !.at = IF code = "Ok" THEN "deploy" ELSE "save",
                                 !.code = code]
  /\ UNCHANGED <<device, table, published, result, rebootRequired, rebooted,
                 crashes, publishes, undeploys>>

\* A rootfs is deployed, or a pending one undeployed; otherwise there is
\* nothing to do.
Deploy ==
  /\ job.at = "deploy"
  /\ LET needed == job.target # booted \/ staged \notin {booted, job.target}
     IN  \/ /\ staged' = IF needed THEN job.target ELSE staged
            /\ job' = [job EXCEPT !.at = IF needed THEN "notify" ELSE "save"]
            /\ UNCHANGED failures
         \/ /\ needed /\ Fails("deploy")
            /\ job' = [job EXCEPT !.at = "save", !.code = "InstallFailed"]
            /\ UNCHANGED staged
  /\ UNCHANGED <<fwOf, booted, firmware, upgrade, trial, table, published, result,
                 rebootRequired, rebooted, crashes, publishes, undeploys>>

\* BootloaderLite::installNotify: an upgrade is asked for unless the versions
\* are the same.  An undeployment ends well without a reboot.
InstallNotify ==
  /\ job.at = "notify"
  /\ LET known == UpdateSupported /\ fwOf[job.target] \notin {NoFile, Malformed}
         differs == fwOf[job.target] # firmware
     IN  \/ /\ upgrade' = (upgrade \/ (known /\ differs))
            /\ UNCHANGED failures
         \/ known /\ Fails("get_env") /\ upgrade' = TRUE
         \/ known /\ differs /\ Fails("set_env") /\ UNCHANGED upgrade
  /\ job' = [job EXCEPT !.at = "save",
                        !.code = IF job.target = booted THEN "Ok" ELSE "NeedCompletion"]
  /\ UNCHANGED <<fwOf, booted, staged, firmware, trial, table, published, result,
                 rebootRequired, rebooted, crashes, publishes, undeploys>>

-----------------------------------------------------------------------------
(* LiteClient::install and the status of InstallContext::Install. *)

\* A Target is recorded as pending only if its rootfs is deployed.
SavedPending ==
  CASE job.code = "NeedCompletion" /\ job.target = staged -> job.target
    [] job.code = "Ok" -> NoHash
    [] OTHER           -> pending

\* A slip: a Target that is not installed at once counts as failing.
SavedFailingUnlessOk ==
  IF job.code # "Ok" /\ pending' # job.target THEN failing \union {job.target} ELSE failing

SavedFailing ==
  IF job.code = "InstallFailed" THEN failing \union {job.target} ELSE failing

\* A slip: no reboot is asked for when the Target is blocked.
SavedRebootIfPending == rebootRequired \/ pending' = job.target

\* The client asks for a reboot for a new rootfs and for a blocked one.
SavedReboot == rebootRequired \/ job.code = "NeedCompletion"

Save ==
  /\ job.at = "save"
  /\ pending' = SavedPending
  /\ failing' = SavedFailing
  /\ rebootRequired' = SavedReboot
  /\ result' = CASE job.code = "Ok"            -> "Ok"
                 [] job.code = "InstallFailed" -> "Failed"
                 [] OTHER -> IF pending' = job.target THEN "NeedsCompletion"
                             ELSE "BootFwNeedsCompletion"
  /\ job' = [NoJob EXCEPT !.target = job.target]
  /\ UNCHANGED <<device, published, rebooted, counts>>

-----------------------------------------------------------------------------
(* The daemon. *)

Publish ==
  /\ publishes < MaxPublish
  /\ \E h \in Hash \ {published} : published' = h
  /\ publishes' = publishes + 1
  /\ UNCHANGED <<device, table, job, result, rebootRequired, rebooted, failures, crashes,
                 undeploys>>

\* An update to a new rootfs.
StartUpdate ==
  /\ job.at = "idle" /\ ~rebooted /\ ~rebootRequired
  /\ published \notin failing \union {booted, pending}
  /\ job' = [target |-> published, at |-> "verify", code |-> "None"]
  /\ result' = "None"
  /\ UNCHANGED <<device, table, published, rebootRequired, rebooted, counts>>

\* A rollback of the pending rootfs: the booted one is installed again.
StartUndeploy ==
  /\ undeploys < MaxUndeploys
  /\ undeploys' = undeploys + 1
  /\ job.at = "idle" /\ ~rebooted
  /\ pending # NoHash
  /\ job' = [target |-> booted, at |-> "verify", code |-> "None"]
  /\ failing' = failing \union {pending}
  /\ result' = "None"
  /\ UNCHANGED <<device, pending, published, rebootRequired, rebooted, failures,
                 crashes, publishes>>

\* AkliteClient::CompleteInstallation after a boot.
CompleteInstallation ==
  /\ rebooted
  /\ rebooted' = FALSE
  /\ pending' = NoHash
  /\ failing' = IF pending \in {NoHash, booted} THEN failing
                ELSE failing \union {pending}
  /\ \E readable \in BOOLEAN :
       /\ IF readable THEN UNCHANGED failures ELSE Fails("get_env")
       /\ result' = IF pending \notin {NoHash, booted} THEN "Failed"
                    ELSE IF IsUpdateInProgress(readable) THEN "OkBootFwNeedsCompletion"
                    ELSE "Ok"
  /\ UNCHANGED <<device, published, job, rebootRequired, crashes, publishes,
                 undeploys>>

-----------------------------------------------------------------------------
(* The bootloader (external). *)

\* The firmware a rootfs holds replaces the running one.
Flashed(h) ==
  IF fwOf[h] \in {NoFile, Malformed} THEN firmware ELSE fwOf[h]

\* A trial begins, or is confirmed; a bootloader without trials upgrades at
\* once.  A rootfs that does not boot is given up together with its firmware.
Boot ==
  \/ /\ booted' = staged
     /\ IF ~upgrade \/ trial
        THEN upgrade' = FALSE /\ trial' = FALSE /\ UNCHANGED firmware
        ELSE /\ firmware' = Flashed(staged)
             /\ \E onTrial \in BOOLEAN : upgrade' = onTrial /\ trial' = onTrial
     /\ UNCHANGED <<staged, failures>>
  \/ /\ staged # booted /\ Fails("boot")
     /\ staged' = booted
     /\ upgrade' = FALSE /\ trial' = FALSE
     /\ UNCHANGED <<booted, firmware>>

\* By the daemon when it is required, by a power cut at any time.
Reboot ==
  /\ \/ rebootRequired /\ job.at = "idle" /\ ~rebooted /\ UNCHANGED crashes
     \/ crashes < MaxCrashes /\ crashes' = crashes + 1
  /\ Boot
  /\ job' = NoJob
  /\ result' = "None"
  /\ rebootRequired' = FALSE /\ rebooted' = TRUE
  /\ UNCHANGED <<fwOf, table, published, publishes, undeploys>>

-----------------------------------------------------------------------------
\* The firmware a device comes with may be older or newer than the one in its
\* rootfs, or have a version that is not a number.
Init ==
  /\ fwOf \in [Hash -> FwFile]
  /\ booted = FactoryHash /\ staged = booted
  /\ pending = NoHash /\ failing = {}
  /\ firmware \in FwVersion \union {Text}
  /\ upgrade = FALSE /\ trial = FALSE
  /\ published = booted
  /\ job = NoJob /\ result = "None"
  /\ rebootRequired = FALSE /\ rebooted = FALSE
  /\ failures = [k \in AllFailures |-> 0]
  /\ crashes = 0 /\ publishes = 0 /\ undeploys = 0

Daemon ==
  \/ StartUpdate \/ Verify \/ Deploy \/ InstallNotify \/ Save
  \/ CompleteInstallation

Next == Publish \/ Daemon \/ StartUndeploy \/ Reboot

Spec == Init /\ [][Next]_vars

FairSpec == Spec /\ WF_vars(Daemon) /\ WF_vars(rebootRequired /\ Reboot)

-----------------------------------------------------------------------------
(* Properties. *)

\* "A device must be rebooted to confirm and finalize the boot fw update before
\* installation of a new Target" (verifyBootloaderUpdate): with UpdateBlock no
\* other rootfs is deployed while a firmware is on trial.  (Without failing
\* reads of the environment, which count as no update in progress.)
NoDeployOnTrial ==
  [][trial /\ UpdateBlock /\ failures["get_env"] = 0 /\ staged' # staged
       => staged' = booted']_vars

\* BootFwNeedsCompletion, the status LiteInstall::Install gives when the Target
\* is not pending: the Target was left alone, neither deployed nor failing, an
\* earlier firmware upgrade is under way, and the reboot that ends it is due.
BlockedTargetIsUntouched ==
  result = "BootFwNeedsCompletion" =>
    /\ upgrade /\ rebootRequired
    /\ job.target \notin failing \union {staged, pending}

\* With rollback protection an upgrade never installs an older firmware than
\* the one that runs, over any sequence of updates, trials, failed boots and
\* power cuts.  (Without undeployments and failing reads.)
FirmwareNeverGoesBack ==
  [][RollbackProtection /\ UpdateSupported /\ firmware # Text
       /\ failures["get_env"] = 0 /\ undeploys = 0
       => firmware' # Text /\ firmware' >= firmware]_vars

\* A Target that is blocked by a firmware on trial is installed after the
\* reboot that confirms it: the latest rootfs is booted in the end, or failing.
UpdateGetsThrough == <>[](published = booted \/ published \in failing)
=============================================================================
