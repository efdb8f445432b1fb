------------------------ MODULE BootFirmwareProofs ------------------------
(***************************************************************************)
(* That firmware trials are respected and firmware is never rolled back:   *)
(* for all rootfs, firmware versions, bootloaders and failures.            *)
(***************************************************************************)
EXTENDS BootFirmware, TLAPS

\* The environment of the bootloader has been readable so far.
Readable == failures["get_env"] = 0

\* What rollback protection lets through: nothing, or no older version.
NotOlder(h) == fwOf[h] = NoFile \/ (fwOf[h] \in FwVersion /\ fwOf[h] >= firmware)

Protected ==
  RollbackProtection /\ UpdateSupported /\ Readable /\ firmware # Text /\ undeploys = 0

\* One installation at a time, of which nothing is reported before its end;
\* only an installation sets the upgrade flag, and only a boot begins a trial.
JobInv ==
  /\ job.at # "idle" => job.target \in Hash /\ result = "None" /\ ~rebooted
  /\ job.at = "deploy" => job.code = "Ok"
  /\ job.at = "save" => job.code # "None"
  /\ trial => upgrade
  /\ upgrade => UpdateSupported
  /\ undeploys = 0 /\ job.at # "idle" => job.target # booted

\* A Target that is new when its installation begins is new until it is
\* deployed, and so is one that is blocked.
BlockInv ==
  /\ job.at = "verify" /\ job.target # booted => job.target \notin failing \union {pending}
  /\ job.at = "notify" => staged = job.target
  /\ job.at = "save" /\ job.code = "NeedCompletion" =>
       \/ staged = job.target
       \/ upgrade /\ job.target \notin failing \union {pending}
  /\ result = "BootFwNeedsCompletion" => job.at = "idle"

\* Nothing but the booted rootfs gets past the check during a trial.
TrialInv ==
  UpdateBlock /\ Readable /\ trial /\ job.at = "deploy" => job.target = booted

\* The rootfs to boot next has been checked if it is to bring its firmware, and
\* the one in work has been checked before it is deployed.
RollbackInv ==
  Protected =>
    /\ job.at \in {"deploy", "notify"} => NotOlder(job.target)
    /\ upgrade /\ ~trial => NotOlder(staged)

Inv == TypeOK /\ JobInv /\ BlockInv /\ TrialInv /\ RollbackInv /\ BlockedTargetIsUntouched

-----------------------------------------------------------------------------
(* Types. *)

\* A failure is counted under its kind and within the bound.
LEMMA FailsCounts ==
  ASSUME TypeOK, NEW kind \in AllFailures, Fails(kind)
  PROVE  /\ failures' \in [AllFailures -> 0 .. MaxFailures]
         /\ failures' = [failures EXCEPT ![kind] = failures[kind] + 1]
<1>1. /\ failures \in [AllFailures -> 0 .. MaxFailures] /\ MaxFailures \in Nat
      /\ failures' = [failures EXCEPT ![kind] = failures[kind] + 1]
  BY Zenon, BootFirmwareAssumption DEF TypeOK, Fails
<1>2. failures["deploy"] + failures["boot"] + failures["get_env"] + failures["set_env"]
        < MaxFailures
  BY Zenon DEF Fails, TotalFailures
<1>3. \A k \in AllFailures : failures[k] \in Nat
  BY <1>1
<1>4. failures[kind] + 1 \in 0 .. MaxFailures
  BY <1>1, <1>2, <1>3 DEF AllFailures
<1> QED BY Zenon, <1>1, <1>4

\* A step with at most one failure.
LEMMA FailureTypes ==
  ASSUME TypeOK, UNCHANGED failures \/ \E k \in AllFailures : Fails(k)
  PROVE  failures' \in [AllFailures -> 0 .. MaxFailures]
BY FailsCounts, Zenon DEF TypeOK

\* The types hold initially.
LEMMA TypeInit == Init => TypeOK
<1> SUFFICES ASSUME Init PROVE TypeOK
  BY Zenon
<1>1. job \in Job /\ result \in Statuses
  BY Zenon DEF Init, NoJob, Job, Codes, Statuses
<1>2. failures \in [AllFailures -> 0 .. MaxFailures]
  BY BootFirmwareAssumption DEF Init
<1>3. /\ crashes \in 0 .. MaxCrashes /\ publishes \in 0 .. MaxPublish
      /\ undeploys \in 0 .. MaxUndeploys
  BY BootFirmwareAssumption DEF Init
<1> QED BY <1>1, <1>2, <1>3, BootFirmwareAssumption, Zenon DEF Init, TypeOK

\* Every step keeps the types.
LEMMA TypeNext ==
  ASSUME TypeOK, JobInv, [Next]_vars
  PROVE  TypeOK'
<1> USE BootFirmwareAssumption
<1>1. CASE Publish
  BY <1>1 DEF Publish, TypeOK, device, table
<1>2. CASE StartUpdate
  BY Zenon, <1>2 DEF StartUpdate, TypeOK, device, table, counts, Job, Codes, Statuses
<1>3. CASE Verify
  <2>1. PICK flag, protection, version \in BOOLEAN, code \in Codes :
          /\ UNCHANGED failures \/ Fails("get_env")
          /\ job' = [job EXCEPT !.at = IF code = "Ok" THEN "deploy" ELSE "save",
                                !.code = code]
    BY Zenon, <1>3 DEF Verify, VerifyBootloaderUpdate, Codes
  <2>2. failures' \in [AllFailures -> 0 .. MaxFailures]
    BY Zenon, <2>1, FailureTypes DEF AllFailures
  <2>3. job' \in Job
    BY Zenon, <2>1 DEF TypeOK, Job
  <2> QED BY Zenon, <1>3, <2>2, <2>3 DEF Verify, TypeOK, device, table
<1>4. CASE Deploy
  <2>1. failures' \in [AllFailures -> 0 .. MaxFailures]
    BY Zenon, <1>4, FailureTypes DEF Deploy, AllFailures
  <2>2. job' \in Job
    BY Zenon, <1>4 DEF Deploy, TypeOK, Job, Codes
  <2>3. staged' \in Hash
    BY Zenon, <1>4 DEF Deploy, TypeOK, JobInv
  <2> QED BY Zenon, <1>4, <2>1, <2>2, <2>3 DEF Deploy, TypeOK, table
<1>5. CASE InstallNotify
  <2>1. failures' \in [AllFailures -> 0 .. MaxFailures]
    BY Zenon, <1>5, FailureTypes DEF InstallNotify, AllFailures
  <2>2. job' \in Job
    BY Zenon, <1>5 DEF InstallNotify, TypeOK, Job, Codes
  <2>3. upgrade' \in BOOLEAN
    BY Zenon, <1>5 DEF InstallNotify, TypeOK
  <2> QED BY Zenon, <1>5, <2>1, <2>2, <2>3 DEF InstallNotify, TypeOK, table
<1>6. CASE Save
  <2>1. job' \in Job /\ result' \in Statuses
    BY Zenon, <1>6 DEF Save, TypeOK, Job, NoJob, Codes, Statuses
  <2>2. pending' \in Hash \union {NoHash} /\ failing' \subseteq Hash
    BY Zenon, <1>6 DEF Save, SavedPending, SavedFailing, TypeOK, JobInv
  <2>3. rebootRequired' \in BOOLEAN
    BY Zenon, <1>6 DEF Save, SavedReboot, TypeOK
  <2> QED BY Zenon, <1>6, <2>1, <2>2, <2>3 DEF Save, TypeOK, device, counts
<1>7. CASE StartUndeploy
  <2>1. job' \in Job
    BY Zenon, <1>7 DEF StartUndeploy, TypeOK, Job, Codes
  <2>2. failing' \subseteq Hash
    BY Zenon, <1>7 DEF StartUndeploy, TypeOK
  <2> QED BY <1>7, <2>1, <2>2 DEF StartUndeploy, TypeOK, device, Statuses
<1>8. CASE CompleteInstallation
  <2>1. failures' \in [AllFailures -> 0 .. MaxFailures]
    BY Zenon, <1>8, FailureTypes DEF CompleteInstallation, AllFailures
  <2>2. failing' \subseteq Hash /\ result' \in Statuses
    BY Zenon, <1>8 DEF CompleteInstallation, TypeOK, Statuses
  <2> QED BY Zenon, <1>8, <2>1, <2>2 DEF CompleteInstallation, TypeOK, device
<1>9. CASE Reboot
  <2>1. failures' \in [AllFailures -> 0 .. MaxFailures]
    BY Zenon, <1>9, FailureTypes DEF Reboot, Boot, AllFailures
  <2>2. crashes' \in 0 .. MaxCrashes
    BY <1>9 DEF Reboot, TypeOK
  <2>3. firmware' \in FwVersion \union {Text}
    BY <1>9 DEF Reboot, Boot, Flashed, TypeOK, FwFile
  <2>4. booted' \in Hash /\ staged' \in Hash /\ {upgrade', trial'} \subseteq BOOLEAN
    BY Zenon, <1>9 DEF Reboot, Boot, TypeOK
  <2> QED BY Zenon, <1>9, <2>1, <2>2, <2>3, <2>4
          DEF Reboot, TypeOK, table, NoJob, Job, Codes, Statuses
<1>10. CASE UNCHANGED vars
  BY Zenon, <1>10 DEF vars, device, table, counts, TypeOK
<1> QED BY Zenon, <1>1, <1>2, <1>3, <1>4, <1>5, <1>6, <1>7, <1>8, <1>9, <1>10 DEF Next, Daemon

-----------------------------------------------------------------------------
(* One installation at a time. *)

\* The next state of the failures of reading.
LEMMA ReadableNext ==
  ASSUME TypeOK, UNCHANGED failures \/ \E k \in AllFailures : Fails(k)
  PROVE  /\ Readable' => Readable
         /\ Fails("get_env") => ~Readable'
<1>1. ASSUME NEW k \in AllFailures, Fails(k)
      PROVE  /\ Readable' => Readable
             /\ k = "get_env" => ~Readable'
  BY <1>1, FailsCounts DEF Readable, TypeOK, AllFailures
<1> QED BY Zenon, <1>1 DEF Readable, AllFailures

\* Every step keeps what the daemon's job says of the device.
LEMMA JobNext ==
  ASSUME TypeOK, JobInv, [Next]_vars
  PROVE  JobInv'
<1> USE DEF JobInv
<1>1. CASE Publish
  BY Zenon, <1>1 DEF Publish, device
<1>2. CASE StartUpdate
  BY Zenon, <1>2 DEF StartUpdate, device, counts, TypeOK
<1>3. CASE Verify
  <2>1. PICK code \in Codes \ {"None"} :
          job' = [job EXCEPT !.at = IF code = "Ok" THEN "deploy" ELSE "save", !.code = code]
    BY Zenon, <1>3 DEF Verify, VerifyBootloaderUpdate, Codes
  <2>2. job'.code = code /\ job'.target = job.target
    BY Zenon, <2>1 DEF TypeOK, Job
  <2> QED BY <1>3, <2>2 DEF Verify, device
<1>4. CASE Deploy
  BY Zenon, <1>4 DEF Deploy, TypeOK, Job
<1>5. CASE InstallNotify
  BY Zenon, <1>5 DEF InstallNotify, TypeOK, Job
<1>6. CASE Save
  BY Zenon, <1>6 DEF Save, NoJob, device, counts
<1>7. CASE StartUndeploy
  BY <1>7 DEF StartUndeploy, device, TypeOK
<1>8. CASE CompleteInstallation
  BY Zenon, <1>8 DEF CompleteInstallation, device
<1>9. CASE Reboot
  BY <1>9 DEF Reboot, Boot, NoJob
<1>10. CASE UNCHANGED vars
  BY Zenon, <1>10 DEF vars, device, table, counts
<1> QED BY Zenon, <1>1, <1>2, <1>3, <1>4, <1>5, <1>6, <1>7, <1>8, <1>9, <1>10 DEF Next, Daemon

-----------------------------------------------------------------------------
(* Blocked Targets. *)

\* What happens to a Target between the steps of its installation.
LEMMA BlockNext ==
  ASSUME TypeOK, JobInv, BlockInv, [Next]_vars
  PROVE  BlockInv'
<1> USE DEF BlockInv
<1>1. CASE Publish
  BY Zenon, <1>1 DEF Publish, device, table
<1>2. CASE StartUpdate
  BY Zenon, <1>2 DEF StartUpdate, device, table
<1>3. CASE Verify
  <2>1. PICK flag, protection, version \in BOOLEAN :
          LET code == IF job.target # booted /\ UpdateSupported
                      THEN VerifyBootloaderUpdate(job.target, flag, protection, version)
                      ELSE "Ok"
          IN  job' = [job EXCEPT !.at = IF code = "Ok" THEN "deploy" ELSE "save",
                                 !.code = code]
    BY Zenon, <1>3 DEF Verify
  <2>2. /\ job'.target = job.target /\ job'.at \in {"deploy", "save"}
        /\ job'.code = "NeedCompletion" => upgrade /\ job.target # booted
    BY Zenon, <2>1 DEF VerifyBootloaderUpdate, IsUpdateInProgress, TypeOK, Job
  <2> QED BY Zenon, <1>3, <2>2 DEF Verify, device, table
<1>4. CASE Deploy
  <2>1. job.code # "NeedCompletion"
    BY Zenon, <1>4 DEF Deploy, JobInv
  <2> QED BY Zenon, <1>4, <2>1 DEF Deploy, table, TypeOK, Job
<1>5. CASE InstallNotify
  BY Zenon, <1>5 DEF InstallNotify, table, TypeOK, Job
<1>6. CASE Save
  BY Zenon, <1>6 DEF Save, NoJob
<1>7. CASE StartUndeploy
  BY Zenon, <1>7 DEF StartUndeploy, device
<1>8. CASE CompleteInstallation
  BY Zenon, <1>8 DEF CompleteInstallation, device, JobInv
<1>9. CASE Reboot
  BY Zenon, <1>9 DEF Reboot, NoJob
<1>10. CASE UNCHANGED vars
  BY Zenon, <1>10 DEF vars, device, table
<1> QED BY Zenon, <1>1, <1>2, <1>3, <1>4, <1>5, <1>6, <1>7, <1>8, <1>9, <1>10 DEF Next, Daemon

\* The status that says so is true when it is given, and stays true.
LEMMA BlockedNext ==
  ASSUME TypeOK, JobInv, BlockInv, BlockedTargetIsUntouched, [Next]_vars
  PROVE  BlockedTargetIsUntouched'
<1> USE DEF BlockedTargetIsUntouched
<1>1. CASE Publish
  BY Zenon, <1>1 DEF Publish, device, table
<1>2. CASE Verify \/ Deploy \/ InstallNotify
  BY Zenon, <1>2 DEF Verify, Deploy, InstallNotify, BlockInv
<1>3. CASE Save
  <2>1. job'.target = job.target /\ UNCHANGED <<upgrade, staged>>
    BY Zenon, <1>3 DEF Save, NoJob, device
  <2>2. ASSUME result' = "BootFwNeedsCompletion"
        PROVE  job.code = "NeedCompletion" /\ pending' # job.target
    BY Zenon, <1>3, <2>2 DEF Save, JobInv, TypeOK, Job, Codes
  <2> SUFFICES ASSUME result' = "BootFwNeedsCompletion"
               PROVE  /\ upgrade /\ rebootRequired'
                      /\ job.target \notin failing' \union {staged, pending'}
    BY Zenon, <2>1
  <2>3. job.target # staged /\ pending' = pending
    BY Zenon, <1>3, <2>2 DEF Save, SavedPending
  <2>4. failing' = failing /\ rebootRequired'
    BY Zenon, <1>3, <2>2 DEF Save, SavedFailing, SavedReboot
  <2> QED BY Zenon, <1>3, <2>2, <2>3, <2>4 DEF Save, BlockInv
<1>4. CASE StartUpdate \/ StartUndeploy \/ CompleteInstallation \/ Reboot
  BY Zenon, <1>4 DEF StartUpdate, StartUndeploy, CompleteInstallation, Reboot
<1>5. CASE UNCHANGED vars
  BY Zenon, <1>5 DEF vars, device, table
<1> QED BY Zenon, <1>1, <1>2, <1>3, <1>4, <1>5 DEF Next, Daemon

-----------------------------------------------------------------------------
(* Trials and rollback protection. *)

\* A reading that fails is counted.
LEMMA ReadableBefore ==
  ASSUME TypeOK, [Next]_vars, Readable'
  PROVE  Readable
<1>1. UNCHANGED failures \/ \E k \in AllFailures : Fails(k)
  BY Zenon DEF Next, Daemon, Publish, StartUpdate, Verify, Deploy, InstallNotify, Save,
     StartUndeploy, CompleteInstallation, Reboot, Boot, counts, vars, AllFailures
<1> QED BY Zenon, <1>1, ReadableNext

\* Every step keeps what is known of a firmware on trial.
LEMMA TrialNext ==
  ASSUME TypeOK, JobInv, TrialInv, [Next]_vars
  PROVE  TrialInv'
<1> USE DEF TrialInv
<1>1. CASE Publish
  BY Zenon, <1>1 DEF Publish, device, Readable
<1>2. CASE Verify
  <2> SUFFICES ASSUME UpdateBlock, Readable', trial, job'.at = "deploy"
               PROVE  job'.target = booted
    BY Zenon, <1>2 DEF Verify, device
  <2>1. PICK flag, protection, version \in BOOLEAN :
          LET code == IF job.target # booted /\ UpdateSupported
                      THEN VerifyBootloaderUpdate(job.target, flag, protection, version)
                      ELSE "Ok"
          IN  /\ IF flag /\ protection /\ version THEN UNCHANGED failures
                                                  ELSE Fails("get_env")
              /\ job' = [job EXCEPT !.at = IF code = "Ok" THEN "deploy" ELSE "save",
                                    !.code = code]
    BY Zenon, <1>2 DEF Verify
  <2>2. flag
    BY Zenon, <2>1, ReadableNext DEF AllFailures
  <2>3. job'.target = job.target
    BY Zenon, <2>1 DEF TypeOK, Job
  <2> QED BY Zenon, <2>1, <2>2, <2>3
          DEF VerifyBootloaderUpdate, IsUpdateInProgress, JobInv, TypeOK, Job
<1>3. CASE Deploy \/ InstallNotify \/ Save \/ StartUpdate \/ StartUndeploy \/ Reboot
  <2>1. Deploy \/ InstallNotify => job'.at \in {"notify", "save"}
    BY Zenon DEF Deploy, InstallNotify, TypeOK, Job
  <2>2. Save \/ StartUpdate \/ StartUndeploy \/ Reboot => job'.at \in {"idle", "verify"}
    BY DEF Save, StartUpdate, StartUndeploy, Reboot, NoJob
  <2> QED BY Zenon, <1>3, <2>1, <2>2
<1>4. CASE CompleteInstallation
  BY Zenon, <1>4, ReadableBefore DEF CompleteInstallation, device
<1>5. CASE UNCHANGED vars
  BY Zenon, <1>5 DEF vars, device, counts, Readable
<1> QED BY Zenon, <1>1, <1>2, <1>3, <1>4, <1>5 DEF Next, Daemon

\* Every step keeps the firmware to flash at least as new as the running
\* one, where rollback protection works.
LEMMA RollbackNext ==
  ASSUME TypeOK, JobInv, BlockInv, RollbackInv, [Next]_vars
  PROVE  RollbackInv'
<1> SUFFICES ASSUME Protected'
             PROVE  /\ job'.at \in {"deploy", "notify"} => NotOlder(job.target)'
                    /\ upgrade' /\ ~trial' => NotOlder(staged)'
  BY Zenon DEF RollbackInv
<1>0. Readable
  BY Zenon, ReadableBefore DEF Protected
<1>1. CASE Publish
  BY Zenon, <1>0, <1>1 DEF Publish, device, RollbackInv, Protected, NotOlder
<1>2. CASE StartUpdate
  BY Zenon, <1>0, <1>2 DEF StartUpdate, device, counts, RollbackInv, Protected, NotOlder
<1>3. CASE Verify
  <2>1. PICK flag, protection, version \in BOOLEAN :
          LET code == IF job.target # booted /\ UpdateSupported
                      THEN VerifyBootloaderUpdate(job.target, flag, protection, version)
                      ELSE "Ok"
          IN  /\ IF flag /\ protection /\ version THEN UNCHANGED failures
                                                  ELSE Fails("get_env")
              /\ job' = [job EXCEPT !.at = IF code = "Ok" THEN "deploy" ELSE "save",
                                    !.code = code]
    BY Zenon, <1>3 DEF Verify
  <2>2. protection /\ version
    BY Zenon, <2>1, ReadableNext DEF AllFailures, Protected
  <2>3. UNCHANGED <<fwOf, booted, staged, firmware, upgrade, trial, undeploys>>
    BY Zenon, <1>3 DEF Verify, device
  <2>4. Protected /\ job.target # booted /\ job.target \in Hash
    BY Zenon, <1>0, <1>3, <2>3 DEF Protected, Verify, JobInv
  <2>5. job'.target = job.target
    BY Zenon, <2>1 DEF TypeOK, Job
  <2>6. job'.at = "deploy" => NotOlder(job.target)
    BY <2>1, <2>2, <2>4, BootFirmwareAssumption
       DEF VerifyBootloaderUpdate, IsRollbackProtectionEnabled, CurrentVersion, NotOlder,
           Protected, TypeOK, Job, FwFile, NoFile, Malformed, Text
  <2>7. job'.at # "notify"
    BY Zenon, <2>1 DEF TypeOK, Job
  <2> QED BY Zenon, <2>3, <2>4, <2>5, <2>6, <2>7 DEF RollbackInv, NotOlder
<1>4. CASE Deploy
  <2>1. UNCHANGED <<fwOf, booted, firmware, upgrade, trial, undeploys>>
    BY Zenon, <1>4 DEF Deploy
  <2>2. Protected /\ NotOlder(job.target)
    BY Zenon, <1>0, <1>4, <2>1 DEF Protected, Deploy, RollbackInv
  <2>3. job'.target = job.target /\ staged' \in {staged, job.target}
    BY Zenon, <1>4 DEF Deploy, TypeOK, Job
  <2> QED BY Zenon, <2>1, <2>2, <2>3 DEF RollbackInv, NotOlder
<1>5. CASE InstallNotify
  <2>1. UNCHANGED <<fwOf, booted, staged, firmware, trial, undeploys>>
    BY Zenon, <1>5 DEF InstallNotify
  <2>2. NotOlder(staged)
    BY Zenon, <1>0, <1>5, <2>1 DEF Protected, InstallNotify, RollbackInv, BlockInv
  <2>3. job'.at = "save"
    BY Zenon, <1>5 DEF InstallNotify, TypeOK, Job
  <2> QED BY Zenon, <2>1, <2>2, <2>3 DEF NotOlder
<1>6. CASE Save
  BY Zenon, <1>0, <1>6 DEF Save, NoJob, device, counts, RollbackInv, Protected, NotOlder
<1>7. CASE StartUndeploy
  BY <1>7 DEF StartUndeploy, Protected, TypeOK
<1>8. CASE CompleteInstallation
  BY Zenon, <1>0, <1>8 DEF CompleteInstallation, device, RollbackInv, Protected, NotOlder
<1>9. CASE Reboot
  <2>1. job'.at = "idle"
    BY Zenon, <1>9 DEF Reboot, NoJob
  <2>2. ~upgrade' \/ trial'
    BY <1>9 DEF Reboot, Boot
  <2> QED BY Zenon, <2>1, <2>2
<1>10. CASE UNCHANGED vars
  BY Zenon, <1>0, <1>10 DEF vars, device, counts, RollbackInv, Protected, NotOlder
<1> QED BY Zenon, <1>1, <1>2, <1>3, <1>4, <1>5, <1>6, <1>7, <1>8, <1>9, <1>10 DEF Next, Daemon

-----------------------------------------------------------------------------
(* Theorems. *)

\* The invariant holds initially.
LEMMA InvInit == Init => Inv
<1> SUFFICES ASSUME Init PROVE Inv
  BY Zenon
<1>1. JobInv /\ BlockInv /\ TrialInv /\ RollbackInv /\ BlockedTargetIsUntouched
  BY Zenon DEF Init, NoJob, JobInv, BlockInv, TrialInv, RollbackInv, BlockedTargetIsUntouched
<1> QED BY Zenon, <1>1, TypeInit DEF Inv

\* The inductive invariant, over all steps of daemon, bootloader and power cuts.
THEOREM InvHolds == Spec => []Inv
<1>1. Inv /\ [Next]_vars => Inv'
  BY Zenon, TypeNext, JobNext, BlockNext, BlockedNext, TrialNext, RollbackNext DEF Inv
<1> QED BY InvInit, <1>1, PTL DEF Spec

\* The types of the boot firmware's state.
THEOREM FirmwareTypes == Spec => []TypeOK
<1>1. Inv => TypeOK
  BY Zenon DEF Inv
<1> QED BY InvHolds, <1>1, PTL

\* BootFwNeedsCompletion means what the API says of it: the Target was left
\* alone and the reboot that ends the earlier upgrade is due.
THEOREM BlockedIsUntouched == Spec => []BlockedTargetIsUntouched
<1>1. Inv => BlockedTargetIsUntouched
  BY Zenon DEF Inv
<1> QED BY InvHolds, <1>1, PTL

\* No rootfs is deployed while a firmware is on trial.
THEOREM TrialIsRespected == Spec => NoDeployOnTrial
<1>1. Inv /\ [Next]_vars =>
        [trial /\ UpdateBlock /\ failures["get_env"] = 0 /\ staged' # staged
           => staged' = booted']_vars
  <2> SUFFICES ASSUME Inv, Next, trial, UpdateBlock, Readable, staged' # staged
               PROVE  staged' = booted'
    BY Zenon DEF vars, Readable
  <2>1. CASE Deploy
    BY Zenon, <2>1 DEF Deploy, Inv, TrialInv
  <2>2. CASE Reboot
    BY Zenon, <2>2 DEF Reboot, Boot
  <2> QED BY Zenon, <2>1, <2>2
          DEF Next, Daemon, Publish, StartUpdate, Verify, InstallNotify, Save,
              StartUndeploy, CompleteInstallation, device
<1> QED BY InvHolds, <1>1, PTL DEF Spec, NoDeployOnTrial

\* Rollback protection: the running firmware is never replaced by an older one.
THEOREM NoFirmwareRollback == Spec => FirmwareNeverGoesBack
<1>1. Inv /\ [Next]_vars =>
        [RollbackProtection /\ UpdateSupported /\ firmware # Text
           /\ failures["get_env"] = 0 /\ undeploys = 0
           => firmware' # Text /\ firmware' >= firmware]_vars
  <2> SUFFICES ASSUME Inv, Next, Protected
               PROVE  firmware' # Text /\ firmware' >= firmware
    BY Zenon DEF Protected, Readable
  <2>1. firmware \in Nat /\ firmware # Text
    BY Zenon, BootFirmwareAssumption DEF Inv, TypeOK, Protected
  <2>2. CASE Reboot
    <3>1. UNCHANGED firmware \/ (upgrade /\ ~trial /\ firmware' = Flashed(staged))
      BY Zenon, <2>2 DEF Reboot, Boot
    <3>2. CASE upgrade /\ ~trial /\ firmware' = Flashed(staged)
      BY <2>1, <3>2, BootFirmwareAssumption
         DEF Inv, RollbackInv, NotOlder, Flashed, NoFile, Malformed, Text
    <3> QED BY <2>1, <3>1, <3>2
  <2>3. CASE ~Reboot
    <3>1. UNCHANGED firmware
      BY Zenon, <2>3 DEF Next, Daemon, Publish, StartUpdate, Verify, Deploy, InstallNotify, Save,
         StartUndeploy, CompleteInstallation, device
    <3> QED BY <2>1, <3>1
  <2> QED BY Zenon, <2>2, <2>3
<1> QED BY InvHolds, <1>1, PTL DEF Spec, FirmwareNeverGoesBack
=============================================================================
