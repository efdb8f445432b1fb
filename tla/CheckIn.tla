------------------------------- MODULE CheckIn -------------------------------
(***************************************************************************)
(* The instances of the client on one device, the lock that keeps updaters *)
(* apart, and the check-in: how an instance brings the device's TUF        *)
(* metadata up to date from the Device Gateway or an offline bundle, falls *)
(* back to what is stored, and offers Targets.                             *)
(*                                                                         *)
(* The metadata roles are stored one by one in a database all instances    *)
(* share, and the gateway may publish between two fetches.  A role is told *)
(* by its version; a snapshot or a targets role is valid only next to the  *)
(* timestamp of its own version.  What becomes of the Targets offered is   *)
(* the subject of UpdateAgent.                                             *)
(***************************************************************************)
EXTENDS Integers, Sequences, FiniteSets

CONSTANTS
  Proc, Daemon,  \* the processes; the one the service manager keeps alive
  Commands,      \* what the other processes may run, see AllCommands
  MatchingOf,    \* the device's Targets in each version of the metadata
  Bundle,        \* the offline bundles at hand
  NoBundle,
  Failures,      \* the kinds of failure that may happen
  MaxFailures, MaxKills, MaxRuns

Version == DOMAIN MatchingOf
Target == UNION {MatchingOf[v] : v \in Version}

\* check, list and install stand for every command that checks in as they
\* do: update; status --json; pull.  offline is check --src-dir.
AllCommands == {"check", "list", "install", "offline"}

\* A fetch of one role.
AllFailures == {"fetch"}

ASSUME CheckInAssumption ==
  /\ IsFiniteSet(Proc) /\ Daemon \in Proc
  /\ Commands \subseteq AllCommands
  /\ Version = 1 .. Len(MatchingOf) /\ Len(MatchingOf) \in Nat \ {0}
  /\ Bundle \subseteq [version : Version, meta : {"none", "good", "bad"},
                       names : SUBSET Target, content : SUBSET Target]
  /\ NoBundle \notin Bundle
  /\ Failures \subseteq AllFailures
  /\ {MaxFailures, MaxKills, MaxRuns} \subseteq Nat

VARIABLES
  file,          \* the inode at the path of the lock, 0 if there is none
  inst,          \* the instance in each process
  stored,        \* the version of each role in the device's database
  published,     \* the version the gateway serves
  lockLost,      \* the path was unlinked while another instance relied on it
  failures, kills, runs

vars == <<file, inst, stored, published, lockLost, failures, kills, runs>>

-----------------------------------------------------------------------------
(* Types. *)

\* The order in which updateMeta and checkMetaOffline go through the roles.
Roles == <<"timestamp", "snapshot", "targets">>

Inode == 1 .. Cardinality(Proc) + 1

Errors == {"SecurityError", "MetadataFetchFailure", "MetadataNotFound",
           "BundleMetadataError", "NoMatchingTargets", "NoTargetContent"}

Instance ==
  [cmd : AllCommands \union {"daemon", "none"},
   pc : {"off", "open", "lock", "ready", "bundle", "fetch", "store", "load",
         "search", "fail", "select", "exit", "closing"},
   fd : Inode \union {0},                \* the lock file it has open
   locked : BOOLEAN,
   role : DOMAIN Roles,                  \* the role at hand
   remote : Version \union {0},          \* what was fetched of it
   meta : Version \union {0},            \* the timestamp in memory
   status : Errors \union {"none", "Ok", "OkCached"},
   offer : SUBSET Target,
   cb : Int,                             \* callbacks: pre less post
   bundle : Bundle \union {NoBundle}]

Off == [cmd |-> "none", pc |-> "off", fd |-> 0, locked |-> FALSE, role |-> 1,
        remote |-> 0, meta |-> 0, status |-> "none", offer |-> {}, cb |-> 0,
        bundle |-> NoBundle]

TypeOK ==
  /\ file \in Inode \union {0}
  /\ inst \in [Proc -> Instance]
  /\ stored \in [{"timestamp", "snapshot", "targets"} -> Version \union {0}]
  /\ published \in Version
  /\ lockLost \in BOOLEAN
  /\ failures \in 0 .. MaxFailures
  /\ kills \in 0 .. MaxKills
  /\ runs \in 0 .. MaxRuns

Init ==
  /\ file = 0
  /\ inst = [p \in Proc |-> Off]
  /\ stored = [r \in {"timestamp", "snapshot", "targets"} |-> 0]
  /\ published = 1
  /\ lockLost = FALSE
  /\ failures = 0 /\ kills = 0 /\ runs = 0

-----------------------------------------------------------------------------
(* The parameters the commands give the constructor and the check-in. *)

TakesLock(cmd) == cmd # "list"

\* invoke_post_cb_at_checkin_.
PostAtCheckIn(cmd) == cmd # "daemon"

Mode(cmd) ==
  CASE cmd \in {"daemon", "check"} -> "online"
    [] cmd = "offline" -> "local"
    [] OTHER -> "current"

-----------------------------------------------------------------------------
(* An instance starts. *)

Becomes(p, i) == inst' = [inst EXCEPT ![p] = i]

Start(p, cmd, b) ==
  /\ inst[p].pc = "off"
  /\ Becomes(p, [Off EXCEPT !.cmd = cmd, !.bundle = b,
                            !.pc = IF TakesLock(cmd) THEN "open" ELSE "ready"])
  /\ UNCHANGED <<file, stored, published, lockLost, failures, kills>>

StartDaemon == Start(Daemon, "daemon", NoBundle) /\ UNCHANGED runs

StartCommand(p) ==
  /\ p # Daemon
  /\ runs < MaxRuns
  /\ runs' = runs + 1
  /\ \E cmd \in Commands, b \in Bundle \union {NoBundle} :
       /\ cmd = "offline" => b # NoBundle
       /\ cmd \in {"check", "list"} => b = NoBundle
       /\ b # NoBundle => b.version <= published
       /\ Start(p, cmd, b)

\* The inode open(O_CREAT) yields: the one at the path, else a new one.
LockInode ==
  IF file # 0 THEN file ELSE CHOOSE i \in Inode : \A q \in Proc : inst[q].fd # i

\* assert_lock, its open.
OpenLock(p) ==
  /\ inst[p].pc = "open"
  /\ file' = LockInode
  /\ Becomes(p, [inst[p] EXCEPT !.fd = LockInode, !.pc = "lock"])
  /\ UNCHANGED <<stored, published, lockLost, failures, kills, runs>>

LockIsHeld(p) ==
  \E q \in Proc \ {p} : inst[q].locked /\ inst[q].fd = inst[p].fd

\* A slip: the lock is taken for granted.
TakeLockAnyway(p) ==
  /\ inst[p].pc = "lock"
  /\ Becomes(p, [inst[p] EXCEPT !.locked = TRUE, !.pc = "ready"])
  /\ UNCHANGED <<file, stored, published, lockLost, failures, kills, runs>>

\* A slip: an instance that is refused the lock removes its file.
TakeLockOrUnlink(p) ==
  /\ inst[p].pc = "lock"
  /\ IF LockIsHeld(p)
       THEN Becomes(p, Off) /\ file' = 0
       ELSE /\ Becomes(p, [inst[p] EXCEPT !.locked = TRUE, !.pc = "ready"])
            /\ UNCHANGED file
  /\ UNCHANGED <<stored, published, lockLost, failures, kills, runs>>

\* Its flock: on a refusal the constructor throws, the destructor does not
\* run, and the process ends.
TakeLock(p) ==
  /\ inst[p].pc = "lock"
  /\ Becomes(p, IF LockIsHeld(p)
                  THEN Off
                  ELSE [inst[p] EXCEPT !.locked = TRUE, !.pc = "ready"])
  /\ UNCHANGED <<file, stored, published, lockLost, failures, kills, runs>>

-----------------------------------------------------------------------------
(* The metadata is updated: CheckIn and CheckInLocal, AkRepo::UpdateMeta.    *)

\* What has not changed in a step of a check-in that stores no metadata.
OnlyInstance == UNCHANGED <<file, stored, published, lockLost, kills, runs>>

\* A slip: metadata that is there whole is not updated.
BeginCheckInOnce(p) ==
  LET i == inst[p]
      have == \A r \in DOMAIN stored : stored[r] # 0
  IN /\ i.pc = "ready"
     /\ Becomes(p, CASE Mode(i.cmd) = "current" -> [i EXCEPT !.pc = "load"]
                      [] Mode(i.cmd) = "local" -> [i EXCEPT !.cb = @ + 1, !.pc = "bundle"]
                      [] OTHER -> [i EXCEPT !.cb = @ + 1,
                                            !.pc = IF have THEN "load" ELSE "fetch"])
     /\ OnlyInstance /\ UNCHANGED failures

\* notifyTufUpdateStarted is called but by CheckInCurrent.
BeginCheckIn(p) ==
  LET mode == Mode(inst[p].cmd)
      i == inst[p]
  IN /\ i.pc = "ready"
     /\ Becomes(p, CASE mode = "online" -> [i EXCEPT !.cb = @ + 1, !.pc = "fetch"]
                      [] mode = "local" -> [i EXCEPT !.cb = @ + 1, !.pc = "bundle"]
                      [] mode = "current" -> [i EXCEPT !.pc = "load"])
     /\ OnlyInstance /\ UNCHANGED failures

\* getBundleMeta: a bundle without metadata of its own passes.
CheckBundle(p) ==
  /\ inst[p].pc = "bundle"
  /\ Becomes(p, IF inst[p].bundle.meta = "bad"
                  THEN [inst[p] EXCEPT !.status = "BundleMetadataError",
                                       !.pc = "fail"]
                  ELSE [inst[p] EXCEPT !.pc = "fetch"])
  /\ OnlyInstance /\ UNCHANGED failures

\* A slip: what is stored is not looked at once an update has failed.
NeverFallBack(i, err, rollback) == [i EXCEPT !.status = err, !.pc = "fail"]

\* A slip: an offline check-in falls back whatever the reason.
AlwaysFallBack(i, err, rollback) ==
  [i EXCEPT !.status = err, !.pc = "load", !.role = 1]

\* updateMeta, its exceptions: offline the stored metadata is fallen back to
\* only when the bundle's is older.
UpdateFailed(i, err, rollback) ==
  IF Mode(i.cmd) = "online" \/ rollback
    THEN [i EXCEPT !.status = err, !.pc = "load", !.role = 1]
    ELSE [i EXCEPT !.status = err, !.pc = "fail"]

\* A slip: one role too far.
NextRoleTooFar(i, status) ==
  IF i.role <= Len(Roles) THEN [i EXCEPT !.role = @ + 1]
                          ELSE [i EXCEPT !.pc = "search", !.status = status]

\* The role is in memory: go on to the next, or look for Targets.
NextRole(i, status) ==
  IF i.role < Len(Roles) THEN [i EXCEPT !.role = @ + 1]
                         ELSE [i EXCEPT !.pc = "search", !.status = status]

\* RepoSource: the gateway serves what is published at the time.
Source(i) == IF i.bundle = NoBundle THEN published ELSE i.bundle.version

\* A stored role that goes with the timestamp is not fetched again.
IsStored(i) == i.role > 1 /\ stored[Roles[i.role]] = i.meta

FetchRole(p) ==
  /\ inst[p].pc = "fetch"
  /\ \/ /\ IsStored(inst[p])
        /\ Becomes(p, NextRole(inst[p], "Ok"))
        /\ UNCHANGED failures
     \/ /\ ~IsStored(inst[p])
        /\ Becomes(p, [inst[p] EXCEPT !.remote = Source(inst[p]), !.pc = "store"])
        /\ UNCHANGED failures
     \/ /\ ~IsStored(inst[p])
        /\ "fetch" \in Failures /\ failures < MaxFailures
        /\ failures' = failures + 1
        /\ Becomes(p, UpdateFailed(inst[p],
                        IF inst[p].bundle = NoBundle THEN "MetadataFetchFailure"
                                                     ELSE "MetadataNotFound",
                        FALSE))
  /\ OnlyInstance

\* Verify what was fetched, and store it.
StoreRole(p) ==
  LET i == inst[p]
      role == Roles[i.role]
      matches == i.role = 1 \/ i.remote = i.meta
      older == i.remote < stored[role]
  IN /\ i.pc = "store"
     /\ IF ~matches \/ older
          THEN /\ Becomes(p, UpdateFailed([i EXCEPT !.remote = 0],
                                          "SecurityError", matches))
               /\ UNCHANGED stored
          ELSE /\ stored' = [stored EXCEPT ![role] = i.remote]
               /\ Becomes(p, NextRole([i EXCEPT !.meta = i.remote, !.remote = 0,
                                                !.pc = "fetch"], "Ok"))
     /\ UNCHANGED <<file, published, lockLost, failures, kills, runs>>

-----------------------------------------------------------------------------
(* The stored metadata is used: AkRepo::CheckMeta, role by role.             *)

LoadRole(p) ==
  LET i == inst[p]
      version == stored[Roles[i.role]]
      valid == IF i.role = 1 THEN version # 0 ELSE version = i.meta
  IN /\ i.pc = "load"
     /\ Becomes(p, CASE valid -> NextRole([i EXCEPT !.meta = version], "OkCached")
                      [] ~valid /\ Mode(i.cmd) = "current" ->
                           [i EXCEPT !.status = "SecurityError", !.pc = "fail"]
                      [] OTHER -> [i EXCEPT !.pc = "fail"])
     /\ OnlyInstance /\ UNCHANGED failures

-----------------------------------------------------------------------------
(* The Targets offered.                                                     *)

\* getTrustedTargets and filterTargets: a checked bundle narrows the list.
Matching(i) ==
  IF Mode(i.cmd) = "local" /\ i.bundle.meta = "good"
    THEN MatchingOf[i.meta] \intersect i.bundle.names
    ELSE MatchingOf[i.meta]

\* A slip: a Target is offered although its content is not in the bundle.
AvailableAnyway(i) == Matching(i)

\* getAvailableTargets: those the bundle has the content of.
Available(i) ==
  IF i.bundle = NoBundle THEN Matching(i)
                         ELSE Matching(i) \intersect i.bundle.content

\* An online check-in is Ok even when it fell back to what is stored.
Search(p) ==
  LET i == inst[p]
      post == Mode(i.cmd) # "current" /\ PostAtCheckIn(i.cmd)
  IN /\ i.pc = "search"
     /\ Becomes(p,
          CASE Matching(i) = {} ->
                 [i EXCEPT !.status = "NoMatchingTargets", !.pc = "fail"]
            [] Matching(i) # {} /\ Available(i) = {} ->
                 [i EXCEPT !.status = "NoTargetContent", !.pc = "fail"]
            [] OTHER ->
                 [i EXCEPT !.offer = Available(i), !.pc = "select",
                           !.status = IF Mode(i.cmd) = "online" THEN "Ok" ELSE @,
                           !.cb = IF post THEN @ - 1 ELSE @])
     /\ OnlyInstance /\ UNCHANGED failures

\* The check-in is over and its result dropped.
Over(i, pc) ==
  [i EXCEPT !.pc = pc, !.role = 1, !.meta = 0, !.status = "none", !.offer = {}]

\* A slip: the callback after a check is not called when it fails.
FailSilently(p) ==
  /\ inst[p].pc = "fail"
  /\ Becomes(p, Over(inst[p], IF p = Daemon THEN "ready" ELSE "exit"))
  /\ OnlyInstance /\ UNCHANGED failures

\* checkInFailure: the daemon tries again, a command ends.
Fail(p) ==
  /\ inst[p].pc = "fail"
  /\ Becomes(p, Over([inst[p] EXCEPT
                       !.cb = IF Mode(inst[p].cmd) = "current" THEN @ ELSE @ - 1],
                     IF p = Daemon THEN "ready" ELSE "exit"))
  /\ OnlyInstance /\ UNCHANGED failures

\* GetTargetToInstall and what comes of it, which may end the daemon: it
\* stops when a Target waits for a reboot.
Select(p) ==
  /\ inst[p].pc = "select"
  /\ \E pc \in IF p = Daemon THEN {"ready", "exit"} ELSE {"exit"} :
       Becomes(p, Over([inst[p] EXCEPT
                        !.cb = IF PostAtCheckIn(inst[p].cmd) THEN @ ELSE @ - 1],
                       pc))
  /\ OnlyInstance /\ UNCHANGED failures

-----------------------------------------------------------------------------
(* An instance ends.                                                        *)

\* The destructor: whoever holds the lock, its file goes.
Unlink(p) ==
  /\ inst[p].pc = "exit"
  /\ file' = 0
  /\ lockLost' = (lockLost \/ \E q \in Proc \ {p} :
                               file # 0 /\ inst[q].fd = file)
  /\ Becomes(p, [inst[p] EXCEPT !.pc = "closing"])
  /\ UNCHANGED <<stored, published, failures, kills, runs>>

\* The process ends and its descriptor is closed.
Close(p) ==
  /\ inst[p].pc = "closing"
  /\ Becomes(p, Off)
  /\ OnlyInstance /\ UNCHANGED failures

Kill(p) ==
  /\ inst[p].pc # "off"
  /\ kills < MaxKills
  /\ kills' = kills + 1
  /\ Becomes(p, Off)
  /\ UNCHANGED <<file, stored, published, lockLost, failures, runs>>

\* The lock's directory does not outlive a boot.
Reboot ==
  /\ kills < MaxKills
  /\ kills' = kills + 1
  /\ file' = 0 /\ lockLost' = FALSE
  /\ inst' = [p \in Proc |-> Off]
  /\ UNCHANGED <<stored, published, failures, runs>>

Publish ==
  /\ published + 1 \in Version
  /\ published' = published + 1
  /\ UNCHANGED <<file, inst, stored, lockLost, failures, kills, runs>>

-----------------------------------------------------------------------------
Step(p) ==
  \/ OpenLock(p) \/ TakeLock(p)
  \/ BeginCheckIn(p) \/ CheckBundle(p) \/ FetchRole(p) \/ StoreRole(p)
  \/ LoadRole(p) \/ Search(p) \/ Fail(p) \/ Select(p)
  \/ Unlink(p) \/ Close(p)

Next ==
  \/ StartDaemon
  \/ \E p \in Proc : StartCommand(p) \/ Step(p) \/ Kill(p)
  \/ Reboot
  \/ Publish

Spec == Init /\ [][Next]_vars

\* The service manager restarts the daemon, and no process is stopped for
\* ever.  No command has to be run and nothing has to be published.
FairSpec ==
  /\ Spec
  /\ WF_vars(StartDaemon)
  /\ \A p \in Proc : WF_vars(Step(p))

-----------------------------------------------------------------------------
(* Properties. *)

IsWhole == \A r, s \in DOMAIN stored : stored[r] = stored[s] /\ stored[r] # 0

\* Instances that may change the device.
Updaters == {p \in Proc : inst[p].locked /\ inst[p].pc # "closing"}

\* The comment of cli_complete_install: "Make sure no other update instances
\* are running, i.e. neither the daemon or other CLI update/finalize".
NoOtherUpdater == \A p, q \in Updaters : p = q

\* assert_lock keeps updaters apart through kills, restarts, reboots and
\* refusals: two of them run at once only after the destructor of an
\* instance unlinked the lock's path while another had the file open.
OneUpdater == ~lockLost => NoOtherUpdater

\* The callbacks check-for-update-pre and -post alternate in every instance,
\* whichever of CheckIn, checkInFailure and GetTargetToInstall has to call
\* the latter, and a check-in that is over has called both.
CallbacksPaired ==
  \A p \in Proc :
    /\ inst[p].cb \in {0, 1}
    /\ inst[p].pc \in {"ready", "exit", "closing"} => inst[p].cb = 0

\* An offline check-in offers Targets out of the bundle's own metadata, or
\* out of the device's when that is newer and says so with OkCached, and
\* only Targets whose content the bundle has.
OfflineOfferIsTrue ==
  \A p \in Proc :
    LET i == inst[p]
    IN (i.pc = "select" /\ i.bundle # NoBundle) =>
         /\ i.offer # {} /\ i.offer \subseteq MatchingOf[i.meta]
         /\ i.offer \subseteq i.bundle.content
         /\ Mode(i.cmd) = "local" =>
              IF i.status = "Ok" THEN i.meta = i.bundle.version
                                 ELSE i.meta > i.bundle.version

\* A check-in with the gateway goes without Targets for want of metadata only
\* if the device has no whole set of it stored: an update that failed before
\* it stored anything never takes away what was there.
StoredMetaIsUsed ==
  \A p \in Proc :
    (/\ inst[p].pc = "fail" /\ Mode(inst[p].cmd) = "online"
     /\ inst[p].status # "NoMatchingTargets" /\ ~lockLost) => ~IsWhole

\* Once nothing more is published, the device comes to hold the latest
\* metadata, whole, whatever updates were cut short, raced by a publication
\* or run side by side.
MetaCatchesUp == <>[](IsWhole /\ stored["targets"] = published)
=============================================================================
