-------------------------- MODULE ComposeAppEngine --------------------------
(***************************************************************************)
(* The App engine for Apps that are not restorable (ComposeAppEngine):     *)
(* one App, its directory, the version and state files in it, and its      *)
(* containers, driven by the calls ComposeAppManager makes: the daemon     *)
(* fetches and runs in one go, the commands pull and install do so apart,  *)
(* and a disabled App is removed.                                          *)
(*                                                                         *)
(* Each write to the disk is a step, and the process may be killed between *)
(* any two.  An App is told by its uri; its services are one container     *)
(* that carries the hash of the compose file it was made from.  Images and *)
(* archives are left out: docker compose pulls an image that is missing.   *)
(***************************************************************************)
EXTENDS Naturals

CONSTANTS
  Uri,           \* the versions of the App
  NoUri,
  Sessions,      \* the sessions the caller may start, see AllSessions
  Failures,      \* the kinds of failure that may happen
  MaxFailures, MaxCrashes, MaxSessions

AllSessions == {"update", "pull", "install", "remove"}

\* The registry or the disk, the docker compose utility, a query of dockerd,
\* a write of the state file, the start of another App of the same Target.
AllFailures == {"download", "compose", "inspect", "state_file", "other_app"}

ASSUME ComposeAppEngineAssumption ==
  /\ NoUri \notin Uri
  /\ Sessions \subseteq AllSessions
  /\ Failures \subseteq AllFailures
  /\ {MaxFailures, MaxCrashes, MaxSessions} \subseteq Nat

VARIABLES
  dir,           \* the App's directory: what is in it and in its .meta
  container,     \* the App's container in dockerd
  current,       \* the App of the current Target
  call,          \* the engine's method that runs
  session,       \* what the caller is doing
  failures,      \* how many of each kind have happened
  crashes,
  sessions       \* how many of each kind have been started

vars == <<dir, container, current, call, session, failures, crashes, sessions>>

-----------------------------------------------------------------------------
(* Types. *)

\* AppState::State, in its order.
Unknown == 0
Downloaded == 1
Verified == 2
Pulled == 3
Installed == 4
Started == 5

Dir == [exists : BOOLEAN, meta : BOOLEAN, version : Uri \union {NoUri},
        state : Unknown .. Started, compose : Uri \union {NoUri}]
NoDir == [exists |-> FALSE, meta |-> FALSE, version |-> NoUri,
          state |-> Unknown, compose |-> NoUri]

Container == [of : Uri \union {NoUri}, started : BOOLEAN]
NoContainer == [of |-> NoUri, started |-> FALSE]

Call == [op : {"none", "fetch", "install", "run", "stop", "remove"},
         at : {"begin", "open", "assume", "work", "up", "check", "set", "erase",
               "ok", "failed"},
         stage : Downloaded .. Pulled]
NoCall == [op |-> "none", at |-> "ok", stage |-> Downloaded]

Session == [kind : AllSessions \union {"idle", "sync"},
            uri : Uri \union {NoUri}]
Idle == [kind |-> "idle", uri |-> NoUri]

TypeOK ==
  /\ dir \in Dir
  /\ container \in Container
  /\ current \in Uri \union {NoUri}
  /\ call \in Call
  /\ session \in Session
  /\ failures \in [AllFailures -> 0 .. MaxFailures]
  /\ crashes \in 0 .. MaxCrashes
  /\ sessions \in [AllSessions -> 0 .. MaxSessions]

-----------------------------------------------------------------------------
(* The App's state as the engine reads it. *)

\* A slip: the state file counts whichever version it was written for.
StateOfAny(u) == dir.state

\* The constructor of AppState.  It throws where there is no .meta directory.
StateOf(u) == IF dir.version = u THEN dir.state ELSE Unknown

IsFetched(u) == dir.exists /\ dir.meta /\ StateOf(u) >= Pulled

AreContainersCreated == dir.compose # NoUri /\ container.of = dir.compose

\* A state that cannot be read, or that is another App's, counts as started.
IsRunning(u) ==
  /\ dir.exists
  /\ (dir.meta /\ dir.version = u) => dir.state = Started
  /\ AreContainersCreated
  /\ container.started

-----------------------------------------------------------------------------
TotalFailures ==
  failures["download"] + failures["compose"] + failures["inspect"]
    + failures["state_file"] + failures["other_app"]

Fails(kind) ==
  /\ kind \in Failures
  /\ TotalFailures < MaxFailures
  /\ failures' = [failures EXCEPT ![kind] = @ + 1]

Goto(at) == call' = [call EXCEPT !.at = at]

\* setState: a write that fails is logged and forgotten.
SetState(state) ==
  \/ dir' = [dir EXCEPT !.state = state] /\ UNCHANGED failures
  \/ Fails("state_file") /\ UNCHANGED dir

\* AppState(app, root, set_version = true): another version's state file is
\* left as it is.
Opened(u) ==
  IF dir.version = u THEN dir ELSE [dir EXCEPT !.version = u]

-----------------------------------------------------------------------------
(* fetch. *)

FetchBegin ==
  /\ call.op = "fetch" /\ call.at = "begin"
  /\ dir' = [dir EXCEPT !.exists = TRUE, !.meta = TRUE]
  /\ Goto("open")
  /\ UNCHANGED <<container, current, session, failures, crashes, sessions>>

\* Also how run adopts a directory whose state it does not know.  A version
\* file that cannot be written throws.
OpenState ==
  /\ call.at = "open"
  /\ \/ /\ dir' = Opened(session.uri)
        /\ Goto(IF call.op = "fetch" THEN "work" ELSE "assume")
        /\ UNCHANGED failures
     \/ Fails("state_file") /\ Goto("failed") /\ UNCHANGED dir
  /\ UNCHANGED <<container, current, session, crashes, sessions>>

\* download, then docker compose config, then pullImages.
FetchWork ==
  /\ call.op = "fetch" /\ call.at = "work"
  /\ dir' = IF call.stage = Downloaded
            THEN [dir EXCEPT !.compose = session.uri] ELSE dir
  /\ Goto("set")
  /\ UNCHANGED <<container, current, session, failures, crashes, sessions>>

\* No space, no answer from the registry, a bad archive, a bad compose file.
\* A download may fail with the archive extracted.
FetchFails ==
  /\ call.op = "fetch" /\ call.at = "work"
  /\ Fails("download")
  /\ dir' \in {dir, IF call.stage = Downloaded
                    THEN [dir EXCEPT !.compose = session.uri] ELSE dir}
  /\ Goto("failed")
  /\ UNCHANGED <<container, current, session, crashes, sessions>>

\* A slip: one stage too many.
FetchSetStatePastPulled ==
  /\ call.op = "fetch" /\ call.at = "set"
  /\ SetState(call.stage)
  /\ call' = IF call.stage > Pulled THEN [call EXCEPT !.at = "ok"]
             ELSE [call EXCEPT !.at = "work", !.stage = @ + 1]
  /\ UNCHANGED <<container, current, session, crashes, sessions>>

FetchSetState ==
  /\ call.op = "fetch" /\ call.at = "set"
  /\ SetState(call.stage)
  /\ call' = IF call.stage = Pulled THEN [call EXCEPT !.at = "ok"]
             ELSE [call EXCEPT !.at = "work", !.stage = @ + 1]
  /\ UNCHANGED <<container, current, session, crashes, sessions>>

-----------------------------------------------------------------------------
(* install and run. *)

\* The directory must be there, and the state that of a fetched App.  install
\* throws without .meta; run adopts a directory it knows nothing of.
InstallBegin ==
  /\ call.op = "install" /\ call.at = "begin"
  /\ Goto(IF ~(dir.exists /\ dir.meta) THEN "failed"
          ELSE CASE StateOf(session.uri) \in {Installed, Started} -> "check"
                 [] StateOf(session.uri) = Pulled -> "up"
                 [] OTHER -> "failed")
  /\ UNCHANGED <<dir, container, current, session, failures, crashes, sessions>>

RunBegin ==
  /\ call.op = "run" /\ call.at = "begin"
  /\ IF dir.exists /\ ~IsFetched(session.uri)
     THEN dir' = [dir EXCEPT !.meta = TRUE] /\ Goto("open")
     ELSE /\ Goto(IF ~dir.exists THEN "failed"
                  ELSE IF StateOf(session.uri) = Started THEN "check" ELSE "up")
          /\ UNCHANGED dir
  /\ UNCHANGED <<container, current, session, failures, crashes, sessions>>

\* "assuming it's pulled": if the write fails, the state read next may be any.
RunAssumePulled ==
  /\ call.op = "run" /\ call.at = "assume"
  /\ SetState(Pulled)
  /\ Goto(CASE dir'.state = Started -> "check"
            [] dir'.state \in {Pulled, Installed} -> "up"
            [] OTHER -> "failed")
  /\ UNCHANGED <<container, current, session, crashes, sessions>>

\* docker compose up of the compose file that is in the directory.
UpContainer ==
  [of |-> dir.compose,
   started |-> \/ call.op = "run"
               \/ container.of = dir.compose /\ container.started]

ComposeUp ==
  /\ call.at = "up"
  /\ dir.compose # NoUri
  /\ container' = UpContainer
  /\ Goto("check")
  /\ UNCHANGED <<dir, current, session, failures, crashes, sessions>>

\* It may fail before, between and after making and starting the containers.
ComposeUpFails ==
  /\ call.at = "up"
  /\ \/ /\ Fails("compose")
        /\ container' \in {container, UpContainer, [UpContainer EXCEPT !.started = FALSE]}
     \/ dir.compose = NoUri /\ UNCHANGED <<failures, container>>
  /\ Goto("failed")
  /\ UNCHANGED <<dir, current, session, crashes, sessions>>

\* A slip: the answer of dockerd is not looked at.
CheckContainersNever ==
  /\ call.at = "check"
  /\ Goto("set")
  /\ UNCHANGED <<dir, container, current, session, failures, crashes, sessions>>

\* If dockerd cannot be asked, the containers are taken to be there.
CheckContainers ==
  /\ call.at = "check"
  /\ \/ Goto(IF AreContainersCreated THEN "set" ELSE "failed") /\ UNCHANGED failures
     \/ Fails("inspect") /\ Goto("set")
  /\ UNCHANGED <<dir, container, current, session, crashes, sessions>>

InstallSetState ==
  /\ call.op \in {"install", "run"} /\ call.at = "set"
  /\ SetState(IF call.op = "run" THEN Started ELSE Installed)
  /\ Goto("ok")
  /\ UNCHANGED <<container, current, session, crashes, sessions>>

-----------------------------------------------------------------------------
(* stop and remove: docker compose down; the state file stays as it is. *)

ComposeDown ==
  /\ call.op \in {"stop", "remove"} /\ call.at = "begin"
  /\ \/ dir.compose # NoUri /\ container' = NoContainer /\ UNCHANGED failures
     \/ Fails("compose") /\ UNCHANGED container
     \/ dir.compose = NoUri /\ UNCHANGED <<container, failures>>
  /\ Goto(IF call.op = "remove" /\ dir.compose # NoUri /\ failures' = failures
          THEN "erase" ELSE "ok")
  /\ UNCHANGED <<dir, current, session, crashes, sessions>>

RemoveDir ==
  /\ call.at = "erase"
  /\ dir' = NoDir
  /\ Goto("ok")
  /\ UNCHANGED <<container, current, session, failures, crashes, sessions>>

-----------------------------------------------------------------------------
(* The caller: ComposeAppManager. *)

Invoke(op) == call' = [op |-> op, at |-> "begin", stage |-> Downloaded]

\* A session of a kind, within the bounds of the instance.
MayStart(kind) ==
  /\ kind \in Sessions
  /\ sessions["update"] + sessions["pull"] + sessions["install"] + sessions["remove"]
       < MaxSessions
  /\ sessions' = [sessions EXCEPT ![kind] = @ + 1]

\* The check of getAppsToUpdate for an App of the current Target.
NeedsSync(u) == ~(IsRunning(u) /\ IsFetched(u))

\* An update to a Target with another version of the App, or a pull of it.
StartFetch ==
  /\ session = Idle
  /\ \E kind \in {"update", "pull"}, u \in Uri \ {current} :
       MayStart(kind) /\ session' = [kind |-> kind, uri |-> u]
  /\ Invoke("fetch")
  /\ UNCHANGED <<dir, container, current, failures, crashes>>

\* The daemon looks at the current Target's App in every cycle.
StartSync ==
  /\ session = Idle /\ current # NoUri
  /\ \/ NeedsSync(current) /\ UNCHANGED failures
     \/ Fails("inspect")
  /\ session' = [kind |-> "sync", uri |-> current]
  /\ Invoke("fetch")
  /\ UNCHANGED <<dir, container, current, crashes, sessions>>

\* The command install: verifyTarget asks isFetched and docker compose config.
StartInstall ==
  /\ session = Idle /\ MayStart("install")
  /\ \E u \in Uri \ {current} :
       IsFetched(u) /\ session' = [kind |-> "install", uri |-> u]
  /\ Invoke("stop")
  /\ UNCHANGED <<dir, container, current, failures, crashes>>

\* The App is disabled: stopDisabledComposeApps, removeDisabledComposeApps.
StartRemove ==
  /\ session = Idle /\ MayStart("remove")
  /\ dir.exists
  /\ session' = [kind |-> "remove", uri |-> NoUri]
  /\ current' = NoUri
  /\ Invoke("stop")
  /\ UNCHANGED <<dir, container, failures, crashes>>

\* After a fetch the App may be stopped first (an ostree update, or
\* stop_apps_before_update); with an ostree update its containers are created
\* before the reboot, and it runs at the finalization.
NextCalls ==
  CASE call.op = "fetch"   -> IF session.kind = "pull" THEN {} ELSE {"stop", "run"}
    [] call.op = "stop"    -> IF session.kind = "remove" THEN {"remove"}
                              ELSE {"install", "run"}
    [] call.op = "install" -> {"run"}
    [] call.op = "run"     -> {}
    [] call.op = "remove"  -> {}

Continue ==
  /\ call.op # "none" /\ call.at = "ok"
  /\ \E op \in NextCalls : Invoke(op)
  /\ UNCHANGED <<dir, container, current, session, failures, crashes, sessions>>

\* The App runs: its Target becomes the current one, unless another of the
\* Target's Apps fails to start.
Return ==
  /\ call.op # "none"
  /\ call.at = "failed" \/ (call.at = "ok" /\ NextCalls = {})
  /\ IF call.op = "run" /\ call.at = "ok"
     THEN \/ current' = session.uri /\ UNCHANGED failures
          \/ Fails("other_app") /\ UNCHANGED current
     ELSE UNCHANGED <<current, failures>>
  /\ session' = Idle
  /\ call' = NoCall
  /\ UNCHANGED <<dir, container, crashes, sessions>>

\* A kill or a power cut; dockerd restarts the containers that were started.
Crash ==
  /\ crashes < MaxCrashes
  /\ crashes' = crashes + 1
  /\ session' = Idle
  /\ call' = NoCall
  /\ UNCHANGED <<dir, container, current, failures, sessions>>

-----------------------------------------------------------------------------
\* A new device; and one that was switched from the restorable engine, whose
\* App directories have no .meta, while its App runs.
Init ==
  /\ \/ dir = NoDir /\ container = NoContainer /\ current = NoUri
     \/ \E u \in Uri :
          /\ dir = [NoDir EXCEPT !.exists = TRUE, !.compose = u]
          /\ container = [of |-> u, started |-> TRUE]
          /\ current = u
  /\ call = NoCall
  /\ session = Idle
  /\ failures = [k \in AllFailures |-> 0] 
  /\ crashes = 0 /\ sessions = [k \in AllSessions |-> 0]

Engine ==
  \/ FetchBegin \/ OpenState \/ FetchWork \/ FetchFails \/ FetchSetState
  \/ InstallBegin \/ RunBegin \/ RunAssumePulled \/ ComposeUp \/ ComposeUpFails
  \/ CheckContainers \/ InstallSetState \/ ComposeDown \/ RemoveDir

Manager ==
  StartFetch \/ StartSync \/ StartInstall \/ StartRemove \/ Continue \/ Return

Next == Engine \/ Manager \/ Crash

Spec == Init /\ [][Next]_vars

FairSpec == Spec /\ WF_vars(Engine) /\ WF_vars(StartSync \/ Continue \/ Return)

-----------------------------------------------------------------------------
(* Properties. *)

Quiet == session = Idle

\* When run reports success, the containers made from the compose file in the
\* App's directory are there and started, though run skips docker compose up
\* on the word of a state file that fetch, stop, a failed write or a kill may
\* have left behind.  (Without failing queries of dockerd.)
RunOkMeansStarted ==
  failures["inspect"] = 0 /\ call.op = "run" /\ call.at = "ok"
    => AreContainersCreated /\ container.started

\* Nothing has let an App take over the state file of another version of it:
\* no kill, no start of a Target that failed for another of its Apps, no
\* install of what may not have been fetched, and no failing query of dockerd
\* together with failing writes of the state file.
StateFileIsOwn ==
  /\ crashes = 0 /\ failures["other_app"] = 0 /\ sessions["install"] = 0
  /\ failures["inspect"] = 0 \/ failures["state_file"] = 0

\* An App that getAppsToUpdate finds in order (isRunning and isFetched) is the
\* current Target's App, and it runs: no other version of the App passes for
\* it, whatever failed fetches and writes of the state file left behind.
HealthyIsCurrent ==
  StateFileIsOwn /\ Quiet /\ current # NoUri /\ ~NeedsSync(current)
    => container = [of |-> current, started |-> TRUE]

\* ComposeAppManager::install: if an installation fails, the "sync target"
\* process restarts the Apps.  Once failures and updates cease, the current
\* Target's App runs for good, however they left the version file, the state
\* file, the directory and the containers.
CurrentAppComesBack ==
  <>[](StateFileIsOwn /\ current # NoUri /\ Quiet
         => container = [of |-> current, started |-> TRUE])
=============================================================================
