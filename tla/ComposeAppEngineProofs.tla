----------------------- MODULE ComposeAppEngineProofs -----------------------
(***************************************************************************)
(* That the state file, the compose file and the containers of an App      *)
(* agree: for all versions of the App, all sessions, kills and failures.   *)
(***************************************************************************)
EXTENDS ComposeAppEngine, TLAPS

\* The sessions that make the App run.
Running == {"update", "sync", "install"}

\* Which method is called in which session, and for which App.
SessionInv ==
  /\ call.op = "none" <=> session = Idle
  /\ call.op = "fetch" => session.kind \in {"update", "pull", "sync"}
  /\ call.op = "stop" => session.kind \in Running \union {"remove"}
  /\ call.op \in {"install", "run"} => session.kind \in Running
  /\ call.op = "remove" => session.kind = "remove"
  /\ session.kind \in Running \union {"pull"} => session.uri \in Uri
  /\ session.kind = "install" => sessions["install"] # 0

\* Where the methods are, for the steps that they share.
CallInv ==
  /\ call.at \in {"up", "check"} => call.op \in {"install", "run"}
  /\ call.at = "assume" => call.op = "run"
  /\ call.at = "open" => call.op \in {"fetch", "run"}
  /\ call.at = "erase" => call.op = "remove"
  /\ call.op = "fetch" /\ call.at \in {"begin", "open"} => call.stage = Downloaded
  /\ call.at = "up" => dir.state \in {Pulled, Installed}

\* A state file that says started is believed: containers that are created and
\* not started are none that it was written for.
StartedInv ==
  failures["inspect"] = 0 =>
    /\ dir.state = Started => container.started \/ container.of = NoUri
    /\ call.op = "run" /\ call.at = "check" => container.started \/ container.of = NoUri
    /\ call.op = "run" /\ call.at \in {"set", "ok"} =>
         AreContainersCreated /\ container.started

\* The files of the App in work are in the directory.
Fetched ==
  \/ /\ call.op = "fetch"
     /\ call.at \in {"set", "ok"} \/ (call.at = "work" /\ call.stage # Downloaded)
  \/ call.op \in {"stop", "install", "run"} /\ session.kind # "remove"

\* Its compose file; its state, if all writes succeed; its containers, from the
\* moment its state may be set.
OwnFiles == Fetched => dir.compose = session.uri
OwnState ==
  /\ failures["state_file"] = 0 /\ Fetched
  /\ call.op = "fetch" => call.at = "ok"
  /\ call.op = "run" => call.at # "ok"
  => dir.state \in {Pulled, Installed}
OwnContainers ==
  Fetched /\ call.op = "run" =>
    /\ failures["state_file"] = 0 /\ call.at = "check" => container.of = session.uri
    /\ call.at \in {"set", "ok"} => container.of = session.uri

\* A state file that says started was written for the current App, whichever
\* version the version file names.
OwnStarted ==
  dir.state = Started /\ ~(call.op = "run" /\ call.at = "ok") =>
    current = NoUri \/ container.of \in {NoUri, current}

OwnInv == StateFileIsOwn => OwnFiles /\ OwnState /\ OwnContainers /\ OwnStarted

Inv == TypeOK /\ SessionInv /\ CallInv /\ StartedInv /\ OwnInv

-----------------------------------------------------------------------------
(* Types. *)

\* A failure is counted, within the bound.
LEMMA FailsCounts ==
  ASSUME TypeOK, NEW kind \in AllFailures, Fails(kind)
  PROVE  /\ failures' \in [AllFailures -> 0 .. MaxFailures]
         /\ failures' = [failures EXCEPT ![kind] = failures[kind] + 1]
<1>1. /\ failures \in [AllFailures -> 0 .. MaxFailures] /\ MaxFailures \in Nat
      /\ failures' = [failures EXCEPT ![kind] = failures[kind] + 1]
  BY Zenon, ComposeAppEngineAssumption DEF TypeOK, Fails
<1>2. failures["download"] + failures["compose"] + failures["inspect"]
        + failures["state_file"] + failures["other_app"] < MaxFailures
  BY Zenon DEF Fails, TotalFailures
<1>3. \A k \in AllFailures : failures[k] \in Nat
  BY <1>1
<1>4. failures[kind] + 1 \in 0 .. MaxFailures
  BY <1>1, <1>2, <1>3 DEF AllFailures
<1> QED BY Zenon, <1>1, <1>4

\* A step with at most one failure.
OneFailure == UNCHANGED failures \/ \E k \in AllFailures : Fails(k)

\* No failure is forgotten.
LEMMA FailureTypes ==
  ASSUME TypeOK, OneFailure
  PROVE  /\ failures' \in [AllFailures -> 0 .. MaxFailures]
         /\ \A k \in AllFailures : failures'[k] = 0 => failures[k] = 0
<1>1. ASSUME NEW k \in AllFailures, Fails(k)
      PROVE  /\ failures' \in [AllFailures -> 0 .. MaxFailures]
             /\ \A j \in AllFailures : failures'[j] = 0 => failures[j] = 0
  BY <1>1, FailsCounts DEF TypeOK
<1> QED BY Zenon, <1>1 DEF OneFailure, TypeOK

\* A session that is started is counted.
LEMMA StartCounts ==
  ASSUME TypeOK, NEW kind \in AllSessions, MayStart(kind)
  PROVE  /\ sessions' \in [AllSessions -> 0 .. MaxSessions]
         /\ sessions' = [sessions EXCEPT ![kind] = sessions[kind] + 1]
<1>1. /\ sessions \in [AllSessions -> 0 .. MaxSessions] /\ MaxSessions \in Nat
      /\ sessions' = [sessions EXCEPT ![kind] = sessions[kind] + 1]
  BY Zenon, ComposeAppEngineAssumption DEF TypeOK, MayStart
<1>2. sessions["update"] + sessions["pull"] + sessions["install"] + sessions["remove"]
        < MaxSessions
  BY Zenon DEF MayStart
<1>3. \A k \in AllSessions : sessions[k] \in Nat
  BY <1>1
<1>4. sessions[kind] + 1 \in 0 .. MaxSessions
  BY <1>1, <1>2, <1>3 DEF AllSessions
<1> QED BY Zenon, <1>1, <1>4

\* A step within a method.
LEMMA GotoFields ==
  ASSUME TypeOK, NEW at, Goto(at)
  PROVE  /\ call'.at = at /\ call'.op = call.op /\ call'.stage = call.stage
         /\ at \in {"begin", "open", "assume", "work", "up", "check", "set", "erase",
                    "ok", "failed"} => call' \in Call
BY Zenon DEF TypeOK, Call, Goto

\* The call of a method.
LEMMA InvokeFields ==
  ASSUME NEW op, Invoke(op)
  PROVE  /\ call'.at = "begin" /\ call'.op = op /\ call'.stage = Downloaded
         /\ op \in {"none", "fetch", "install", "run", "stop", "remove"} => call' \in Call
BY DEF Invoke, Call, Downloaded, Pulled

\* A write of the state file, that may fail.
LEMMA SetStateFields ==
  ASSUME TypeOK, NEW state \in Unknown .. Started, SetState(state)
  PROVE  /\ dir' \in Dir /\ OneFailure
         /\ dir'.compose = dir.compose /\ dir'.version = dir.version
         /\ dir'.state \in {state, dir.state}
         /\ failures'["state_file"] = 0 => dir'.state = state
<1>1. CASE dir' = [dir EXCEPT !.state = state] /\ UNCHANGED failures
  BY Zenon, <1>1 DEF TypeOK, Dir, OneFailure
<1>2. CASE Fails("state_file") /\ UNCHANGED dir
  <2>1. failures'["state_file"] # 0
    BY <1>2, FailsCounts DEF TypeOK, AllFailures
  <2> QED BY Zenon, <1>2, <2>1 DEF TypeOK, AllFailures, OneFailure
<1> QED BY Zenon, <1>1, <1>2 DEF SetState

\* The parts of TypeOK that a step may change.
LEMMA TypesFrom ==
  ASSUME TypeOK, dir' \in Dir, container' \in Container, call' \in Call, OneFailure,
         current' \in Uri \union {NoUri}, session' \in Session,
         crashes' \in 0 .. MaxCrashes, sessions' \in [AllSessions -> 0 .. MaxSessions]
  PROVE  TypeOK'
BY Zenon, FailureTypes DEF TypeOK

\* Nothing makes a state file another App's own again.
LEMMA OwnBefore ==
  ASSUME TypeOK, OneFailure, StateFileIsOwn', UNCHANGED <<crashes, sessions>>
  PROVE  StateFileIsOwn
BY Zenon, FailureTypes DEF StateFileIsOwn, AllFailures

-----------------------------------------------------------------------------
(* fetch. *)

\* The steps of a fetch keep the invariant.
LEMMA FetchSteps ==
  ASSUME Inv, FetchBegin \/ (OpenState /\ call.op = "fetch") \/ FetchWork \/ FetchFails
                \/ FetchSetState
  PROVE  Inv'
<1> USE DEF Inv
<1>0. /\ call.op = "fetch" /\ call'.op = "fetch"
      /\ UNCHANGED <<container, current, session, crashes, sessions>>
  BY Zenon, GotoFields DEF FetchBegin, OpenState, FetchWork, FetchFails, FetchSetState, TypeOK, Call
<1>1. /\ OneFailure /\ dir' \in Dir /\ call' \in Call
      /\ call'.at \in {"open", "work", "set", "ok", "failed"}
      /\ dir'.state \in Unknown .. Started
      /\ dir'.state = Started => dir.state = Started
  <2>1. CASE FetchBegin
    BY Zenon, <2>1, GotoFields DEF FetchBegin, OneFailure, TypeOK, Dir
  <2>2. CASE OpenState /\ call.op = "fetch"
    BY ZenonT(30), <2>2, GotoFields DEF OpenState, Opened, OneFailure, AllFailures, TypeOK, Dir, Session
  <2>3. CASE FetchWork
    BY Zenon, <2>3, GotoFields DEF FetchWork, OneFailure, TypeOK, Dir, Session
  <2>4. CASE FetchFails
    BY ZenonT(30), <2>4, GotoFields DEF FetchFails, OneFailure, AllFailures, TypeOK, Dir, Session
  <2>5. CASE FetchSetState
    <3>1. call.stage \in Unknown .. Started /\ call.stage # Started
      BY DEF TypeOK, Call, Unknown, Downloaded, Pulled, Started
    <3>2. dir' \in Dir /\ OneFailure /\ dir'.state \in {call.stage, dir.state}
      BY Zenon, <2>5, <3>1, SetStateFields DEF FetchSetState
    <3>3. CASE call.stage = Pulled
      <4>1. call' \in Call /\ call'.at = "ok"
        BY Zenon, <2>5, <3>3 DEF FetchSetState, TypeOK, Call
      <4> QED BY Zenon, <3>1, <3>2, <4>1 DEF TypeOK, Dir
    <3>4. CASE call.stage # Pulled
      <4>1. call.stage + 1 \in Downloaded .. Pulled
        BY <3>4 DEF TypeOK, Call, Downloaded, Pulled
      <4>2. call' = [call EXCEPT !.at = "work", !.stage = call.stage + 1]
        BY Zenon, <2>5, <3>4 DEF FetchSetState
      <4>3. call' \in Call /\ call'.at = "work"
        BY Zenon, <4>1, <4>2 DEF TypeOK, Call
      <4> QED BY Zenon, <3>1, <3>2, <4>3 DEF TypeOK, Dir
    <3> QED BY Zenon, <3>3, <3>4
  <2> QED BY Zenon, <2>1, <2>2, <2>3, <2>4, <2>5
<1>2. TypeOK'
  BY Zenon, <1>0, <1>1, TypesFrom DEF TypeOK
<1>3. SessionInv' /\ CallInv'
  <2>1. FetchBegin => call'.stage = Downloaded
    BY Zenon, GotoFields DEF FetchBegin, CallInv
  <2>2. ~FetchBegin => call'.at # "open"
    <3>1. OpenState \/ FetchWork \/ FetchFails => call'.at \in {"work", "set", "failed"}
      BY Zenon, <1>0, GotoFields DEF OpenState, FetchWork, FetchFails
    <3>2. FetchSetState => call'.at \in {"work", "ok"}
      BY Zenon DEF FetchSetState, TypeOK, Call
    <3> QED BY Zenon, <3>1, <3>2
  <2> QED BY Zenon, <1>0, <1>1, <2>1, <2>2 DEF SessionInv, CallInv
<1>4. StartedInv'
  BY Zenon, <1>0, <1>1, FailureTypes DEF StartedInv, AllFailures
<1>5. OwnInv'
  <2> SUFFICES ASSUME StateFileIsOwn'
               PROVE  OwnFiles' /\ OwnState' /\ OwnContainers' /\ OwnStarted'
    BY Zenon DEF OwnInv
  <2>1. OwnFiles /\ OwnStarted
    BY Zenon, <1>0, <1>1, OwnBefore DEF OwnInv
  <2>2. OwnFiles'
    <3>1. CASE FetchBegin \/ OpenState \/ FetchFails
      <4>1. call'.at # "set" /\ call'.at # "ok"
        BY <3>1, <1>0, GotoFields DEF FetchBegin, OpenState, FetchFails
      <4>2. call'.at = "work" => call'.stage = Downloaded
        BY <3>1, <1>0, GotoFields DEF FetchBegin, OpenState, FetchFails, CallInv
      <4> QED BY Zenon, <1>0, <4>1, <4>2 DEF Fetched, OwnFiles
    <3>2. CASE FetchWork
      BY Zenon, <3>2, <2>1, GotoFields DEF FetchWork, OwnFiles, Fetched, TypeOK, Dir
    <3>3. CASE FetchSetState
      <4>1. dir'.compose = dir.compose
        BY <3>3, SetStateFields DEF FetchSetState, TypeOK, Call, Unknown, Downloaded,
           Pulled, Started
      <4> QED BY Zenon, <3>3, <4>1, <2>1 DEF FetchSetState, OwnFiles, Fetched
    <3> QED BY Zenon, <3>1, <3>2, <3>3
  <2>3. OwnState'
    <3>1. CASE FetchSetState
      <4>1. failures'["state_file"] = 0 => dir'.state = call.stage
        BY <3>1, SetStateFields DEF FetchSetState, TypeOK, Call, Unknown, Downloaded,
           Pulled, Started
      <4>2. call'.at = "ok" => call.stage = Pulled
        BY Zenon, <3>1 DEF FetchSetState, TypeOK, Call
      <4> QED BY Zenon, <1>0, <4>1, <4>2 DEF OwnState
    <3>2. CASE ~FetchSetState
      BY <3>2, <1>0, GotoFields DEF FetchBegin, OpenState, FetchWork, FetchFails, OwnState
    <3> QED BY Zenon, <3>1, <3>2
  <2>4. OwnContainers' /\ OwnStarted'
    BY Zenon, <1>0, <1>1, <2>1 DEF OwnContainers, OwnStarted
  <2> QED BY Zenon, <2>2, <2>3, <2>4
<1> QED BY Zenon, <1>2, <1>3, <1>4, <1>5

-----------------------------------------------------------------------------
(* install and run. *)

\* A step of install or run that leaves the containers alone.
LEMMA RunSteps ==
  ASSUME Inv, InstallBegin \/ RunBegin \/ (OpenState /\ call.op = "run") \/ RunAssumePulled
  PROVE  Inv'
<1> USE DEF Inv
<1>0. /\ call.op \in {"install", "run"} /\ call'.op = call.op
      /\ call.at \in {"begin", "open", "assume"}
      /\ UNCHANGED <<container, current, session, crashes, sessions>>
  BY Zenon, GotoFields DEF InstallBegin, RunBegin, OpenState, RunAssumePulled
<1>1. /\ OneFailure /\ dir' \in Dir /\ call' \in Call /\ dir'.compose = dir.compose
      /\ call'.at \in {"open", "assume", "up", "check", "failed"}
      /\ call'.at \in {"open", "assume"} => call.op = "run"
      /\ dir'.state \in {Pulled, dir.state}
      /\ call'.at = "up" => dir'.state \in {Pulled, Installed}
      /\ call.op = "run" /\ call'.at = "check" => dir'.state = Started
      /\ dir'.state = Started => dir.state = Started
  <2>1. CASE InstallBegin
    <3>1. PICK at \in {"failed", "check", "up"} :
            Goto(at) /\ (at = "up" => StateOf(session.uri) = Pulled)
      BY <2>1, Zenon DEF InstallBegin
    <3> QED BY <2>1, <3>1, GotoFields
            DEF InstallBegin, OneFailure, TypeOK, Dir, StateOf, Unknown, Pulled
  <2>2. CASE RunBegin
    <3>1. CASE dir.exists /\ ~IsFetched(session.uri)
      <4>1. dir' = [dir EXCEPT !.meta = TRUE] /\ Goto("open") /\ UNCHANGED failures
        BY Zenon, <2>2, <3>1 DEF RunBegin
      <4>2. dir' \in Dir /\ dir'.compose = dir.compose /\ dir'.state = dir.state
        BY Zenon, <4>1 DEF TypeOK, Dir
      <4> QED BY <2>2, <4>1, <4>2, GotoFields DEF RunBegin, OneFailure
    <3>2. CASE ~(dir.exists /\ ~IsFetched(session.uri))
      <4>1. PICK at \in {"failed", "check", "up"} :
              /\ Goto(at)
              /\ at = "up" => dir.exists /\ StateOf(session.uri) # Started
              /\ at = "check" => StateOf(session.uri) = Started
        BY <2>2, <3>2, Zenon DEF RunBegin
      <4>2. at = "up" => dir.state \in {Pulled, Installed}
        BY <3>2, <4>1 DEF IsFetched, StateOf, TypeOK, Dir, Unknown, Pulled, Installed, Started
      <4>3. at = "check" => dir.state = Started
        BY <4>1 DEF StateOf, Unknown, Started
      <4>4. UNCHANGED <<dir, failures>> /\ call.op = "run"
        BY Zenon, <2>2, <3>2 DEF RunBegin
      <4> QED BY Zenon, <4>1, <4>2, <4>3, <4>4, GotoFields DEF OneFailure, TypeOK
    <3> QED BY Zenon, <3>1, <3>2
  <2>3. CASE OpenState /\ call.op = "run"
    BY <2>3, GotoFields DEF OpenState, Opened, OneFailure, AllFailures, TypeOK, Dir, Session
  <2>4. CASE RunAssumePulled
    <3>1. /\ dir' \in Dir /\ OneFailure /\ dir'.compose = dir.compose
          /\ dir'.state \in {Pulled, dir.state}
      BY <2>4, SetStateFields DEF RunAssumePulled, Unknown, Pulled, Started
    <3>2. PICK at \in {"failed", "check", "up"} :
            /\ Goto(at)
            /\ at = "up" => dir'.state \in {Pulled, Installed}
            /\ at = "check" => dir'.state = Started
      BY <2>4, Zenon DEF RunAssumePulled
    <3> QED BY <3>1, <3>2, GotoFields DEF Pulled, Started
  <2> QED BY Zenon, <2>1, <2>2, <2>3, <2>4
<1>2. TypeOK'
  BY Zenon, <1>0, <1>1, TypesFrom DEF TypeOK
<1>3. SessionInv' /\ CallInv'
  BY Zenon, <1>0, <1>1 DEF SessionInv, CallInv
<1>4. StartedInv'
  BY Zenon, <1>0, <1>1, FailureTypes DEF StartedInv, AllFailures
<1>5. OwnInv'
  <2> SUFFICES ASSUME StateFileIsOwn'
               PROVE  OwnFiles' /\ OwnState' /\ OwnContainers' /\ OwnStarted'
    BY Zenon DEF OwnInv
  <2>1. OwnFiles /\ OwnState /\ OwnStarted
    BY Zenon, <1>0, <1>1, OwnBefore DEF OwnInv
  <2>2. OwnFiles' /\ (Fetched' => Fetched)
    BY Zenon, <1>0, <1>1, <2>1 DEF Fetched, OwnFiles
  <2>3. failures'["state_file"] = 0 => failures["state_file"] = 0
    BY Zenon, <1>1, FailureTypes DEF AllFailures
  <2>4. Fetched' /\ failures'["state_file"] = 0 => dir'.state \in {Pulled, Installed}
    BY Zenon, <1>0, <1>1, <2>1, <2>2, <2>3 DEF OwnState
  <2>5. OwnState'
    BY Zenon, <2>4 DEF OwnState
  <2>6. OwnContainers'
    BY <1>0, <1>1, <2>4 DEF OwnContainers, Pulled, Installed, Started
  <2>7. OwnStarted'
    BY Zenon, <1>0, <1>1, <2>1 DEF OwnStarted
  <2> QED BY Zenon, <2>2, <2>5, <2>6, <2>7
<1> QED BY Zenon, <1>2, <1>3, <1>4, <1>5

\* docker compose up, whether it succeeds or not.
LEMMA UpSteps ==
  ASSUME Inv, ComposeUp \/ ComposeUpFails
  PROVE  Inv'
<1> USE DEF Inv
<1>0. /\ call.at = "up" /\ call.op \in {"install", "run"} /\ call'.op = call.op
      /\ dir.state \in {Pulled, Installed} /\ dir.state # Started
      /\ UNCHANGED <<dir, current, session, crashes, sessions>>
  BY GotoFields DEF ComposeUp, ComposeUpFails, CallInv, Pulled, Installed, Started
<1>1. /\ OneFailure /\ container' \in Container /\ call' \in Call
      /\ call'.at \in {"check", "failed"}
  <2>1. UpContainer \in Container /\ [UpContainer EXCEPT !.started = FALSE] \in Container
    BY Zenon DEF UpContainer, TypeOK, Container, Dir
  <2> QED BY Zenon, <2>1, GotoFields DEF ComposeUp, ComposeUpFails, OneFailure, AllFailures, TypeOK
<1>2. call'.at = "check" => container'.of = dir.compose /\ (call.op = "run" => container'.started)
  BY GotoFields DEF ComposeUp, ComposeUpFails, UpContainer
<1>3. TypeOK'
  BY Zenon, <1>0, <1>1, TypesFrom DEF TypeOK
<1>4. SessionInv' /\ CallInv'
  BY Zenon, <1>0, <1>1 DEF SessionInv, CallInv
<1>5. StartedInv'
  BY Zenon, <1>0, <1>1, <1>2 DEF StartedInv
<1>6. OwnInv'
  <2> SUFFICES ASSUME StateFileIsOwn'
               PROVE  OwnFiles' /\ OwnState' /\ OwnContainers' /\ OwnStarted'
    BY Zenon DEF OwnInv
  <2>1. OwnFiles /\ (Fetched' <=> Fetched)
    BY Zenon, <1>0, <1>1, OwnBefore DEF OwnInv, Fetched
  <2> QED BY Zenon, <1>0, <1>1, <1>2, <2>1 DEF OwnFiles, OwnState, OwnContainers, OwnStarted
<1> QED BY Zenon, <1>3, <1>4, <1>5, <1>6

\* The question to dockerd.
LEMMA CheckStep ==
  ASSUME Inv, CheckContainers
  PROVE  Inv'
<1> USE DEF Inv
<1>0. /\ call.at = "check" /\ call.op \in {"install", "run"} /\ call'.op = call.op
      /\ UNCHANGED <<dir, container, current, session, crashes, sessions>>
      /\ OneFailure /\ call' \in Call /\ call'.at \in {"set", "failed"}
  BY Zenon, GotoFields DEF CheckContainers, CallInv, OneFailure, AllFailures
<1>1. call'.at = "set" => AreContainersCreated \/ failures'["inspect"] # 0
  <2>1. Fails("inspect") => failures'["inspect"] # 0
    BY FailsCounts DEF TypeOK, AllFailures
  <2> QED BY <2>1, GotoFields DEF CheckContainers
<1>2. TypeOK'
  BY Zenon, <1>0, TypesFrom DEF TypeOK
<1>3. SessionInv' /\ CallInv'
  BY Zenon, <1>0 DEF SessionInv, CallInv
<1>4. StartedInv'
  <2>1. failures'["inspect"] = 0 => failures["inspect"] = 0
    BY Zenon, <1>0, FailureTypes DEF AllFailures
  <2>2. AreContainersCreated <=> AreContainersCreated'
    BY Zenon, <1>0 DEF AreContainersCreated
  <2> QED BY Zenon, <1>0, <1>1, <2>1, <2>2 DEF StartedInv, AreContainersCreated
<1>5. OwnInv'
  <2> SUFFICES ASSUME StateFileIsOwn'
               PROVE  OwnFiles' /\ OwnState' /\ OwnContainers' /\ OwnStarted'
    BY Zenon DEF OwnInv
  <2>1. OwnFiles /\ OwnState /\ OwnContainers /\ OwnStarted /\ (Fetched' <=> Fetched)
    BY Zenon, <1>0, OwnBefore DEF OwnInv, Fetched
  <2>2. failures'["state_file"] = 0 => failures["state_file"] = 0
    BY Zenon, <1>0, FailureTypes DEF AllFailures
  <2>3. OwnContainers'
    <3>1. CASE AreContainersCreated
      BY Zenon, <1>0, <2>1, <3>1 DEF OwnContainers, OwnFiles, AreContainersCreated
    <3>2. CASE failures'["inspect"] # 0
      BY Zenon, <1>0, <2>1, <2>2, <3>2 DEF OwnContainers, StateFileIsOwn
    <3> QED BY Zenon, <1>0, <1>1, <3>1, <3>2 DEF OwnContainers
  <2> QED BY Zenon, <1>0, <2>1, <2>2, <2>3 DEF OwnFiles, OwnState, OwnStarted
<1> QED BY Zenon, <1>2, <1>3, <1>4, <1>5

\* The end of install and run.
LEMMA SetStep ==
  ASSUME Inv, InstallSetState
  PROVE  Inv'
<1> USE DEF Inv
<1> DEFINE state == IF call.op = "run" THEN Started ELSE Installed
<1>0. /\ call.at = "set" /\ call.op \in {"install", "run"} /\ call'.op = call.op
      /\ UNCHANGED <<container, current, session, crashes, sessions>>
      /\ call' \in Call /\ call'.at = "ok"
  BY Zenon, GotoFields DEF InstallSetState
<1>1. /\ dir' \in Dir /\ OneFailure
      /\ dir'.compose = dir.compose /\ dir'.version = dir.version
      /\ dir'.state \in {state, dir.state}
      /\ failures'["state_file"] = 0 => dir'.state = state
  <2>1. state \in Unknown .. Started
    BY DEF Unknown, Started, Installed
  <2>2. SetState(state)
    BY Zenon DEF InstallSetState
  <2> HIDE DEF state
  <2> QED BY Zenon, <2>1, <2>2, SetStateFields
<1>2. TypeOK'
  BY Zenon, <1>0, <1>1, TypesFrom DEF TypeOK
<1>3. SessionInv' /\ CallInv'
  BY Zenon, <1>0 DEF SessionInv, CallInv
<1>4. StartedInv'
  <2>1. failures'["inspect"] = 0 => failures["inspect"] = 0
    BY Zenon, <1>1, FailureTypes DEF AllFailures
  <2>2. AreContainersCreated <=> AreContainersCreated'
    BY Zenon, <1>0, <1>1 DEF AreContainersCreated
  <2> QED BY <1>0, <1>1, <2>1, <2>2 DEF StartedInv, Started, Installed
<1>5. OwnInv'
  <2> SUFFICES ASSUME StateFileIsOwn'
               PROVE  OwnFiles' /\ OwnState' /\ OwnContainers' /\ OwnStarted'
    BY Zenon DEF OwnInv
  <2>1. OwnFiles /\ OwnState /\ OwnContainers /\ OwnStarted /\ (Fetched' <=> Fetched)
    BY Zenon, <1>0, <1>1, OwnBefore DEF OwnInv, Fetched
  <2>2. OwnFiles' /\ OwnContainers'
    BY Zenon, <1>0, <1>1, <2>1 DEF OwnFiles, OwnContainers
  <2>3. OwnState' /\ OwnStarted'
    BY <1>0, <1>1, <2>1 DEF OwnState, OwnStarted, Started, Installed
  <2> QED BY Zenon, <2>2, <2>3
<1> QED BY Zenon, <1>2, <1>3, <1>4, <1>5

-----------------------------------------------------------------------------
(* stop and remove. *)

\* The steps of a stop and of a removal keep the invariant.
LEMMA DownSteps ==
  ASSUME Inv, ComposeDown \/ RemoveDir
  PROVE  Inv'
<1> USE DEF Inv
<1>0. /\ call.op \in {"stop", "remove"} /\ call'.op = call.op
      /\ UNCHANGED <<current, session, crashes, sessions>>
      /\ call' \in Call /\ call'.at \in {"erase", "ok"}
      /\ call'.at = "erase" => call.op = "remove"
  BY GotoFields DEF ComposeDown, RemoveDir, CallInv
<1>1. /\ OneFailure /\ dir' \in Dir /\ dir' \in {dir, NoDir}
      /\ container' \in {container, NoContainer} /\ container' \in Container
      /\ dir'.state = Started => dir.state = Started
      /\ call.op = "stop" => dir' = dir
  <2>1. NoDir \in Dir /\ NoDir.state # Started
    BY DEF NoDir, Dir, Unknown, Started
  <2>2. NoContainer \in Container
    BY Zenon DEF NoContainer, Container
  <2> QED BY Zenon, <2>1, <2>2
          DEF ComposeDown, RemoveDir, CallInv, OneFailure, AllFailures, TypeOK
<1>2. TypeOK'
  BY Zenon, <1>0, <1>1, TypesFrom DEF TypeOK
<1>3. SessionInv' /\ CallInv'
  BY Zenon, <1>0 DEF SessionInv, CallInv
<1>4. NoContainer.of = NoUri
  BY Zenon DEF NoContainer
<1>5. StartedInv'
  BY Zenon, <1>0, <1>1, <1>4, FailureTypes DEF StartedInv, AllFailures
<1>6. OwnInv'
  <2> SUFFICES ASSUME StateFileIsOwn'
               PROVE  OwnFiles' /\ OwnState' /\ OwnContainers' /\ OwnStarted'
    BY Zenon DEF OwnInv
  <2>1. OwnFiles /\ OwnState /\ OwnStarted /\ (Fetched' <=> Fetched)
    BY Zenon, <1>0, <1>1, OwnBefore DEF OwnInv, Fetched
  <2>2. failures'["state_file"] = 0 => failures["state_file"] = 0
    BY Zenon, <1>1, FailureTypes DEF AllFailures
  <2>3. Fetched' => dir' = dir
    BY Zenon, <1>0, <1>1 DEF Fetched
  <2> QED BY Zenon, <1>0, <1>1, <1>4, <2>1, <2>2, <2>3
          DEF OwnFiles, OwnState, OwnContainers, OwnStarted
<1> QED BY Zenon, <1>2, <1>3, <1>5, <1>6

-----------------------------------------------------------------------------
(* The caller. *)

\* A session begins.
LEMMA StartSteps ==
  ASSUME Inv, StartFetch \/ StartSync \/ StartInstall \/ StartRemove
  PROVE  Inv'
<1> USE DEF Inv
<1>0. UNCHANGED <<dir, container, crashes>> /\ call.op = "none" /\ session = Idle
  BY Zenon DEF StartFetch, StartSync, StartInstall, StartRemove, SessionInv
<1>1. /\ OneFailure /\ session' \in Session /\ current' \in {current, NoUri}
      /\ session'.kind \in {"update", "pull", "sync", "install", "remove"}
      /\ session'.kind # "remove" => session'.uri \in Uri
      /\ call' \in Call /\ call'.at = "begin" /\ call'.stage = Downloaded
      /\ \/ call'.op = "fetch" /\ session'.kind \in {"update", "pull", "sync"}
         \/ call'.op = "stop" /\ session'.kind \in {"install", "remove"}
      /\ sessions' \in [AllSessions -> 0 .. MaxSessions]
      /\ sessions'["install"] = 0 => sessions["install"] = 0 /\ session'.kind # "install"
  <2>1. CASE StartFetch
    <3>1. PICK kind \in {"update", "pull"}, u \in Uri :
            MayStart(kind) /\ session' = [kind |-> kind, uri |-> u]
      BY Zenon, <2>1 DEF StartFetch
    <3>2. /\ sessions' \in [AllSessions -> 0 .. MaxSessions]
          /\ sessions'["install"] = sessions["install"]
      BY Zenon, <3>1, StartCounts DEF AllSessions, TypeOK
    <3>3. session' \in Session /\ session'.kind = kind /\ session'.uri = u
      BY Zenon, <3>1 DEF Session, AllSessions
    <3>4. call' \in Call /\ call'.op = "fetch" /\ call'.at = "begin" /\ call'.stage = Downloaded
      BY Zenon, <2>1, InvokeFields DEF StartFetch
    <3>5. OneFailure /\ UNCHANGED current
      BY Zenon, <2>1 DEF StartFetch, OneFailure
    <3> QED BY Zenon, <3>1, <3>2, <3>3, <3>4, <3>5
  <2>2. CASE StartSync
    <3>1. session' \in Session /\ session'.kind = "sync" /\ session'.uri \in Uri
      BY Zenon, <2>2 DEF StartSync, Session, TypeOK
    <3>2. OneFailure /\ UNCHANGED <<sessions, current>>
      BY Zenon, <2>2 DEF StartSync, OneFailure, AllFailures
    <3>3. call' \in Call /\ call'.op = "fetch" /\ call'.at = "begin" /\ call'.stage = Downloaded
      BY Zenon, <2>2, InvokeFields DEF StartSync
    <3> QED BY Zenon, <3>1, <3>2, <3>3 DEF TypeOK
  <2>3. CASE StartInstall
    <3>1. PICK u \in Uri : session' = [kind |-> "install", uri |-> u]
      BY Zenon, <2>3 DEF StartInstall
    <3>2. /\ sessions' \in [AllSessions -> 0 .. MaxSessions]
          /\ sessions'["install"] # 0
      BY <2>3, StartCounts DEF StartInstall, AllSessions, TypeOK
    <3>3. session' \in Session /\ session'.kind = "install" /\ session'.uri = u
      BY Zenon, <3>1 DEF Session, AllSessions
    <3> QED BY Zenon, <2>3, <3>2, <3>3, InvokeFields DEF StartInstall, OneFailure
  <2>4. CASE StartRemove
    <3>1. session' \in Session /\ session'.kind = "remove"
      BY Zenon, <2>4 DEF StartRemove, Session, AllSessions
    <3>2. /\ sessions' \in [AllSessions -> 0 .. MaxSessions]
          /\ sessions'["install"] = sessions["install"]
      BY Zenon, <2>4, StartCounts DEF StartRemove, AllSessions, TypeOK
    <3> QED BY Zenon, <2>4, <3>1, <3>2, InvokeFields DEF StartRemove, OneFailure
  <2> QED BY Zenon, <2>1, <2>2, <2>3, <2>4
<1>2. TypeOK'
  BY Zenon, <1>0, <1>1, TypesFrom DEF TypeOK
<1>3. SessionInv'
  BY <1>1 DEF SessionInv, Running, Idle
<1>4. CallInv'
  BY Zenon, <1>1 DEF CallInv
<1>5. StartedInv'
  BY Zenon, <1>0, <1>1, FailureTypes DEF StartedInv, AllFailures
<1>6. OwnInv'
  <2> SUFFICES ASSUME StateFileIsOwn'
               PROVE  OwnFiles' /\ OwnState' /\ OwnContainers' /\ OwnStarted'
    BY Zenon DEF OwnInv
  <2>1. StateFileIsOwn
    BY Zenon, <1>0, <1>1, FailureTypes DEF StateFileIsOwn, AllFailures
  <2>2. ~Fetched'
    BY Zenon, <1>1 DEF Fetched, StateFileIsOwn
  <2>3. OwnStarted'
    BY Zenon, <1>0, <1>1, <2>1 DEF OwnInv, OwnStarted
  <2> QED BY Zenon, <2>2, <2>3 DEF OwnFiles, OwnState, OwnContainers
<1> QED BY Zenon, <1>2, <1>3, <1>4, <1>5, <1>6

\* The next method is called.
LEMMA ContinueStep ==
  ASSUME Inv, Continue
  PROVE  Inv'
<1> USE DEF Inv
<1>0. /\ call.at = "ok" /\ call.op # "none"
      /\ UNCHANGED <<dir, container, current, session, failures, crashes, sessions>>
  BY Zenon DEF Continue
<1>1. PICK op \in NextCalls : Invoke(op)
  BY Zenon DEF Continue
<1>2. /\ call.op = "fetch" => op \in {"stop", "run"} /\ session.kind \in {"update", "sync"}
      /\ call.op = "stop" => \/ op = "remove" /\ session.kind = "remove"
                             \/ op \in {"install", "run"} /\ session.kind \in Running
      /\ call.op = "install" => op = "run" /\ session.kind \in Running
      /\ call.op \in {"fetch", "stop", "install"}
  BY Zenon, <1>0, <1>1 DEF NextCalls, SessionInv, TypeOK, Call, Running
<1>3. call' \in Call /\ call'.op = op /\ call'.at = "begin" /\ call'.stage = Downloaded
  BY Zenon, <1>1, <1>2, InvokeFields
<1>4. TypeOK'
  BY Zenon, <1>0, <1>3 DEF TypeOK
<1>5. SessionInv' /\ CallInv'
  BY Zenon, <1>0, <1>2, <1>3 DEF SessionInv, CallInv, Running
<1>6. StartedInv'
  BY Zenon, <1>0, <1>3 DEF StartedInv
<1>7. OwnInv'
  <2> SUFFICES ASSUME StateFileIsOwn'
               PROVE  OwnFiles' /\ OwnState' /\ OwnContainers' /\ OwnStarted'
    BY Zenon DEF OwnInv
  <2>1. OwnFiles /\ OwnState /\ OwnStarted
    BY Zenon, <1>0 DEF OwnInv, StateFileIsOwn
  <2>2. Fetched' => Fetched
    BY Zenon, <1>0, <1>2, <1>3 DEF Fetched, Running
  <2> QED BY Zenon, <1>0, <1>2, <1>3, <2>1, <2>2
          DEF OwnFiles, OwnState, OwnContainers, OwnStarted
<1> QED BY Zenon, <1>4, <1>5, <1>6, <1>7

\* A session ends, well or not.
LEMMA EndSteps ==
  ASSUME Inv, Return \/ Crash
  PROVE  Inv'
<1> USE DEF Inv
<1>0. UNCHANGED <<dir, container, sessions>> /\ call' = NoCall /\ session' = Idle
  BY Zenon DEF Return, Crash
<1>1. /\ OneFailure /\ crashes' \in 0 .. MaxCrashes
      /\ current' \in {current, session.uri} /\ current' \in Uri \union {NoUri}
  <2>1. CASE Return
    BY Zenon, <2>1 DEF Return, OneFailure, AllFailures, TypeOK, Session
  <2>2. CASE Crash
    BY <2>2, ComposeAppEngineAssumption DEF Crash, OneFailure, TypeOK
  <2> QED BY Zenon, <2>1, <2>2
<1>2. /\ NoCall \in Call /\ NoCall.op = "none" /\ NoCall.at = "ok"
      /\ Idle \in Session /\ Idle.kind = "idle"
  BY DEF NoCall, Call, Idle, Session, AllSessions, Downloaded, Pulled
<1>3. TypeOK'
  BY Zenon, <1>0, <1>1, <1>2, TypesFrom DEF TypeOK
<1>4. SessionInv' /\ CallInv'
  BY Zenon, <1>0, <1>2 DEF SessionInv, CallInv, Running
<1>5. StartedInv'
  BY Zenon, <1>0, <1>1, <1>2, FailureTypes DEF StartedInv, AllFailures
<1>6. OwnInv'
  <2> SUFFICES ASSUME StateFileIsOwn'
               PROVE  OwnFiles' /\ OwnState' /\ OwnContainers' /\ OwnStarted'
    BY Zenon DEF OwnInv
  <2>1. Return /\ UNCHANGED crashes
    BY DEF Return, Crash, StateFileIsOwn, TypeOK
  <2>2. OwnContainers /\ OwnStarted
    BY Zenon, <1>0, <1>1, <2>1, OwnBefore DEF OwnInv
  <2>3. ~Fetched'
    BY Zenon, <1>0, <1>2 DEF Fetched
  <2>4. OwnStarted'
    <3>1. CASE call.op = "run" /\ call.at = "ok"
      <4>1. ~Fails("other_app")
        BY FailsCounts DEF StateFileIsOwn, TypeOK, AllFailures
      <4>2. current' = session.uri
        BY Zenon, <2>1, <3>1, <4>1 DEF Return
      <4>3. Fetched
        BY Zenon, <3>1 DEF SessionInv, Fetched, Running
      <4> QED BY Zenon, <1>0, <2>2, <3>1, <4>2, <4>3 DEF OwnContainers, OwnStarted
    <3>2. CASE ~(call.op = "run" /\ call.at = "ok")
      <4>1. UNCHANGED current
        BY Zenon, <2>1, <3>2 DEF Return
      <4> QED BY Zenon, <1>0, <2>2, <3>2, <4>1 DEF OwnStarted
    <3> QED BY Zenon, <3>1, <3>2
  <2> QED BY Zenon, <2>3, <2>4 DEF OwnFiles, OwnState, OwnContainers
<1> QED BY Zenon, <1>3, <1>4, <1>5, <1>6

-----------------------------------------------------------------------------
(* Theorems. *)

\* The invariant holds initially, with no App or with one that runs.
LEMMA InvInit == Init => Inv
<1> SUFFICES ASSUME Init PROVE Inv
  BY Zenon
<1>1. /\ dir \in Dir /\ dir.state = Unknown /\ container \in Container
      /\ current \in Uri \union {NoUri}
  <2>1. CASE dir = NoDir /\ container = NoContainer /\ current = NoUri
    BY <2>1 DEF Dir, NoDir, Container, NoContainer, Unknown, Started
  <2>2. CASE \E u \in Uri : /\ dir = [NoDir EXCEPT !.exists = TRUE, !.compose = u]
                           /\ container = [of |-> u, started |-> TRUE]
                           /\ current = u
    <3>1. PICK u \in Uri : /\ dir = [NoDir EXCEPT !.exists = TRUE, !.compose = u]
                           /\ container = [of |-> u, started |-> TRUE]
                           /\ current = u
      BY Zenon, <2>2
    <3>2. dir = [exists |-> TRUE, meta |-> FALSE, version |-> NoUri,
                 state |-> Unknown, compose |-> u]
      BY Zenon, <3>1 DEF NoDir
    <3>3. dir \in Dir /\ dir.state = Unknown
      BY <3>2 DEF Dir, Unknown, Started
    <3> QED BY Zenon, <3>1, <3>3 DEF Container
  <2> QED BY Zenon, <2>1, <2>2 DEF Init
<1>2. /\ call = NoCall /\ session = Idle
      /\ NoCall \in Call /\ NoCall.op = "none" /\ NoCall.at = "ok"
      /\ Idle \in Session /\ Idle.kind = "idle"
  <2>1. NoCall \in Call /\ NoCall.op = "none" /\ NoCall.at = "ok"
    BY DEF NoCall, Call, Downloaded, Pulled
  <2>2. Idle \in Session /\ Idle.kind = "idle"
    BY Zenon DEF Idle, Session
  <2> QED BY Zenon, <2>1, <2>2 DEF Init
<1>3. /\ failures \in [AllFailures -> 0 .. MaxFailures]
      /\ sessions \in [AllSessions -> 0 .. MaxSessions] /\ crashes \in 0 .. MaxCrashes
  <2>1. 0 \in 0 .. MaxFailures /\ 0 \in 0 .. MaxSessions /\ 0 \in 0 .. MaxCrashes
    BY ComposeAppEngineAssumption
  <2> QED BY Zenon, <2>1 DEF Init
<1>4. TypeOK
  BY Zenon, <1>1, <1>2, <1>3 DEF TypeOK
<1>5. SessionInv /\ CallInv
  BY Zenon, <1>2 DEF SessionInv, CallInv, Running
<1>6. StartedInv /\ OwnInv
  BY <1>1, <1>2 DEF StartedInv, OwnInv, OwnFiles, OwnState, OwnContainers, OwnStarted,
     Fetched, Unknown, Started
<1> QED BY Zenon, <1>4, <1>5, <1>6 DEF Inv

\* The inductive invariant, over all steps of the engine and of its caller.
THEOREM InvHolds == Spec => []Inv
<1>1. Inv /\ [Next]_vars => Inv'
  <2> SUFFICES ASSUME Inv, [Next]_vars PROVE Inv'
    BY Zenon
  <2>1. CASE UNCHANGED vars
    BY <2>1 DEF vars, Inv, TypeOK, SessionInv, CallInv, StartedInv, OwnInv, OwnFiles,
       OwnState, OwnContainers, OwnStarted, Fetched, StateFileIsOwn, AreContainersCreated
  <2>2. CASE OpenState
    BY Zenon, <2>2, FetchSteps, RunSteps DEF Inv, CallInv, OpenState
  <2> QED BY Zenon, <2>1, <2>2, FetchSteps, RunSteps, UpSteps, CheckStep, SetStep, DownSteps,
             StartSteps, ContinueStep, EndSteps DEF Next, Engine, Manager
<1> QED BY InvInit, <1>1, PTL DEF Spec

\* The types of the engine's state.
THEOREM EngineTypes == Spec => []TypeOK
<1>1. Inv => TypeOK
  BY Zenon DEF Inv
<1> QED BY InvHolds, <1>1, PTL

\* ComposeAppEngine::run is true to its word: the containers of the compose
\* file in the App's directory are started when it says so.
THEOREM RunIsTrue == Spec => []RunOkMeansStarted
<1>1. Inv => RunOkMeansStarted
  BY Zenon DEF Inv, StartedInv, RunOkMeansStarted
<1> QED BY InvHolds, <1>1, PTL

\* isRunning and isFetched together tell the current Target's App from every
\* other version of it.
THEOREM HealthyAppIsCurrent == Spec => []HealthyIsCurrent
<1>1. Inv => HealthyIsCurrent
  <2> SUFFICES ASSUME Inv, StateFileIsOwn, Quiet, current # NoUri, ~NeedsSync(current)
               PROVE  container = [of |-> current, started |-> TRUE]
    BY Zenon DEF HealthyIsCurrent
  <2>1. call.op = "none"
    BY Zenon DEF Inv, SessionInv, Quiet
  <2>2. dir.state = Started
    BY DEF NeedsSync, IsRunning, IsFetched, StateOf, Unknown, Pulled
  <2>3. container.of = dir.compose /\ dir.compose # NoUri /\ container.started
    BY Zenon DEF NeedsSync, IsRunning, AreContainersCreated
  <2>4. container.of = current
    BY Zenon, <2>1, <2>2, <2>3 DEF Inv, OwnInv, OwnStarted
  <2> QED BY Zenon, <2>3, <2>4 DEF Inv, TypeOK, Container
<1> QED BY InvHolds, <1>1, PTL
=============================================================================
