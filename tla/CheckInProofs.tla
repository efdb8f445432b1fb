--------------------------- MODULE CheckInProofs ---------------------------
(***************************************************************************)
(* What holds of the instances of the client, their check-ins and the      *)
(* metadata they share, for every number of processes, every sequence of   *)
(* publications, bundles, failures and kills.                              *)
(***************************************************************************)
EXTENDS CheckIn, FiniteSetTheorems, TLAPS

\* LockInode: open(O_CREAT) yields an inode; there is one more of them than
\* there are processes to hold one open.
LEMMA LockInodeType ==
  ASSUME TypeOK
  PROVE  LockInode \in Inode
<1> DEFINE fds == {inst[q].fd : q \in Proc}
           n == Cardinality(Proc)
<1>1. IsFiniteSet(Proc) /\ n \in Nat
  BY Zenon, CheckInAssumption, FS_CardinalityType DEF CheckInAssumption
<1>2. IsFiniteSet(fds) /\ Cardinality(fds) <= n
  <2>1. [q \in Proc |-> inst[q].fd] \in Surjection(Proc, fds)
    BY Zenon DEF Surjection
  <2> QED
    BY Zenon, <1>1, <2>1, FS_Surjection DEF ExistsSurjection
<1>3. IsFiniteSet(Inode) /\ Cardinality(Inode) = n + 1
  BY <1>1, FS_Interval DEF Inode
<1>4. Inode \ fds # {}
  <2>1. SUFFICES ASSUME Inode \subseteq fds PROVE FALSE
    BY Zenon
  <2>2. Cardinality(Inode) <= Cardinality(fds)
    BY Zenon, <1>2, <2>1, FS_Subset
  <2> QED
    BY <1>1, <1>2, <1>3, <2>2, FS_CardinalityType
<1> QED
  BY Zenon, <1>4 DEF LockInode, TypeOK

-----------------------------------------------------------------------------
(* Types. *)

\* The loop of updateMeta goes over three roles.
LEMMA RolesAreThree ==
  DOMAIN Roles = 1 .. 3 /\ Len(Roles) = 3
BY DEF Roles

Status == Errors \union {"none", "Ok", "OkCached"}

\* What updateMeta, the loop over the roles and the end of a check-in make of
\* an instance is an instance.
LEMMA HelperTypes ==
  ASSUME NEW i \in Instance
  PROVE  /\ \A err \in Errors, rollback \in BOOLEAN : UpdateFailed(i, err, rollback) \in Instance
         /\ \A status \in Status : NextRole(i, status) \in Instance
         /\ \A pc \in {"ready", "exit"} : Over(i, pc) \in Instance
<1>0. i.role \in 1 .. 3
  BY Zenon, RolesAreThree DEF Instance
<1>1. ASSUME NEW err \in Errors, NEW rollback \in BOOLEAN
      PROVE  UpdateFailed(i, err, rollback) \in Instance
  <2>0. 1 \in DOMAIN Roles
    BY RolesAreThree
  <2>1. [i EXCEPT !.status = err, !.pc = "load", !.role = 1] \in Instance
    BY <2>0, ZenonT(60) DEF Instance
  <2>2. [i EXCEPT !.status = err, !.pc = "fail"] \in Instance
    BY ZenonT(60) DEF Instance
  <2> QED BY <2>1, <2>2, Zenon DEF UpdateFailed
<1>2. ASSUME NEW status \in Status
      PROVE  NextRole(i, status) \in Instance
  <2>1. ASSUME i.role < 3
        PROVE  [i EXCEPT !.role = @ + 1] \in Instance
    <3>1. i.role + 1 \in DOMAIN Roles
      BY <1>0, <2>1, RolesAreThree
    <3> QED BY <3>1, SMTT(60) DEF Instance
  <2>2. [i EXCEPT !.pc = "search", !.status = status] \in Instance
    BY ZenonT(60) DEF Instance, Status
  <2> QED BY Zenon, <2>1, <2>2, RolesAreThree DEF NextRole
<1>3. ASSUME NEW pc \in {"ready", "exit"}
      PROVE  Over(i, pc) \in Instance
  <2>1. 1 \in DOMAIN Roles
    BY RolesAreThree
  <2> QED BY <2>1, ZenonT(60) DEF Over, Instance
<1> QED BY Zenon, <1>1, <1>2, <1>3

\* An instance stays one when a callback is counted.
LEMMA CallbackType ==
  ASSUME NEW i \in Instance, NEW cb \in Int
  PROVE  [i EXCEPT !.cb = cb] \in Instance
BY ZenonT(60) DEF Instance

\* An instance stays one when Targets are offered to it.
LEMMA OfferType ==
  ASSUME NEW i \in Instance, NEW cb \in Int, NEW offer \in SUBSET Target,
         NEW status \in Status
  PROVE  [i EXCEPT !.offer = offer, !.pc = "select", !.status = status,
                   !.cb = cb] \in Instance
BY ZenonT(60) DEF Instance, Status

\* A process that starts is an instance.
LEMMA StartType ==
  ASSUME NEW i \in Instance, NEW cmd \in AllCommands \union {"daemon", "none"},
         NEW b \in Bundle \union {NoBundle}, NEW pc \in {"open", "ready"}
  PROVE  [i EXCEPT !.cmd = cmd, !.bundle = b, !.pc = pc] \in Instance
BY ZenonT(60) DEF Instance

\* No process is an instance.
LEMMA OffType == Off \in Instance
BY RolesAreThree DEF Off, Instance

\* The Targets the metadata or a bundle offers are Targets.
LEMMA OfferTypes ==
  ASSUME NEW i \in Instance, i.meta \in Version
  PROVE  Matching(i) \subseteq Target /\ Available(i) \subseteq Target
BY Zenon DEF Matching, Available, Target

-----------------------------------------------------------------------------
(* What holds of each instance by itself.                                   *)

CallbackDue(i) ==
  \/ i.pc \in {"bundle", "fetch", "store"}
  \/ i.pc \in {"load", "search", "fail"} /\ Mode(i.cmd) # "current"
  \/ i.pc = "select" /\ ~PostAtCheckIn(i.cmd)

Updating == {"fetch", "store"}
Running == {"ready", "bundle", "fetch", "store", "load", "search", "fail",
            "select", "exit"}

Shape(i) ==
  /\ i.pc \in Running /\ TakesLock(i.cmd) => i.locked
  /\ i.pc \in {"off", "open", "lock"} => ~i.locked
  /\ i.pc \in {"off", "open", "lock", "ready", "bundle"} => i.role = 1
  /\ i.cb = IF CallbackDue(i) THEN 1 ELSE 0
  /\ i.pc \in Updating \union {"bundle"} => Mode(i.cmd) # "current"
  /\ i.pc \in Updating \union {"load"} /\ i.role > 1 => i.meta # 0
  /\ i.pc \in {"search", "select"} => i.meta # 0
  /\ i.pc = "store" => i.remote # 0
  /\ i.pc = "bundle" => i.cmd = "offline"
  /\ i.cmd = "offline" => i.bundle # NoBundle
  /\ i.cmd \in {"daemon", "check"} => i.bundle = NoBundle
  /\ i.pc = "search" => i.status \in {"Ok", "OkCached"}

Shapes == TypeOK /\ \A p \in Proc : Shape(inst[p])

\* In a step of one process the others keep their shape.
LEMMA BecomesShape ==
  ASSUME Shapes, NEW p \in Proc, NEW i \in Instance, Shape(i), Becomes(p, i)
  PROVE  inst' \in [Proc -> Instance] /\ \A q \in Proc : Shape(inst'[q])
<1>1. inst \in [Proc -> Instance] /\ inst' = [inst EXCEPT ![p] = i]
  BY Zenon DEF Shapes, TypeOK, Becomes
<1>2. \A q \in Proc : inst'[q] = IF q = p THEN i ELSE inst[q]
  BY <1>1, Zenon
<1> QED BY <1>1, <1>2, Zenon DEF Shapes

\* No process has the shape of an instance.
LEMMA OffShape == Shape(Off)
BY Zenon DEF Off, Shape, CallbackDue, Running, Updating

\* updateMeta's failure and the loop over the roles keep the shape.
LEMMA HelperShapes ==
  ASSUME NEW i \in Instance, Shape(i), i.pc \in Updating
  PROVE  /\ \A err \in Errors, rollback \in BOOLEAN : Shape(UpdateFailed(i, err, rollback))
         /\ i.meta # 0 => Shape(NextRole(i, "Ok"))
<1>1. ASSUME NEW err \in Errors, NEW rollback \in BOOLEAN
      PROVE  Shape(UpdateFailed(i, err, rollback))
  BY <1>1 DEF Shape, UpdateFailed, Instance, CallbackDue, Running, Updating
<1>2. ASSUME i.meta # 0
      PROVE  Shape(NextRole(i, "Ok"))
  BY Zenon, <1>2 DEF Shape, NextRole, Instance, CallbackDue, Running, Updating
<1> QED BY Zenon, <1>1, <1>2

\* The shapes hold initially.
LEMMA ShapesInit == Init => Shapes
<1> SUFFICES ASSUME Init PROVE Shapes
  BY Zenon
<1>1. inst \in [Proc -> Instance] /\ \A p \in Proc : Shape(inst[p])
  BY Zenon, OffType, OffShape DEF Init
<1>2. 1 \in Version /\ 0 \in 0 .. MaxFailures /\ 0 \in 0 .. MaxKills /\ 0 \in 0 .. MaxRuns
  BY CheckInAssumption DEF CheckInAssumption
<1> QED BY Zenon, <1>1, <1>2 DEF Init, Shapes, TypeOK

\* The steps of one instance.
LEMMA ShapesStep ==
  ASSUME Shapes, NEW p \in Proc, Step(p)
  PROVE  Shapes'
<1> DEFINE i == inst[p]
<1>0. i \in Instance /\ Shape(i) /\ TypeOK
  BY Zenon DEF Shapes, TypeOK
<1>1. CASE OpenLock(p)
  <2> DEFINE j == [i EXCEPT !.fd = LockInode, !.pc = "lock"]
  <2>1. LockInode \in Inode
    BY Zenon, <1>0, LockInodeType
  <2>2. j \in Instance
    BY <1>0, <2>1, ZenonT(60) DEF Instance
  <2>3. Shape(j)
    BY Zenon, <1>0, <1>1 DEF OpenLock, Shape, Instance, CallbackDue, Running, Updating
  <2>4. inst' \in [Proc -> Instance] /\ \A q \in Proc : Shape(inst'[q])
    BY <1>1, <2>2, <2>3, BecomesShape, Zenon DEF OpenLock
  <2> QED BY Zenon, <1>0, <1>1, <2>1, <2>4 DEF OpenLock, Shapes, TypeOK
<1>2. CASE TakeLock(p)
  <2> DEFINE j == [i EXCEPT !.locked = TRUE, !.pc = "ready"]
  <2>1. j \in Instance
    BY <1>0, ZenonT(60) DEF Instance
  <2>2. Shape(j)
    BY Zenon, <1>0, <1>2 DEF TakeLock, Shape, Instance, CallbackDue, Running, Updating
  <2>3. inst' \in [Proc -> Instance] /\ \A q \in Proc : Shape(inst'[q])
    BY <1>2, <2>1, <2>2, OffType, OffShape, BecomesShape, Zenon DEF TakeLock
  <2> QED BY Zenon, <1>0, <1>2, <2>3 DEF TakeLock, Shapes, TypeOK
<1>3. CASE BeginCheckIn(p)
  <2>1. i.pc = "ready" /\ i.cb \in Int /\ Mode(i.cmd) \in {"online", "local", "current"}
    BY Zenon, <1>0, <1>3 DEF BeginCheckIn, Mode, Instance
  <2>2. i.cb + 1 \in Int
    BY <2>1
  <2>3. \E j \in Instance : Shape(j) /\ Becomes(p, j)
    <3>1. CASE Mode(i.cmd) = "online"
      <4> DEFINE j == [i EXCEPT !.cb = i.cb + 1, !.pc = "fetch"]
      <4>1. j \in Instance
        BY <1>0, <2>2, ZenonT(60) DEF Instance
      <4>2. Shape(j)
        BY <1>0, <2>1, <3>1 DEF Shape, Instance, CallbackDue, Running, Updating, Mode
      <4>3. Becomes(p, j)
        BY Zenon, <1>3, <3>1 DEF BeginCheckIn
      <4> QED BY Zenon, <4>1, <4>2, <4>3
    <3>2. CASE Mode(i.cmd) = "local"
      <4> DEFINE j == [i EXCEPT !.cb = i.cb + 1, !.pc = "bundle"]
      <4>1. j \in Instance
        BY <1>0, <2>2, ZenonT(60) DEF Instance
      <4>2. Shape(j)
        BY <1>0, <2>1, <3>2 DEF Shape, Instance, CallbackDue, Running, Updating, Mode
      <4>3. Becomes(p, j)
        BY Zenon, <1>3, <3>2 DEF BeginCheckIn
      <4> QED BY Zenon, <4>1, <4>2, <4>3
    <3>3. CASE Mode(i.cmd) = "current"
      <4> DEFINE j == [i EXCEPT !.pc = "load"]
      <4>1. j \in Instance
        BY <1>0, ZenonT(60) DEF Instance
      <4>2. Shape(j)
        BY <1>0, <2>1, <3>3 DEF Shape, Instance, CallbackDue, Running, Updating
      <4>3. Becomes(p, j)
        BY Zenon, <1>3, <3>3 DEF BeginCheckIn
      <4> QED BY Zenon, <4>1, <4>2, <4>3
    <3> QED BY Zenon, <2>1, <3>1, <3>2, <3>3
  <2>4. inst' \in [Proc -> Instance] /\ \A q \in Proc : Shape(inst'[q])
    BY Zenon, <2>3, BecomesShape
  <2> QED BY Zenon, <1>0, <1>3, <2>4 DEF BeginCheckIn, OnlyInstance, Shapes, TypeOK
<1>4. CASE CheckBundle(p)
  <2>1. i.pc = "bundle" /\ i.cmd = "offline" /\ Mode(i.cmd) = "local"
    BY Zenon, <1>0, <1>4 DEF CheckBundle, Shape, Mode
  <2> DEFINE bad == [i EXCEPT !.status = "BundleMetadataError", !.pc = "fail"]
             good == [i EXCEPT !.pc = "fetch"]
  <2>2. bad \in Instance
    BY <1>0, ZenonT(60) DEF Instance, Errors
  <2>3. good \in Instance
    BY <1>0, ZenonT(60) DEF Instance
  <2>4. Shape(bad)
    BY Zenon, <1>0, <2>1 DEF Shape, Instance, CallbackDue, Running, Updating
  <2>5. Shape(good)
    BY <1>0, <2>1 DEF Shape, Instance, CallbackDue, Running, Updating
  <2>6. \E j \in Instance : Shape(j) /\ Becomes(p, j)
    BY <1>4, <2>2, <2>3, <2>4, <2>5, Zenon DEF CheckBundle
  <2>7. inst' \in [Proc -> Instance] /\ \A q \in Proc : Shape(inst'[q])
    BY Zenon, <2>6, BecomesShape
  <2> QED BY Zenon, <1>0, <1>4, <2>7 DEF CheckBundle, OnlyInstance, Shapes, TypeOK
<1>5. CASE FetchRole(p)
  <2>1. i.pc = "fetch" /\ Mode(i.cmd) # "current"
    BY Zenon, <1>0, <1>5 DEF FetchRole, Shape, Updating
  <2>2. failures' \in 0 .. MaxFailures
    <3>1. MaxFailures \in Nat /\ failures \in 0 .. MaxFailures
      BY Zenon, <1>0, CheckInAssumption DEF TypeOK, CheckInAssumption
    <3>2. failures' = failures \/ (failures < MaxFailures /\ failures' = failures + 1)
      BY <1>5, Zenon DEF FetchRole
    <3> QED BY <3>1, <3>2
  <2>3. ASSUME IsStored(i), Becomes(p, NextRole(i, "Ok"))
        PROVE  \E j \in Instance : Shape(j) /\ Becomes(p, j)
    <3>1. i.meta # 0
      BY Zenon, <1>0, <2>1, <2>3 DEF IsStored, Shape, Updating
    <3> QED BY Zenon, <1>0, <2>1, <2>3, <3>1, HelperShapes, HelperTypes DEF Updating, Status
  <2>4. ASSUME Becomes(p, [i EXCEPT !.remote = Source(i), !.pc = "store"])
        PROVE  \E j \in Instance : Shape(j) /\ Becomes(p, j)
    <3> DEFINE j == [i EXCEPT !.remote = Source(i), !.pc = "store"]
    <3>1. Source(i) \in Version /\ Source(i) # 0
      <4>1. i.bundle \in Bundle \union {NoBundle}
        BY Zenon, <1>0 DEF Instance
      <4>2. i.bundle # NoBundle => i.bundle.version \in Version
        BY Zenon, <4>1, CheckInAssumption DEF CheckInAssumption
      <4> QED BY <1>0, <4>2, CheckInAssumption DEF Source, TypeOK, CheckInAssumption
    <3>2. j \in Instance
      BY <1>0, <3>1, ZenonT(60) DEF Instance
    <3>3. Shape(j)
      BY Zenon, <1>0, <2>1, <3>1 DEF Shape, Instance, CallbackDue, Running, Updating
    <3> QED BY Zenon, <2>4, <3>2, <3>3
  <2>5. ASSUME NEW err \in {"MetadataFetchFailure", "MetadataNotFound"},
               Becomes(p, UpdateFailed(i, err, FALSE))
        PROVE  \E j \in Instance : Shape(j) /\ Becomes(p, j)
    <3>1. err \in Errors
      BY Zenon, <2>5 DEF Errors
    <3> QED BY Zenon, <1>0, <2>1, <2>5, <3>1, HelperShapes, HelperTypes DEF Updating
  <2>6. \E j \in Instance : Shape(j) /\ Becomes(p, j)
    BY Zenon, <1>5, <2>3, <2>4, <2>5 DEF FetchRole
  <2>7. inst' \in [Proc -> Instance] /\ \A q \in Proc : Shape(inst'[q])
    BY Zenon, <2>6, BecomesShape
  <2> QED BY Zenon, <1>0, <1>5, <2>2, <2>7 DEF FetchRole, OnlyInstance, Shapes, TypeOK
<1>6. CASE StoreRole(p)
  <2> DEFINE role == Roles[i.role]
             matches == i.role = 1 \/ i.remote = i.meta
             older == i.remote < stored[role]
             seen == [i EXCEPT !.remote = 0]
             kept == [i EXCEPT !.meta = i.remote, !.remote = 0, !.pc = "fetch"]
  <2>1. /\ i.pc = "store" /\ i.remote # 0 /\ i.remote \in Version
        /\ Mode(i.cmd) # "current" /\ role \in DOMAIN stored
    BY <1>0, <1>6 DEF StoreRole, Shape, Updating, Instance, Roles, TypeOK
  <2>2. seen \in Instance /\ kept \in Instance
    <3>1. seen \in Instance
      BY <1>0, ZenonT(60) DEF Instance
    <3>2. kept \in Instance
      BY <1>0, <2>1, ZenonT(60) DEF Instance
    <3> QED BY Zenon, <3>1, <3>2
  <2>3. CASE ~matches \/ older
    <3> DEFINE j == UpdateFailed(seen, "SecurityError", matches)
    <3>1. j \in Instance
      BY Zenon, <2>2, HelperTypes DEF Errors
    <3>2. Shape(j)
      BY <1>0, <2>1 DEF Shape, Instance, CallbackDue, Running, Updating, UpdateFailed
    <3>3. Becomes(p, j) /\ UNCHANGED stored
      BY Zenon, <1>6, <2>3 DEF StoreRole
    <3>4. inst' \in [Proc -> Instance] /\ \A q \in Proc : Shape(inst'[q])
      BY Zenon, <3>1, <3>2, <3>3, BecomesShape
    <3> QED BY Zenon, <1>0, <1>6, <3>3, <3>4 DEF StoreRole, Shapes, TypeOK
  <2>4. CASE ~(~matches \/ older)
    <3> DEFINE j == NextRole(kept, "Ok")
    <3>1. Shape(kept) /\ kept.pc = "fetch" /\ kept.meta # 0
      BY Zenon, <1>0, <2>1 DEF Shape, Instance, CallbackDue, Running, Updating
    <3>2. j \in Instance /\ Shape(j)
      BY Zenon, <2>2, <3>1, HelperTypes, HelperShapes DEF Updating, Status
    <3>3. Becomes(p, j) /\ stored' = [stored EXCEPT ![role] = i.remote]
      BY Zenon, <1>6, <2>4 DEF StoreRole
    <3>4. inst' \in [Proc -> Instance] /\ \A q \in Proc : Shape(inst'[q])
      BY Zenon, <3>2, <3>3, BecomesShape
    <3>5. stored' \in [{"timestamp", "snapshot", "targets"} -> Version \union {0}]
      BY Zenon, <1>0, <2>1, <3>3 DEF TypeOK
    <3> QED BY Zenon, <1>0, <1>6, <3>4, <3>5 DEF StoreRole, Shapes, TypeOK
  <2> QED BY Zenon, <2>3, <2>4
<1>7. CASE LoadRole(p)
  <2> DEFINE version == stored[Roles[i.role]]
             valid == IF i.role = 1 THEN version # 0 ELSE version = i.meta
             read == [i EXCEPT !.meta = version]
  <2>1. i.pc = "load" /\ version \in Version \union {0}
    <3>1. i.pc = "load" /\ i.role \in DOMAIN Roles
      BY Zenon, <1>0, <1>7 DEF LoadRole, Instance
    <3>2. \A r \in DOMAIN Roles : Roles[r] \in {"timestamp", "snapshot", "targets"}
      BY DEF Roles
    <3>3. Roles[i.role] \in {"timestamp", "snapshot", "targets"}
      BY Zenon, <3>1, <3>2
    <3> QED BY Zenon, <1>0, <3>1, <3>3 DEF TypeOK
  <2>2. \E j \in Instance : Shape(j) /\ Becomes(p, j)
    <3>1. CASE valid
      <4> DEFINE j == NextRole(read, "OkCached")
      <4>1. read \in Instance
        BY <1>0, <2>1, ZenonT(60) DEF Instance
      <4>2. j \in Instance
        BY Zenon, <4>1, HelperTypes DEF Status
      <4>3. version # 0
        <5>1. i.role \in 1 .. 3
          BY Zenon, <1>0, RolesAreThree DEF Instance
        <5>2. i.role > 1 => i.meta # 0
          BY Zenon, <1>0, <2>1 DEF Shape
        <5> QED BY <3>1, <5>1, <5>2
      <4>4. Shape(j)
        <5> DEFINE next == [read EXCEPT !.role = @ + 1]
                   last == [read EXCEPT !.pc = "search", !.status = "OkCached"]
        <5>1. /\ next.pc = "load" /\ next.meta = version /\ next.cb = i.cb
              /\ next.cmd = i.cmd /\ next.bundle = i.bundle
              /\ next.locked <=> i.locked
          BY Zenon, <1>0, <2>1 DEF Instance
        <5>2. /\ last.pc = "search" /\ last.meta = version /\ last.cb = i.cb
              /\ last.cmd = i.cmd /\ last.bundle = i.bundle
              /\ last.status = "OkCached"
              /\ last.locked <=> i.locked
          BY Zenon, <1>0 DEF Instance
        <5>3. j = next \/ j = last
          BY Zenon DEF NextRole
        <5> HIDE DEF next, last, j
        <5>4. Shape(next)
          BY Zenon, <1>0, <2>1, <4>3, <5>1 DEF Shape, CallbackDue, Running, Updating
        <5>5. Shape(last)
          BY Zenon, <1>0, <2>1, <4>3, <5>2 DEF Shape, CallbackDue, Running, Updating
        <5> QED BY Zenon, <5>3, <5>4, <5>5
      <4>5. Becomes(p, j)
        BY Zenon, <1>7, <3>1 DEF LoadRole
      <4> QED BY Zenon, <4>2, <4>4, <4>5
    <3>2. CASE ~valid /\ Mode(i.cmd) = "current"
      <4> DEFINE j == [i EXCEPT !.status = "SecurityError", !.pc = "fail"]
      <4>1. j \in Instance
        BY <1>0, ZenonT(60) DEF Instance, Errors
      <4>2. Shape(j)
        BY Zenon, <1>0, <2>1 DEF Shape, Instance, CallbackDue, Running, Updating
      <4>3. Becomes(p, j)
        BY Zenon, <1>7, <3>2 DEF LoadRole
      <4> QED BY Zenon, <4>1, <4>2, <4>3
    <3>3. CASE ~valid /\ Mode(i.cmd) # "current"
      <4> DEFINE j == [i EXCEPT !.pc = "fail"]
      <4>1. j \in Instance
        BY <1>0, ZenonT(60) DEF Instance
      <4>2. Shape(j)
        BY Zenon, <1>0, <2>1 DEF Shape, Instance, CallbackDue, Running, Updating
      <4>3. Becomes(p, j)
        BY Zenon, <1>7, <3>3 DEF LoadRole
      <4> QED BY Zenon, <4>1, <4>2, <4>3
    <3> QED BY Zenon, <3>1, <3>2, <3>3
  <2>3. inst' \in [Proc -> Instance] /\ \A q \in Proc : Shape(inst'[q])
    BY Zenon, <2>2, BecomesShape
  <2> QED BY Zenon, <1>0, <1>7, <2>3 DEF LoadRole, OnlyInstance, Shapes, TypeOK
<1>8. CASE Search(p)
  <2> DEFINE post == Mode(i.cmd) # "current" /\ PostAtCheckIn(i.cmd)
             status == IF Mode(i.cmd) = "online" THEN "Ok" ELSE i.status
             cb == IF post THEN i.cb - 1 ELSE i.cb
  <2>1. i.pc = "search" /\ i.meta \in Version /\ i.meta # 0
    BY Zenon, <1>0, <1>8 DEF Search, Shape, Instance
  <2>2. \E j \in Instance : Shape(j) /\ Becomes(p, j)
    <3>1. ASSUME NEW err \in Errors, Becomes(p, [i EXCEPT !.status = err, !.pc = "fail"])
          PROVE  \E j \in Instance : Shape(j) /\ Becomes(p, j)
      <4> DEFINE j == [i EXCEPT !.status = err, !.pc = "fail"]
      <4>1. j \in Instance
        BY <1>0, ZenonT(60) DEF Instance
      <4>2. Shape(j)
        BY Zenon, <1>0, <2>1 DEF Shape, Instance, CallbackDue, Running, Updating
      <4> QED BY Zenon, <3>1, <4>1, <4>2
    <3>2. CASE Matching(i) # {} /\ Available(i) # {}
      <4> DEFINE j == [i EXCEPT !.offer = Available(i), !.pc = "select",
                                !.status = status, !.cb = cb]
      <4>1. Available(i) \subseteq Target
        BY Zenon, <1>0, <2>1, OfferTypes
      <4>2. cb \in Int /\ i.cb \in Int
        BY <1>0 DEF Instance
      <4>3. status \in Errors \union {"none", "Ok", "OkCached"}
        BY Zenon, <1>0 DEF Instance
      <4>4. j \in Instance
        BY Zenon, <1>0, <4>1, <4>2, <4>3, OfferType DEF Status
      <4>5. j.pc = "select" /\ j.cb = cb /\ j.cmd = i.cmd /\ j.meta = i.meta
            /\ j.bundle = i.bundle /\ j.locked = i.locked
        BY Zenon, <1>0 DEF Instance
      <4>6. cb = IF PostAtCheckIn(i.cmd) THEN 0 ELSE 1
        BY <1>0, <2>1, <4>2 DEF Shape, CallbackDue, PostAtCheckIn, Mode
      <4>7. Shape(j)
        BY Zenon, <1>0, <2>1, <4>5, <4>6 DEF Shape, CallbackDue, Running, Updating
      <4>8. Becomes(p, j)
        BY Zenon, <1>8, <3>2 DEF Search
      <4> QED BY Zenon, <4>4, <4>7, <4>8
    <3>3. CASE Matching(i) = {}
      BY Zenon, <1>8, <3>1, <3>3 DEF Search, Errors
    <3>4. CASE Matching(i) # {} /\ Available(i) = {}
      BY Zenon, <1>8, <3>1, <3>4 DEF Search, Errors
    <3> QED BY Zenon, <3>2, <3>3, <3>4
  <2>3. inst' \in [Proc -> Instance] /\ \A q \in Proc : Shape(inst'[q])
    BY Zenon, <2>2, BecomesShape
  <2> QED BY Zenon, <1>0, <1>8, <2>3 DEF Search, OnlyInstance, Shapes, TypeOK
<1>9. CASE Fail(p)
  <2> DEFINE done == [i EXCEPT !.cb = IF Mode(i.cmd) = "current" THEN i.cb ELSE i.cb - 1]
             pc == IF p = Daemon THEN "ready" ELSE "exit"
             j == Over(done, pc)
  <2>1. i.pc = "fail" /\ i.cb \in Int
    BY Zenon, <1>0, <1>9 DEF Fail, Instance
  <2>2. done \in Instance
    BY <1>0, <2>1, CallbackType
  <2>3. j \in Instance
    BY Zenon, <2>2, HelperTypes
  <2>4. done.cb = 0
    BY <1>0, <2>1 DEF Shape, CallbackDue, Instance
  <2>5. /\ j.pc = pc /\ j.cb = 0 /\ j.role = 1 /\ j.cmd = i.cmd
        /\ j.locked = i.locked /\ j.bundle = i.bundle
    BY Zenon, <1>0, <2>4 DEF Over, Instance
  <2>6. Shape(j)
    BY Zenon, <1>0, <2>1, <2>5 DEF Shape, CallbackDue, Running, Updating
  <2>7. Becomes(p, j)
    BY Zenon, <1>9 DEF Fail
  <2>8. \E k \in Instance : Shape(k) /\ Becomes(p, k)
    BY Zenon, <2>3, <2>6, <2>7
  <2>9. inst' \in [Proc -> Instance] /\ \A q \in Proc : Shape(inst'[q])
    BY Zenon, <2>8, BecomesShape
  <2> QED BY Zenon, <1>0, <1>9, <2>9 DEF Fail, OnlyInstance, Shapes, TypeOK
<1>10. CASE Select(p)
  <2> DEFINE done == [i EXCEPT !.cb = IF PostAtCheckIn(i.cmd) THEN i.cb ELSE i.cb - 1]
  <2>1. i.pc = "select" /\ i.cb \in Int
    BY Zenon, <1>0, <1>10 DEF Select, Instance
  <2>2. done \in Instance
    BY <1>0, <2>1, CallbackType
  <2>3. done.cb = 0
    BY <1>0, <2>1 DEF Shape, CallbackDue, Instance
  <2>4. PICK pc \in {"ready", "exit"} : Becomes(p, Over(done, pc))
    BY Zenon, <1>10 DEF Select
  <2> DEFINE j == Over(done, pc)
  <2>5. j \in Instance
    BY Zenon, <2>2, HelperTypes
  <2>6. /\ j.pc = pc /\ j.cb = 0 /\ j.role = 1 /\ j.cmd = i.cmd
        /\ j.locked = i.locked /\ j.bundle = i.bundle
    BY Zenon, <1>0, <2>3 DEF Over, Instance
  <2>7. Shape(j)
    BY Zenon, <1>0, <2>1, <2>6 DEF Shape, CallbackDue, Running, Updating
  <2>8. \E k \in Instance : Shape(k) /\ Becomes(p, k)
    BY Zenon, <2>4, <2>5, <2>7
  <2>9. inst' \in [Proc -> Instance] /\ \A q \in Proc : Shape(inst'[q])
    BY Zenon, <2>8, BecomesShape
  <2> QED BY Zenon, <1>0, <1>10, <2>9 DEF Select, OnlyInstance, Shapes, TypeOK
<1>11. CASE Unlink(p)
  <2> DEFINE j == [i EXCEPT !.pc = "closing"]
  <2>1. j \in Instance
    BY <1>0, ZenonT(60) DEF Instance
  <2>2. Shape(j)
    BY Zenon, <1>0, <1>11 DEF Unlink, Shape, Instance, CallbackDue, Running, Updating
  <2>3. inst' \in [Proc -> Instance] /\ \A q \in Proc : Shape(inst'[q])
    BY Zenon, <1>11, <2>1, <2>2, BecomesShape DEF Unlink
  <2> QED BY Zenon, <1>0, <1>11, <2>3 DEF Unlink, Shapes, TypeOK
<1>12. CASE Close(p)
  <2>1. inst' \in [Proc -> Instance] /\ \A q \in Proc : Shape(inst'[q])
    BY Zenon, <1>12, OffType, OffShape, BecomesShape DEF Close
  <2> QED BY Zenon, <1>0, <1>12, <2>1 DEF Close, OnlyInstance, Shapes, TypeOK
<1> QED
  BY Zenon, <1>1, <1>2, <1>3, <1>4, <1>5, <1>6, <1>7, <1>8, <1>9, <1>10, <1>11, <1>12
     DEF Step

\* Every step keeps the shapes.
LEMMA ShapesNext == Shapes /\ [Next]_vars => Shapes'
<1> SUFFICES ASSUME Shapes, [Next]_vars PROVE Shapes'
  BY Zenon
<1>0. TypeOK /\ {MaxFailures, MaxKills, MaxRuns} \subseteq Nat
  BY Zenon, CheckInAssumption DEF Shapes, CheckInAssumption
<1>1. ASSUME NEW p \in Proc, NEW cmd \in AllCommands \union {"daemon"},
             NEW b \in Bundle \union {NoBundle}, Start(p, cmd, b),
             cmd = "offline" => b # NoBundle,
             cmd \in {"daemon", "check"} => b = NoBundle
      PROVE  inst' \in [Proc -> Instance] /\ \A q \in Proc : Shape(inst'[q])
  <2> DEFINE j == [Off EXCEPT !.cmd = cmd, !.bundle = b,
                              !.pc = IF TakesLock(cmd) THEN "open" ELSE "ready"]
  <2>1. j \in Instance
    BY Zenon, OffType, StartType
  <2>2. Shape(j)
    BY Zenon, <1>1 DEF Off, Shape, CallbackDue, Running, Updating, TakesLock
  <2> QED BY Zenon, <1>1, <2>1, <2>2, BecomesShape DEF Start
<1>2. CASE StartDaemon
  <2>1. inst' \in [Proc -> Instance] /\ \A q \in Proc : Shape(inst'[q])
    BY Zenon, <1>1, <1>2, CheckInAssumption DEF StartDaemon, CheckInAssumption
  <2> QED BY Zenon, <1>0, <1>2, <2>1 DEF StartDaemon, Start, Shapes, TypeOK
<1>3. ASSUME NEW p \in Proc, StartCommand(p) PROVE Shapes'
  <2>1. inst' \in [Proc -> Instance] /\ \A q \in Proc : Shape(inst'[q])
    <3>1. PICK cmd \in Commands, b \in Bundle \union {NoBundle} :
            /\ cmd = "offline" => b # NoBundle
            /\ cmd \in {"check", "list"} => b = NoBundle
            /\ Start(p, cmd, b)
      BY <1>3, Zenon DEF StartCommand
    <3>2. cmd \in AllCommands /\ cmd # "daemon"
      BY Zenon, CheckInAssumption DEF CheckInAssumption, AllCommands
    <3> QED BY Zenon, <1>1, <3>1, <3>2
  <2>2. runs' \in 0 .. MaxRuns
    BY <1>0, <1>3 DEF StartCommand, TypeOK
  <2> QED BY Zenon, <1>0, <1>3, <2>1, <2>2 DEF StartCommand, Start, Shapes, TypeOK
<1>4. ASSUME NEW p \in Proc, Kill(p) PROVE Shapes'
  <2>1. inst' \in [Proc -> Instance] /\ \A q \in Proc : Shape(inst'[q])
    BY Zenon, <1>4, OffType, OffShape, BecomesShape DEF Kill
  <2>2. kills' \in 0 .. MaxKills
    BY <1>0, <1>4 DEF Kill, TypeOK
  <2> QED BY Zenon, <1>0, <1>4, <2>1, <2>2 DEF Kill, Shapes, TypeOK
<1>5. CASE Reboot
  <2>1. inst' \in [Proc -> Instance] /\ \A q \in Proc : Shape(inst'[q])
    BY Zenon, <1>5, OffType, OffShape DEF Reboot
  <2>2. kills' \in 0 .. MaxKills
    BY <1>0, <1>5 DEF Reboot, TypeOK
  <2> QED BY Zenon, <1>0, <1>5, <2>1, <2>2 DEF Reboot, Shapes, TypeOK
<1>6. CASE Publish
  BY Zenon, <1>0, <1>6 DEF Publish, Shapes, TypeOK
<1>7. CASE UNCHANGED vars
  BY Zenon, <1>7 DEF vars, Shapes, TypeOK
<1> QED
  BY Zenon, <1>2, <1>3, <1>4, <1>5, <1>6, <1>7, ShapesStep DEF Next

\* The shapes hold in every reachable state.
LEMMA ShapesHold == Spec => []Shapes
BY ShapesInit, ShapesNext, PTL DEF Spec

\* TypeOK: every variable keeps its type.  open(O_CREAT) always finds an inode
\* and the loop over the roles never runs past the last one.
THEOREM TypesAreKept == Spec => []TypeOK
<1>1. Shapes => TypeOK
  BY Zenon DEF Shapes
<1> QED BY <1>1, ShapesHold, PTL

\* CallbacksPaired: notifyTufUpdateStarted and notifyTufUpdateFinished are
\* called in turn in every instance, on every path through a check-in.
THEOREM CallbacksArePaired == Spec => []CallbacksPaired
<1>1. Shapes => CallbacksPaired
  BY Zenon DEF Shapes, Shape, CallbackDue, CallbacksPaired
<1> QED BY <1>1, ShapesHold, PTL

-----------------------------------------------------------------------------
(* The lock.                                                                *)

\* The instance relies on the file at the lock's path.
Relies(i) == i.pc = "lock" \/ (i.pc \in Running /\ i.locked)

\* While the path has not been unlinked under an instance, all that rely on
\* it have the same file open; and flock has granted a file once.
LockInv ==
  /\ \A p \in Proc : Relies(inst[p]) => inst[p].fd # 0
  /\ ~lockLost => \A p \in Proc : Relies(inst[p]) => inst[p].fd = file
  /\ \A p, q \in Proc : inst[p].locked /\ inst[q].locked /\ inst[p].fd = inst[q].fd => p = q

\* LockInv holds initially.
LEMMA LockInit == Init => LockInv
BY DEF Init, LockInv, Off, Relies, Running

\* A step of an instance changes no other one.
LEMMA BecomesOnly ==
  ASSUME Shapes, NEW p \in Proc, NEW j, Becomes(p, j)
  PROVE  inst'[p] = j /\ \A q \in Proc : q # p => inst'[q] = inst[q]
BY Zenon DEF Shapes, TypeOK, Becomes

\* A check-in goes on in the same instance and leaves the lock alone.
InCheckIn(p) ==
  /\ inst[p].pc \in Running /\ inst'[p].pc \in Running
  /\ inst'[p].cmd = inst[p].cmd /\ inst'[p].bundle = inst[p].bundle
  /\ inst'[p].fd = inst[p].fd /\ (inst'[p].locked <=> inst[p].locked)
  /\ \A q \in Proc : q # p => inst'[q] = inst[q]
  /\ UNCHANGED <<file, lockLost>>

\* The steps of a check-in are such steps.
LEMMA CheckInSteps ==
  ASSUME Shapes, NEW p \in Proc,
         \/ BeginCheckIn(p) \/ CheckBundle(p) \/ FetchRole(p) \/ StoreRole(p)
         \/ LoadRole(p) \/ Search(p) \/ Fail(p) \/ Select(p)
  PROVE  InCheckIn(p)
<1> DEFINE i == inst[p]
           Same(j) == /\ j.pc \in Running /\ j.cmd = i.cmd /\ j.bundle = i.bundle
                      /\ j.fd = i.fd /\ (j.locked <=> i.locked)
<1>0. i \in Instance
  BY Zenon DEF Shapes, TypeOK
<1>1. ASSUME NEW j, Becomes(p, j), Same(j), i.pc \in Running,
             UNCHANGED <<file, lockLost>>
      PROVE  InCheckIn(p)
  BY Zenon, <1>1, BecomesOnly DEF InCheckIn
<1>2. CASE BeginCheckIn(p)
  BY Zenon, <1>0, <1>1, <1>2 DEF BeginCheckIn, OnlyInstance, Instance, Running, Mode
<1>3. CASE CheckBundle(p)
  BY Zenon, <1>0, <1>1, <1>3 DEF CheckBundle, OnlyInstance, Instance, Running
<1>4. CASE FetchRole(p)
  BY Zenon, <1>0, <1>1, <1>4 DEF FetchRole, OnlyInstance, Instance, Running, NextRole, UpdateFailed
<1>5. CASE StoreRole(p)
  BY Zenon, <1>0, <1>1, <1>5 DEF StoreRole, Instance, Running, NextRole, UpdateFailed
<1>6. CASE LoadRole(p)
  BY Zenon, <1>0, <1>1, <1>6 DEF LoadRole, OnlyInstance, Instance, Running, NextRole
<1>7. CASE Search(p)
  <2> DEFINE none == [i EXCEPT !.status = "NoMatchingTargets", !.pc = "fail"]
             lacks == [i EXCEPT !.status = "NoTargetContent", !.pc = "fail"]
             post == Mode(i.cmd) # "current" /\ PostAtCheckIn(i.cmd)
             offers == [i EXCEPT !.offer = Available(i), !.pc = "select",
                                 !.status = IF Mode(i.cmd) = "online" THEN "Ok" ELSE @,
                                 !.cb = IF post THEN @ - 1 ELSE @]
  <2>1. Becomes(p, none) \/ Becomes(p, lacks) \/ Becomes(p, offers)
    BY Zenon, <1>7 DEF Search
  <2>2. Same(none) /\ Same(lacks)
    BY Zenon, <1>0 DEF Instance, Running
  <2>3. Same(offers)
    BY Zenon, <1>0 DEF Instance, Running
  <2>4. i.pc \in Running /\ UNCHANGED <<file, lockLost>>
    BY Zenon, <1>7 DEF Search, OnlyInstance, Running
  <2> HIDE DEF none, lacks, offers, Same
  <2> QED BY Zenon, <1>1, <2>1, <2>2, <2>3, <2>4
<1>8. CASE Fail(p)
  BY Zenon, <1>0, <1>1, <1>8 DEF Fail, OnlyInstance, Instance, Running, Over
<1>9. CASE Select(p)
  BY Zenon, <1>0, <1>1, <1>9 DEF Select, OnlyInstance, Instance, Running, Over
<1> QED BY Zenon, <1>2, <1>3, <1>4, <1>5, <1>6, <1>7, <1>8, <1>9

\* Every step keeps LockInv.
LEMMA LockNext == Shapes /\ Shapes' /\ LockInv /\ [Next]_vars => LockInv'
<1> SUFFICES ASSUME Shapes, Shapes', LockInv, [Next]_vars PROVE LockInv'
  BY Zenon
<1>0. TypeOK /\ TypeOK' /\ \A p \in Proc : Shape(inst[p])
  BY Zenon DEF Shapes
<1>1. ASSUME NEW p \in Proc, InCheckIn(p) PROVE LockInv'
  <2>1. \A q \in Proc : /\ inst'[q].fd = inst[q].fd
                        /\ inst'[q].locked <=> inst[q].locked
                        /\ Relies(inst'[q]) => Relies(inst[q])
    <3> SUFFICES ASSUME NEW q \in Proc
                 PROVE  /\ inst'[q].fd = inst[q].fd
                        /\ inst'[q].locked <=> inst[q].locked
                        /\ Relies(inst'[q]) => Relies(inst[q])
      BY Zenon
    <3>1. CASE q = p
      BY <1>1, <3>1, Zenon DEF InCheckIn, Relies, Running
    <3>2. CASE q # p
      BY <1>1, <3>2, Zenon DEF InCheckIn
    <3> QED BY Zenon, <3>1, <3>2
  <2>2. UNCHANGED <<file, lockLost>>
    BY Zenon, <1>1 DEF InCheckIn
  <2>3. \A q \in Proc : /\ Relies(inst'[q]) => inst'[q].fd # 0
                        /\ ~lockLost' /\ Relies(inst'[q]) => inst'[q].fd = file'
    BY <2>1, <2>2, Zenon DEF LockInv
  <2>4. \A q, r \in Proc :
          inst'[q].locked /\ inst'[r].locked /\ inst'[q].fd = inst'[r].fd => q = r
    BY <2>1, Zenon DEF LockInv
  <2> QED BY <2>3, <2>4, Zenon DEF LockInv
<1>2. ASSUME NEW p \in Proc, NEW j, Becomes(p, j), ~j.locked, ~Relies(j),
             UNCHANGED <<file, lockLost>>
      PROVE  LockInv'
  BY <1>2, BecomesOnly DEF LockInv
<1>3. ~Off.locked /\ ~Relies(Off)
  BY Zenon DEF Off, Relies, Running
<1>4. ASSUME NEW p \in Proc, NEW cmd, NEW b, Start(p, cmd, b) PROVE LockInv'
  <2> DEFINE j == [Off EXCEPT !.cmd = cmd, !.bundle = b,
                              !.pc = IF TakesLock(cmd) THEN "open" ELSE "ready"]
  <2>1. ~j.locked /\ ~Relies(j)
    BY Zenon DEF Off, Relies, Running
  <2> QED BY Zenon, <1>2, <1>4, <2>1 DEF Start
<1>5. ASSUME NEW p \in Proc, OpenLock(p) PROVE LockInv'
  <2> DEFINE j == [inst[p] EXCEPT !.fd = LockInode, !.pc = "lock"]
  <2>1. LockInode \in Inode /\ LockInode # 0
    BY <1>0, LockInodeType DEF Inode
  <2>2. j.fd = LockInode /\ ~j.locked
    BY <1>0, <1>5 DEF OpenLock, Shape, TypeOK, Instance
  <2>3. Becomes(p, j) /\ file' = LockInode /\ UNCHANGED lockLost
    BY Zenon, <1>5 DEF OpenLock
  <2>4. file # 0 => LockInode = file
    BY Zenon DEF LockInode
  <2>5. /\ inst'[p].fd = file' /\ file' # 0 /\ ~inst'[p].locked
        /\ \A q \in Proc : q # p => inst'[q] = inst[q]
    BY Zenon, <2>1, <2>2, <2>3, BecomesOnly
  <2>6. \A q \in Proc : ~lockLost /\ Relies(inst[q]) => inst[q].fd = file'
    BY Zenon, <2>3, <2>4 DEF LockInv
  <2> QED BY Zenon, <2>3, <2>5, <2>6 DEF LockInv
<1>6. ASSUME NEW p \in Proc, TakeLock(p) PROVE LockInv'
  <2> DEFINE j == [inst[p] EXCEPT !.locked = TRUE, !.pc = "ready"]
  <2>1. CASE LockIsHeld(p)
    BY Zenon, <1>2, <1>3, <1>6, <2>1 DEF TakeLock
  <2>2. CASE ~LockIsHeld(p)
    <3>1. j.fd = inst[p].fd /\ Relies(inst[p])
      BY Zenon, <1>0, <1>6 DEF TakeLock, TypeOK, Instance, Relies
    <3>2. Becomes(p, j) /\ UNCHANGED <<file, lockLost>>
      BY Zenon, <1>6, <2>2 DEF TakeLock
    <3>3. \A q \in Proc \ {p} : ~(inst[q].locked /\ inst[q].fd = inst[p].fd)
      BY Zenon, <2>2 DEF LockIsHeld
    <3>4. /\ inst'[p].fd = inst[p].fd
          /\ \A q \in Proc : q # p => inst'[q] = inst[q]
      BY Zenon, <3>1, <3>2, BecomesOnly
    <3> QED BY ZenonT(30), <3>1, <3>2, <3>3, <3>4 DEF LockInv
  <2> QED BY Zenon, <2>1, <2>2
<1>7. ASSUME NEW p \in Proc, Unlink(p) PROVE LockInv'
  <2> DEFINE j == [inst[p] EXCEPT !.pc = "closing"]
  <2>1. j.fd = inst[p].fd /\ j.locked = inst[p].locked /\ ~Relies(j)
    BY <1>0 DEF TypeOK, Instance, Relies, Running
  <2>2. Becomes(p, j)
    BY Zenon, <1>7 DEF Unlink
  <2>3. ~lockLost' => ~lockLost /\ \A q \in Proc \ {p} : ~Relies(inst[q])
    BY Zenon, <1>7 DEF Unlink, LockInv
  <2>4. /\ inst'[p].fd = inst[p].fd /\ inst'[p].locked = inst[p].locked
        /\ ~Relies(inst'[p])
        /\ \A q \in Proc : q # p => inst'[q] = inst[q]
    BY Zenon, <2>1, <2>2, BecomesOnly
  <2> QED BY ZenonT(30), <2>3, <2>4 DEF LockInv
<1>8. ASSUME NEW p \in Proc, Close(p) PROVE LockInv'
  BY Zenon, <1>2, <1>3, <1>8 DEF Close, OnlyInstance
<1>9. ASSUME NEW p \in Proc, Kill(p) PROVE LockInv'
  BY Zenon, <1>2, <1>3, <1>9 DEF Kill
<1>10. CASE Reboot
  BY Zenon, <1>3, <1>10 DEF Reboot, LockInv
<1>11. CASE Publish
  BY Zenon, <1>11 DEF Publish, LockInv
<1>12. CASE UNCHANGED vars
  BY Zenon, <1>12 DEF vars, LockInv
<1>13. ASSUME NEW p \in Proc, Step(p) PROVE LockInv'
  BY <1>1, <1>5, <1>6, <1>7, <1>8, <1>13, CheckInSteps, Zenon DEF Step
<1>14. CASE StartDaemon
  BY Zenon, <1>4, <1>14, CheckInAssumption DEF StartDaemon, CheckInAssumption
<1>15. ASSUME NEW p \in Proc, StartCommand(p) PROVE LockInv'
  BY <1>4, <1>15, Zenon DEF StartCommand
<1> QED BY Zenon, <1>9, <1>10, <1>11, <1>12, <1>13, <1>14, <1>15 DEF Next

\* LockInv holds in every reachable state.
LEMMA LockHolds == Spec => []LockInv
BY ShapesHold, LockInit, LockNext, PTL DEF Spec

\* OneUpdater: assert_lock keeps the instances that may change the device
\* apart, for any number of them, through kills, restarts and reboots, until
\* a destructor unlinks the path under one of them.
THEOREM LockKeepsApart == Spec => []OneUpdater
<1>1. Shapes /\ LockInv => OneUpdater
  <2> SUFFICES ASSUME Shapes, LockInv, ~lockLost,
                      NEW p \in Updaters, NEW q \in Updaters
               PROVE  p = q
    BY Zenon DEF OneUpdater, NoOtherUpdater
  <2>1. Relies(inst[p]) /\ Relies(inst[q])
    <3>1. ASSUME NEW r \in Updaters PROVE Relies(inst[r])
      <4>1. Shape(inst[r]) /\ inst[r] \in Instance /\ inst[r].locked /\ inst[r].pc # "closing"
        BY Zenon, <3>1 DEF Updaters, Shapes, TypeOK
      <4> QED BY Zenon, <4>1 DEF Shape, Relies, Running, Instance
    <3> QED BY Zenon, <3>1
  <2> QED BY Zenon, <2>1 DEF LockInv, Updaters
<1> QED BY <1>1, ShapesHold, LockHolds, PTL

-----------------------------------------------------------------------------
(* The metadata the instances share. *)

Stored == [{"timestamp", "snapshot", "targets"} -> Version \union {0}]

\* No role is stored before the timestamp it goes with.
TimestampLeads(st) ==
  st["snapshot"] <= st["timestamp"] /\ st["targets"] <= st["timestamp"]

\* What an instance has in hand of the metadata, with timestamp t stored.
Told(i, t) ==
  /\ i.pc \in Updating /\ i.role > 1 => i.meta <= t
  /\ i.cmd = "offline" =>
       /\ i.pc = "store" => i.remote = i.bundle.version
       /\ i.pc \in Updating /\ i.role > 1 => i.meta = i.bundle.version
       /\ i.pc = "load" => i.bundle.version < t
       /\ i.pc = "load" /\ i.role > 1 => i.bundle.version < i.meta
       /\ i.pc \in {"search", "select"} =>
            IF i.status = "Ok" THEN i.meta = i.bundle.version
                               ELSE i.bundle.version < i.meta
  /\ i.pc = "select" /\ i.bundle # NoBundle =>
       /\ i.offer # {} /\ i.offer \subseteq MatchingOf[i.meta]
       /\ i.offer \subseteq i.bundle.content

MetaInv ==
  /\ TimestampLeads(stored)
  /\ \A p \in Proc : Told(inst[p], stored["timestamp"])

\* Versions are numbers.
LEMMA VersionIsNat ==
  /\ \A v \in Version \union {0} : v \in Nat
  /\ \A b \in Bundle : b.version \in Version
BY CheckInAssumption DEF CheckInAssumption

\* Roles and versions are natural numbers.
LEMMA InstanceFields ==
  ASSUME NEW i \in Instance
  PROVE  /\ i.role \in 1 .. 3
         /\ i.meta \in Nat /\ i.remote \in Nat
         /\ i.bundle # NoBundle => i.bundle.version \in Nat
<1>1. i.role \in 1 .. 3
  BY Zenon, RolesAreThree DEF Instance
<1>2. i.meta \in Version \union {0} /\ i.remote \in Version \union {0}
  BY Zenon DEF Instance
<1>3. i.bundle \in Bundle \union {NoBundle}
  BY Zenon DEF Instance
<1>4. i.meta \in Nat /\ i.remote \in Nat
  BY <1>2, VersionIsNat, Zenon
<1>5. i.bundle # NoBundle => i.bundle.version \in Nat
  BY Zenon, <1>3, VersionIsNat
<1> QED BY Zenon, <1>1, <1>4, <1>5

\* Outside an update and what follows it nothing is in hand.
LEMMA NothingInHand ==
  ASSUME NEW j, NEW t, j.pc \notin Updating \union {"load", "search", "select"}
  PROVE  Told(j, t)
BY Zenon DEF Told, Updating

\* A newer timestamp takes nothing away.
LEMMA ToldOn ==
  ASSUME NEW i \in Instance, Shape(i), NEW t \in Nat, NEW u \in Nat, t <= u,
         Told(i, t)
  PROVE  Told(i, u)
<1>1. i.pc \in Updating /\ i.role > 1 => i.meta <= u
  BY InstanceFields DEF Told
<1>2. i.cmd = "offline" /\ i.pc = "load" => i.bundle.version < u
  BY InstanceFields DEF Told, Shape
<1> QED BY Zenon, <1>1, <1>2 DEF Told

\* So are the stored versions.
LEMMA StoredNat ==
  ASSUME NEW st \in Stored
  PROVE  \A r \in {"timestamp", "snapshot", "targets"} : st[r] \in Nat
<1>1. \A r \in {"timestamp", "snapshot", "targets"} : st[r] \in Version \union {0}
  BY Zenon DEF Stored
<1> QED BY <1>1, VersionIsNat, Zenon

\* A step of one instance keeps what the others have in hand.
LEMMA OthersTold ==
  ASSUME Shapes, Shapes', MetaInv, NEW p \in Proc, NEW j, Becomes(p, j),
         stored["timestamp"] <= stored'["timestamp"],
         TimestampLeads(stored'), Told(j, stored'["timestamp"])
  PROVE  MetaInv'
<1>1. stored["timestamp"] \in Nat /\ stored'["timestamp"] \in Nat
  BY Zenon, StoredNat DEF Shapes, TypeOK, Stored
<1>2. ASSUME NEW q \in Proc PROVE Told(inst'[q], stored'["timestamp"])
  <2>1. CASE q = p
    BY Zenon, <2>1, BecomesOnly
  <2>2. CASE q # p
    <3>1. inst'[q] = inst[q] /\ inst[q] \in Instance /\ Shape(inst[q])
      BY Zenon, <2>2, BecomesOnly DEF Shapes, TypeOK
    <3> QED BY Zenon, <1>1, <3>1, ToldOn DEF MetaInv
  <2> QED BY Zenon, <2>1, <2>2
<1> QED BY Zenon, <1>2 DEF MetaInv

\* A step that stores nothing keeps MetaInv if its instance has nothing
\* newer in hand than what is stored.
LEMMA NothingStored ==
  ASSUME Shapes, Shapes', MetaInv, NEW p \in Proc, NEW j, Becomes(p, j),
         UNCHANGED stored, Told(j, stored["timestamp"])
  PROVE  MetaInv'
BY OthersTold, StoredNat DEF MetaInv, Shapes, TypeOK, Stored

\* MetaInv holds initially.
LEMMA MetaInit == Init => MetaInv
BY NothingInHand DEF Init, MetaInv, TimestampLeads, Off, Updating

\* The steps of a check-in that has nothing in hand, or is over with it.
LEMMA QuietSteps ==
  ASSUME Shapes, Shapes', MetaInv, NEW p \in Proc,
         \/ OpenLock(p) \/ TakeLock(p) \/ Fail(p) \/ Select(p) \/ Unlink(p) \/ Close(p)
         \/ Kill(p) \/ \E cmd, b : Start(p, cmd, b)
  PROVE  MetaInv'
<1> DEFINE i == inst[p]
           Quiet == {"off", "open", "lock", "ready", "exit", "closing"}
<1>0. i \in Instance
  BY Zenon DEF Shapes, TypeOK
<1>1. ASSUME NEW j, Becomes(p, j), j.pc \in Quiet, UNCHANGED stored PROVE MetaInv'
  <2>1. Told(j, stored["timestamp"])
    BY Zenon, <1>1, NothingInHand DEF Updating
  <2> QED BY Zenon, <1>1, <2>1, NothingStored
<1>2. Off.pc = "off"
  BY Zenon DEF Off
<1>3. CASE OpenLock(p)
  BY Zenon, <1>0, <1>1, <1>3 DEF OpenLock, Instance
<1>4. CASE TakeLock(p)
  BY Zenon, <1>0, <1>1, <1>2, <1>4 DEF TakeLock, Instance
<1>5. CASE Fail(p)
  BY Zenon, <1>0, <1>1, <1>5 DEF Fail, OnlyInstance, Over, Instance
<1>6. CASE Select(p)
  BY Zenon, <1>0, <1>1, <1>6 DEF Select, OnlyInstance, Over, Instance
<1>7. CASE Unlink(p)
  BY Zenon, <1>0, <1>1, <1>7 DEF Unlink, Instance
<1>8. CASE Close(p)
  BY Zenon, <1>1, <1>2, <1>8 DEF Close, OnlyInstance
<1>9. CASE Kill(p)
  BY Zenon, <1>1, <1>2, <1>9 DEF Kill
<1>10. ASSUME NEW cmd, NEW b, Start(p, cmd, b) PROVE MetaInv'
  BY Zenon, <1>1, <1>10 DEF Start, Off
<1> QED BY Zenon, <1>3, <1>4, <1>5, <1>6, <1>7, <1>8, <1>9, <1>10

\* What updateMeta and the loop over the roles leave in hand.
LEMMA FailedTold ==
  ASSUME NEW i \in Instance, Shape(i), i.pc \in Updating, NEW err \in Errors,
         NEW rollback \in BOOLEAN, NEW t,
         rollback /\ i.cmd = "offline" => i.bundle.version < t
  PROVE  Told(UpdateFailed(i, err, rollback), t)
<1>1. CASE Mode(i.cmd) = "online" \/ rollback
  <2> DEFINE j == [i EXCEPT !.status = err, !.pc = "load", !.role = 1]
  <2>1. j.pc = "load" /\ j.role = 1 /\ j.cmd = i.cmd /\ j.bundle = i.bundle
    BY Zenon DEF Instance
  <2>2. i.cmd = "offline" => rollback
    BY Zenon, <1>1 DEF Mode
  <2>3. Told(j, t)
    BY <2>1, <2>2 DEF Told, Updating
  <2> QED BY Zenon, <1>1, <2>3 DEF UpdateFailed
<1>2. CASE ~(Mode(i.cmd) = "online" \/ rollback)
  <2> DEFINE j == [i EXCEPT !.status = err, !.pc = "fail"]
  <2>1. j.pc = "fail"
    BY Zenon DEF Instance
  <2>2. Told(j, t)
    BY Zenon, <2>1, NothingInHand DEF Updating
  <2> QED BY Zenon, <1>2, <2>2 DEF UpdateFailed
<1> QED BY Zenon, <1>1, <1>2

\* The loop over the roles goes on with what has been stored.
LEMMA UpdatedTold ==
  ASSUME NEW i \in Instance, i.pc = "fetch", NEW t, i.meta <= t,
         i.cmd = "offline" => i.meta = i.bundle.version
  PROVE  Told(NextRole(i, "Ok"), t)
<1>1. CASE i.role < Len(Roles)
  <2> DEFINE j == [i EXCEPT !.role = @ + 1]
  <2>1. j.pc = "fetch" /\ j.meta = i.meta /\ j.cmd = i.cmd /\ j.bundle = i.bundle
    BY Zenon DEF Instance
  <2>2. Told(j, t)
    BY Zenon, <2>1 DEF Told
  <2> QED BY Zenon, <1>1, <2>2 DEF NextRole
<1>2. CASE ~(i.role < Len(Roles))
  <2> DEFINE j == [i EXCEPT !.pc = "search", !.status = "Ok"]
  <2>1. j.pc = "search" /\ j.status = "Ok" /\ j.meta = i.meta /\ j.cmd = i.cmd /\ j.bundle = i.bundle
    BY Zenon DEF Instance
  <2>2. Told(j, t)
    BY Zenon, <2>1 DEF Told, Updating
  <2> QED BY Zenon, <1>2, <2>2 DEF NextRole
<1> QED BY Zenon, <1>1, <1>2

\* A check-in begins, and fetches.
LEMMA FetchTold ==
  ASSUME Shapes, Shapes', MetaInv, NEW p \in Proc,
         BeginCheckIn(p) \/ CheckBundle(p) \/ FetchRole(p)
  PROVE  MetaInv'
<1> DEFINE i == inst[p]
           t == stored["timestamp"]
<1>0. i \in Instance /\ Shape(i) /\ Told(i, t) /\ TypeOK
  BY Zenon DEF Shapes, TypeOK, MetaInv
<1>1. CASE BeginCheckIn(p)
  <2> DEFINE f == [i EXCEPT !.cb = @ + 1, !.pc = "fetch"]
             b == [i EXCEPT !.cb = @ + 1, !.pc = "bundle"]
             l == [i EXCEPT !.pc = "load"]
  <2>1. i.role = 1 /\ UNCHANGED stored
    BY Zenon, <1>0, <1>1 DEF BeginCheckIn, OnlyInstance, Shape
  <2>2. f.pc = "fetch" /\ f.role = 1 /\ b.pc = "bundle" /\ l.pc = "load" /\ l.role = 1
        /\ l.cmd = i.cmd
    BY Zenon, <1>0, <2>1 DEF Instance
  <2>3. Told(f, t) /\ Told(b, t)
    BY <2>2 DEF Told, Updating
  <2>4. i.cmd # "offline" => Told(l, t)
    BY Zenon, <2>2 DEF Told, Updating
  <2>5. \/ Becomes(p, f) \/ Becomes(p, b)
        \/ i.cmd # "offline" /\ Becomes(p, l)
    BY Zenon, <1>0, <1>1 DEF BeginCheckIn, Mode
  <2> HIDE DEF f, b, l
  <2> QED BY Zenon, <2>1, <2>3, <2>4, <2>5, NothingStored
<1>2. CASE CheckBundle(p)
  <2> DEFINE bad == [i EXCEPT !.status = "BundleMetadataError", !.pc = "fail"]
             good == [i EXCEPT !.pc = "fetch"]
  <2>1. i.role = 1 /\ UNCHANGED stored
    BY Zenon, <1>0, <1>2 DEF CheckBundle, OnlyInstance, Shape
  <2>2. bad.pc = "fail" /\ good.pc = "fetch" /\ good.role = 1
    BY Zenon, <1>0, <2>1 DEF Instance
  <2>3. Told(bad, t) /\ Told(good, t)
    BY <2>2 DEF Told, Updating
  <2>4. Becomes(p, bad) \/ Becomes(p, good)
    BY Zenon, <1>2 DEF CheckBundle
  <2> HIDE DEF bad, good
  <2> QED BY Zenon, <2>1, <2>3, <2>4, NothingStored
<1>3. CASE FetchRole(p)
  <2> DEFINE f == [i EXCEPT !.remote = Source(i), !.pc = "store"]
  <2>1. i.pc = "fetch" /\ i.pc \in Updating /\ UNCHANGED stored
    BY Zenon, <1>3 DEF FetchRole, OnlyInstance, Updating
  <2>2. ASSUME IsStored(i) PROVE Told(NextRole(i, "Ok"), t)
    <3>1. i.role > 1
      BY Zenon, <2>2 DEF IsStored
    <3> QED BY Zenon, <1>0, <2>1, <3>1, UpdatedTold DEF Told
  <2>3. Told(f, t)
    <3>1. f.pc = "store" /\ f.remote = Source(i) /\ f.role = i.role /\ f.meta = i.meta
          /\ f.cmd = i.cmd /\ f.bundle = i.bundle
      BY Zenon, <1>0 DEF Instance
    <3>2. i.cmd = "offline" => Source(i) = i.bundle.version
      BY Zenon, <1>0 DEF Source, Shape
    <3> QED BY Zenon, <1>0, <2>1, <3>1, <3>2 DEF Told, Updating
  <2>4. \A err \in {"MetadataFetchFailure", "MetadataNotFound"} :
          Told(UpdateFailed(i, err, FALSE), t)
    BY Zenon, <1>0, <2>1, FailedTold DEF Errors
  <2>5. \/ IsStored(i) /\ Becomes(p, NextRole(i, "Ok"))
        \/ Becomes(p, f)
        \/ \E err \in {"MetadataFetchFailure", "MetadataNotFound"} :
             Becomes(p, UpdateFailed(i, err, FALSE))
    BY Zenon, <1>3 DEF FetchRole
  <2> HIDE DEF f
  <2> QED BY Zenon, <2>1, <2>2, <2>3, <2>4, <2>5, NothingStored
<1> QED BY Zenon, <1>1, <1>2, <1>3

\* A role is verified and stored: the timestamp never goes back, and the
\* roles after it never overtake it.
LEMMA StoreTold ==
  ASSUME Shapes, Shapes', MetaInv, NEW p \in Proc, StoreRole(p)
  PROVE  MetaInv'
<1> DEFINE i == inst[p]
           t == stored["timestamp"]
           role == Roles[i.role]
           matches == i.role = 1 \/ i.remote = i.meta
           older == i.remote < stored[role]
           seen == [i EXCEPT !.remote = 0]
           kept == [i EXCEPT !.meta = i.remote, !.remote = 0, !.pc = "fetch"]
<1>0. i \in Instance /\ Shape(i) /\ Told(i, t) /\ TypeOK /\ TimestampLeads(stored)
  BY Zenon DEF Shapes, TypeOK, MetaInv
<1>1. /\ i.pc = "store" /\ i.remote \in Nat /\ i.meta \in Nat /\ i.role \in 1 .. 3
      /\ i.remote \in Version \union {0}
  BY Zenon, <1>0, InstanceFields DEF StoreRole, Instance
<1>2. /\ role \in {"timestamp", "snapshot", "targets"}
      /\ i.role = 1 => role = "timestamp"
      /\ i.role # 1 => role \in {"snapshot", "targets"}
  BY <1>1 DEF Roles
<1>3. \A r \in {"timestamp", "snapshot", "targets"} : stored[r] \in Nat
  BY Zenon, <1>0, StoredNat DEF TypeOK, Stored
<1>4. i.cmd = "offline" => i.remote = i.bundle.version
  BY Zenon, <1>0, <1>1 DEF Told
<1>5. i.role # 1 => i.meta <= t
  BY <1>0, <1>1 DEF Told, Updating
<1>6. CASE ~matches \/ older
  <2>1. Becomes(p, UpdateFailed(seen, "SecurityError", matches)) /\ UNCHANGED stored
    BY Zenon, <1>6 DEF StoreRole
  <2>2. seen \in Instance
    BY <1>0, ZenonT(60) DEF Instance
  <2>3. seen.pc = "store" /\ seen.cmd = i.cmd /\ seen.bundle = i.bundle
    BY Zenon, <1>0, <1>1 DEF Instance
  <2>4. matches /\ seen.cmd = "offline" => seen.bundle.version < t
    <3> SUFFICES ASSUME matches, seen.cmd = "offline" PROVE i.bundle.version < t
      BY Zenon, <2>3
    <3>1. i.remote < stored[role] /\ i.remote = i.bundle.version
      BY Zenon, <1>4, <1>6, <2>3
    <3>2. stored[role] <= t
      BY <1>0, <1>2, <1>3 DEF TimestampLeads
    <3> QED BY <1>1, <1>2, <1>3, <3>1, <3>2
  <2>5. Told(UpdateFailed(seen, "SecurityError", matches), t)
    <3>1. CASE Mode(seen.cmd) = "online" \/ matches
      <4> DEFINE j == [seen EXCEPT !.status = "SecurityError", !.pc = "load", !.role = 1]
      <4>1. j.pc = "load" /\ j.role = 1 /\ j.cmd = seen.cmd /\ j.bundle = seen.bundle
        BY Zenon, <2>2 DEF Instance
      <4>2. seen.cmd = "offline" => matches
        BY Zenon, <3>1 DEF Mode
      <4>3. Told(j, t)
        BY <2>4, <4>1, <4>2 DEF Told, Updating
      <4> QED BY Zenon, <3>1, <4>3 DEF UpdateFailed
    <3>2. CASE ~(Mode(seen.cmd) = "online" \/ matches)
      <4> DEFINE j == [seen EXCEPT !.status = "SecurityError", !.pc = "fail"]
      <4>1. j.pc = "fail"
        BY Zenon, <2>2 DEF Instance
      <4>2. Told(j, t)
        BY Zenon, <4>1, NothingInHand DEF Updating
      <4> QED BY Zenon, <3>2, <4>2 DEF UpdateFailed
    <3> QED BY Zenon, <3>1, <3>2
  <2> QED BY Zenon, <2>1, <2>5, NothingStored
<1>7. CASE ~(~matches \/ older)
  <2>1. /\ Becomes(p, NextRole(kept, "Ok"))
        /\ stored' = [stored EXCEPT ![role] = i.remote]
    BY Zenon, <1>7 DEF StoreRole
  <2>2. i.remote >= stored[role] /\ (i.role # 1 => i.remote = i.meta)
    BY <1>1, <1>2, <1>3, <1>7
  <2>3. /\ stored'[role] = i.remote
        /\ \A r \in {"timestamp", "snapshot", "targets"} : r # role => stored'[r] = stored[r]
    BY Zenon, <1>0, <1>2, <2>1 DEF TypeOK
  <2>4. t <= stored'["timestamp"] /\ i.remote <= stored'["timestamp"]
    <3>1. CASE i.role = 1
      BY <1>1, <1>2, <1>3, <2>2, <2>3, <3>1
    <3>2. CASE i.role # 1
      BY <1>1, <1>2, <1>3, <1>5, <2>2, <2>3, <3>2
    <3> QED BY Zenon, <3>1, <3>2
  <2>5. TimestampLeads(stored')
    <3>1. CASE i.role = 1
      BY <1>0, <1>1, <1>2, <1>3, <2>3, <2>4, <3>1 DEF TimestampLeads
    <3>2. CASE i.role # 1
      BY Zenon, <1>0, <1>1, <1>2, <1>3, <2>3, <2>4, <3>2 DEF TimestampLeads
    <3> QED BY Zenon, <3>1, <3>2
  <2>6. kept \in Instance
    BY <1>0, <1>1, ZenonT(60) DEF Instance
  <2>7. kept.pc = "fetch" /\ kept.meta = i.remote /\ kept.cmd = i.cmd /\ kept.bundle = i.bundle
    BY Zenon, <1>0 DEF Instance
  <2>8. Told(NextRole(kept, "Ok"), stored'["timestamp"])
    BY Zenon, <1>4, <2>4, <2>6, <2>7, UpdatedTold
  <2> QED BY Zenon, <2>1, <2>4, <2>5, <2>8, OthersTold
<1> QED BY Zenon, <1>6, <1>7

\* A refused update has nothing in hand.
LEMMA RefusalTold ==
  ASSUME NEW i \in Instance, NEW err, NEW t
  PROVE  Told([i EXCEPT !.status = err, !.pc = "fail"], t)
<1>1. [i EXCEPT !.status = err, !.pc = "fail"].pc = "fail"
  BY Zenon DEF Instance
<1> QED BY Zenon, <1>1, NothingInHand DEF Updating

\* What is stored is read back, and Targets are looked for.
LEMMA LoadTold ==
  ASSUME Shapes, Shapes', MetaInv, NEW p \in Proc, LoadRole(p) \/ Search(p)
  PROVE  MetaInv'
<1> DEFINE i == inst[p]
           t == stored["timestamp"]
<1>0. i \in Instance /\ Shape(i) /\ Told(i, t) /\ TypeOK
  BY Zenon DEF Shapes, TypeOK, MetaInv
<1>1. CASE LoadRole(p)
  <2> DEFINE version == stored[Roles[i.role]]
             valid == IF i.role = 1 THEN version # 0 ELSE version = i.meta
             read == [i EXCEPT !.meta = version]
             next == [read EXCEPT !.role = @ + 1]
             last == [read EXCEPT !.pc = "search", !.status = "OkCached"]
  <2>1. i.pc = "load" /\ i.role \in 1 .. 3 /\ UNCHANGED stored
    BY Zenon, <1>0, <1>1, InstanceFields DEF LoadRole, OnlyInstance
  <2>2. i.role = 1 => version = t
    BY DEF Roles
  <2>3. valid /\ i.cmd = "offline" => i.bundle.version < version
    <3>1. CASE i.role = 1
      BY Zenon, <1>0, <2>1, <2>2, <3>1 DEF Told
    <3>2. CASE i.role # 1
      BY <1>0, <2>1, <3>2 DEF Told
    <3> QED BY Zenon, <3>1, <3>2
  <2>4. Told([i EXCEPT !.status = "SecurityError", !.pc = "fail"], t)
    BY Zenon, <1>0, RefusalTold
  <2>5. Told([i EXCEPT !.pc = "fail"], t)
    BY <1>0, NothingInHand DEF Instance, Updating
  <2>6. next.pc = "load" /\ next.meta = version /\ next.cmd = i.cmd /\ next.bundle = i.bundle
    BY Zenon, <1>0, <2>1 DEF Instance
  <2>7. /\ last.pc = "search" /\ last.status = "OkCached" /\ last.meta = version
        /\ last.cmd = i.cmd /\ last.bundle = i.bundle
    BY Zenon, <1>0 DEF Instance
  <2>8. valid => Told(next, t)
    BY Zenon, <1>0, <2>1, <2>3, <2>6 DEF Told, Updating
  <2>9. valid => Told(last, t)
    BY Zenon, <2>3, <2>7 DEF Told, Updating
  <2>10. \/ valid /\ (Becomes(p, next) \/ Becomes(p, last))
         \/ Becomes(p, [i EXCEPT !.status = "SecurityError", !.pc = "fail"])
         \/ Becomes(p, [i EXCEPT !.pc = "fail"])
    <3>1. NextRole(read, "OkCached") \in {next, last}
      BY Zenon DEF NextRole
    <3> HIDE DEF next, last
    <3> QED BY Zenon, <1>1, <3>1 DEF LoadRole
  <2> HIDE DEF next, last
  <2> QED BY Zenon, <2>1, <2>4, <2>5, <2>8, <2>9, <2>10, NothingStored
<1>2. CASE Search(p)
  <2> DEFINE post == Mode(i.cmd) # "current" /\ PostAtCheckIn(i.cmd)
             offers == [i EXCEPT !.offer = Available(i), !.pc = "select",
                                 !.status = IF Mode(i.cmd) = "online" THEN "Ok" ELSE @,
                                 !.cb = IF post THEN @ - 1 ELSE @]
  <2>1. i.pc = "search" /\ UNCHANGED stored
    BY Zenon, <1>2 DEF Search, OnlyInstance
  <2>2. \A err \in {"NoMatchingTargets", "NoTargetContent"} :
          Told([i EXCEPT !.status = err, !.pc = "fail"], t)
    BY Zenon, <1>0, RefusalTold
  <2>3. /\ offers.pc = "select" /\ offers.offer = Available(i) /\ offers.meta = i.meta
        /\ offers.status = IF Mode(i.cmd) = "online" THEN "Ok" ELSE i.status
        /\ offers.cmd = i.cmd /\ offers.bundle = i.bundle
    BY Zenon, <1>0 DEF Instance
  <2>4. /\ Available(i) \subseteq MatchingOf[i.meta]
        /\ i.bundle # NoBundle => Available(i) \subseteq i.bundle.content
    BY Zenon DEF Available, Matching
  <2>5. i.cmd = "offline" => Mode(i.cmd) = "local"
    BY Zenon DEF Mode
  <2>6. Available(i) # {} => Told(offers, t)
    BY Zenon, <1>0, <2>1, <2>3, <2>4, <2>5 DEF Told, Updating
  <2>7. \/ \E err \in {"NoMatchingTargets", "NoTargetContent"} :
             Becomes(p, [i EXCEPT !.status = err, !.pc = "fail"])
        \/ Available(i) # {} /\ Becomes(p, offers)
    BY Zenon, <1>2 DEF Search
  <2> HIDE DEF offers
  <2> QED BY Zenon, <2>1, <2>2, <2>6, <2>7, NothingStored
<1> QED BY Zenon, <1>1, <1>2

\* Every step keeps MetaInv.
LEMMA MetaNext == Shapes /\ Shapes' /\ MetaInv /\ [Next]_vars => MetaInv'
<1> SUFFICES ASSUME Shapes, Shapes', MetaInv, [Next]_vars PROVE MetaInv'
  BY Zenon
<1>1. ASSUME NEW p \in Proc, Step(p) \/ Kill(p) PROVE MetaInv'
  BY <1>1, QuietSteps, FetchTold, StoreTold, LoadTold, Zenon DEF Step
<1>2. ASSUME NEW p \in Proc, StartCommand(p) PROVE MetaInv'
  BY <1>2, QuietSteps, Zenon DEF StartCommand
<1>3. CASE StartDaemon
  <2>1. Daemon \in Proc
    BY Zenon, CheckInAssumption DEF CheckInAssumption
  <2> QED BY <1>3, <2>1, QuietSteps, Zenon DEF StartDaemon
<1>4. CASE Reboot
  BY <1>4, NothingInHand DEF Reboot, MetaInv, Off, Updating
<1>5. CASE Publish
  BY Zenon, <1>5 DEF Publish, MetaInv
<1>6. CASE UNCHANGED vars
  BY Zenon, <1>6 DEF vars, MetaInv
<1> QED BY Zenon, <1>1, <1>2, <1>3, <1>4, <1>5, <1>6 DEF Next

\* OfflineOfferIsTrue: an offline check-in takes its Targets out of the
\* bundle's metadata or out of newer metadata of the device's, and offers
\* only what the bundle has the content of, whatever the other instances
\* store meanwhile and even when the lock no longer keeps them apart.
THEOREM OfflineOffersAreTrue == Spec => []OfflineOfferIsTrue
<1>1. Shapes /\ MetaInv => OfflineOfferIsTrue
  <2> SUFFICES ASSUME Shapes, MetaInv, NEW p \in Proc,
                      inst[p].pc = "select", inst[p].bundle # NoBundle
               PROVE  LET i == inst[p]
                      IN /\ i.offer # {} /\ i.offer \subseteq MatchingOf[i.meta]
                         /\ i.offer \subseteq i.bundle.content
                         /\ Mode(i.cmd) = "local" =>
                              IF i.status = "Ok" THEN i.meta = i.bundle.version
                                                 ELSE i.meta > i.bundle.version
    BY Zenon DEF OfflineOfferIsTrue
  <2>1. inst[p] \in Instance /\ Told(inst[p], stored["timestamp"])
    BY Zenon DEF Shapes, TypeOK, MetaInv
  <2>2. Mode(inst[p].cmd) = "local" => inst[p].cmd = "offline"
    BY Zenon DEF Mode
  <2> QED BY Zenon, <2>1, <2>2, InstanceFields DEF Told
<1>2. Spec => []MetaInv
  BY ShapesHold, MetaInit, MetaNext, PTL DEF Spec
<1> QED BY <1>1, <1>2, ShapesHold, PTL

-----------------------------------------------------------------------------
(* The stored metadata as a fallback.                                       *)

IsOnline(i) == i.cmd \in {"daemon", "check"}

\* What an update with the gateway knows of the stored metadata once it falls
\* back to it.
Knows(i) ==
  /\ i.pc = "load" /\ i.role > 1 => i.meta = stored["timestamp"]
  /\ i.pc = "fail" /\ i.status # "NoMatchingTargets" => ~IsWhole

FallbackInv ==
  ~lockLost => \A p \in Proc : IsOnline(inst[p]) => Knows(inst[p])

\* Only the instance that has the lock stores metadata, so what the others
\* know stays true.
LEMMA OthersKnow ==
  ASSUME Shapes, FallbackInv, NEW p \in Proc, NEW j, Becomes(p, j),
         UNCHANGED stored, ~lockLost' => ~lockLost,
         ~lockLost /\ IsOnline(j) => Knows(j)
  PROVE  FallbackInv'
<1> SUFFICES ASSUME ~lockLost', NEW q \in Proc, IsOnline(inst'[q])
             PROVE  Knows(inst[q])'
  BY Zenon DEF FallbackInv, IsOnline
<1>1. Knows(inst'[q])
  <2>1. CASE q = p
    BY Zenon, <2>1, BecomesOnly
  <2>2. CASE q # p
    BY Zenon, <2>2, BecomesOnly DEF FallbackInv
  <2> QED BY Zenon, <2>1, <2>2
<1> QED BY Zenon, <1>1 DEF Knows, IsWhole

\* The steps outside of an update of the metadata keep FallbackInv.
LEMMA FallbackQuiet ==
  ASSUME Shapes, FallbackInv, NEW p \in Proc,
         \/ OpenLock(p) \/ TakeLock(p) \/ BeginCheckIn(p) \/ Fail(p) \/ Select(p)
         \/ Unlink(p) \/ Close(p) \/ Kill(p) \/ \E cmd, b : Start(p, cmd, b)
  PROVE  FallbackInv'
<1> DEFINE i == inst[p]
           Apart == {"off", "open", "lock", "ready", "bundle", "fetch", "exit", "closing"}
<1>0. i \in Instance /\ Shape(i)
  BY Zenon DEF Shapes, TypeOK
<1>1. ASSUME NEW j, Becomes(p, j), j.pc \in Apart, UNCHANGED stored,
             ~lockLost' => ~lockLost
      PROVE  FallbackInv'
  BY Zenon, <1>1, OthersKnow DEF Knows
<1>2. Off.pc = "off"
  BY Zenon DEF Off
<1>3. CASE OpenLock(p)
  BY Zenon, <1>0, <1>1, <1>3 DEF OpenLock, Instance
<1>4. CASE TakeLock(p)
  BY Zenon, <1>0, <1>1, <1>2, <1>4 DEF TakeLock, Instance
<1>5. CASE BeginCheckIn(p)
  <2> DEFINE f == [i EXCEPT !.cb = @ + 1, !.pc = "fetch"]
             b == [i EXCEPT !.cb = @ + 1, !.pc = "bundle"]
             l == [i EXCEPT !.pc = "load"]
  <2>1. f.pc = "fetch" /\ b.pc = "bundle" /\ l.pc = "load" /\ l.role = 1
    BY Zenon, <1>0, <1>5 DEF BeginCheckIn, Shape, Instance
  <2>2. Becomes(p, f) \/ Becomes(p, b) \/ Becomes(p, l)
    BY Zenon, <1>5 DEF BeginCheckIn, Mode
  <2>3. UNCHANGED <<stored, lockLost>>
    BY Zenon, <1>5 DEF BeginCheckIn, OnlyInstance
  <2>4. Knows(l)
    BY <2>1 DEF Knows
  <2> HIDE DEF f, b, l
  <2> QED BY Zenon, <1>1, <2>1, <2>2, <2>3, <2>4, OthersKnow
<1>6. CASE Fail(p)
  BY Zenon, <1>0, <1>1, <1>6 DEF Fail, OnlyInstance, Over, Instance
<1>7. CASE Select(p)
  BY Zenon, <1>0, <1>1, <1>7 DEF Select, OnlyInstance, Over, Instance
<1>8. CASE Unlink(p)
  BY Zenon, <1>0, <1>1, <1>8 DEF Unlink, Instance
<1>9. CASE Close(p)
  BY Zenon, <1>1, <1>2, <1>9 DEF Close, OnlyInstance
<1>10. CASE Kill(p)
  BY Zenon, <1>1, <1>2, <1>10 DEF Kill
<1>11. ASSUME NEW cmd, NEW b, Start(p, cmd, b) PROVE FallbackInv'
  BY Zenon, <1>1, <1>11 DEF Start, Off
<1> QED BY Zenon, <1>3, <1>4, <1>5, <1>6, <1>7, <1>8, <1>9, <1>10, <1>11

\* An online update that fails goes back to the first stored role.
LEMMA OnlineFallsBack ==
  ASSUME NEW i \in Instance, NEW err, NEW rollback \in BOOLEAN,
         IsOnline(UpdateFailed(i, err, rollback))
  PROVE  Knows(UpdateFailed(i, err, rollback))
<1> DEFINE j == [i EXCEPT !.status = err, !.pc = "load", !.role = 1]
           k == [i EXCEPT !.status = err, !.pc = "fail"]
<1>1. j.pc = "load" /\ j.role = 1 /\ k.cmd = i.cmd
  BY Zenon DEF Instance
<1>2. IsOnline(i) => Mode(i.cmd) = "online"
  BY Zenon DEF IsOnline, Mode
<1>3. UpdateFailed(i, err, rollback) = j
  BY Zenon, <1>1, <1>2 DEF UpdateFailed, IsOnline
<1> QED BY <1>1, <1>3 DEF Knows

\* The loop over the roles goes on or ends with the search for Targets.
LEMMA NextRolePc ==
  ASSUME NEW i \in Instance, NEW status
  PROVE  /\ NextRole(i, status).pc \in {i.pc, "search"}
         /\ NextRole(i, status).meta = i.meta /\ NextRole(i, status).cmd = i.cmd
BY Zenon DEF NextRole, Instance

\* The check of a bundle and the fetch of a role keep FallbackInv.
LEMMA FallbackFetch ==
  ASSUME Shapes, FallbackInv, NEW p \in Proc, CheckBundle(p) \/ FetchRole(p)
  PROVE  FallbackInv'
<1> DEFINE i == inst[p]
<1>0. i \in Instance /\ Shape(i)
  BY Zenon DEF Shapes, TypeOK
<1>1. UNCHANGED <<stored, lockLost>>
  BY Zenon DEF CheckBundle, FetchRole, OnlyInstance
<1>2. CASE CheckBundle(p)
  <2> DEFINE bad == [i EXCEPT !.status = "BundleMetadataError", !.pc = "fail"]
             good == [i EXCEPT !.pc = "fetch"]
  <2>1. i.cmd = "offline" /\ bad.cmd = i.cmd /\ good.pc = "fetch"
    BY Zenon, <1>0, <1>2 DEF CheckBundle, Shape, Instance
  <2>2. Becomes(p, bad) \/ Becomes(p, good)
    BY Zenon, <1>2 DEF CheckBundle
  <2>3. ~IsOnline(bad) /\ Knows(good)
    BY Zenon, <2>1 DEF IsOnline, Knows
  <2> HIDE DEF bad, good
  <2> QED BY Zenon, <1>1, <2>2, <2>3, OthersKnow
<1>3. CASE FetchRole(p)
  <2> DEFINE f == [i EXCEPT !.remote = Source(i), !.pc = "store"]
  <2>1. i.pc = "fetch" /\ f.pc = "store"
    BY Zenon, <1>0, <1>3 DEF FetchRole, Instance
  <2>2. Knows(f) /\ Knows(NextRole(i, "Ok"))
    BY Zenon, <1>0, <2>1, NextRolePc DEF Knows
  <2>3. \A err : IsOnline(UpdateFailed(i, err, FALSE)) => Knows(UpdateFailed(i, err, FALSE))
    BY Zenon, <1>0, OnlineFallsBack
  <2>4. \/ Becomes(p, NextRole(i, "Ok")) \/ Becomes(p, f)
        \/ \E err : Becomes(p, UpdateFailed(i, err, FALSE))
    BY <1>3, Zenon DEF FetchRole
  <2> HIDE DEF f
  <2> QED BY Zenon, <1>1, <2>2, <2>3, <2>4, OthersKnow
<1> QED BY Zenon, <1>2, <1>3

\* The store of a role keeps FallbackInv: no other instance stores one.
LEMMA FallbackStore ==
  ASSUME Shapes, OneUpdater, FallbackInv, NEW p \in Proc, StoreRole(p)
  PROVE  FallbackInv'
<1> DEFINE i == inst[p]
           matches == i.role = 1 \/ i.remote = i.meta
           older == i.remote < stored[Roles[i.role]]
           seen == [i EXCEPT !.remote = 0]
           kept == [i EXCEPT !.meta = i.remote, !.remote = 0, !.pc = "fetch"]
<1>0. i \in Instance /\ Shape(i) /\ i.pc = "store" /\ UNCHANGED lockLost
  BY Zenon DEF Shapes, TypeOK, StoreRole
<1>1. CASE ~matches \/ older
  <2>1. Becomes(p, UpdateFailed(seen, "SecurityError", matches)) /\ UNCHANGED stored
    BY Zenon, <1>1 DEF StoreRole
  <2>2. seen \in Instance
    BY <1>0, ZenonT(60) DEF Instance
  <2> HIDE DEF seen, matches
  <2>3. matches \in BOOLEAN
    BY Zenon DEF matches
  <2>4. IsOnline(UpdateFailed(seen, "SecurityError", matches))
          => Knows(UpdateFailed(seen, "SecurityError", matches))
    BY Zenon, <2>2, <2>3, OnlineFallsBack
  <2> QED BY Zenon, <1>0, <2>1, <2>4, OthersKnow
<1>2. CASE ~(~matches \/ older)
  <2>1. Becomes(p, NextRole(kept, "Ok"))
    BY Zenon, <1>2 DEF StoreRole
  <2>2. kept \in Instance /\ kept.pc = "fetch"
    <3>1. i.remote \in Version \union {0}
      BY Zenon, <1>0 DEF Instance
    <3>2. kept \in Instance
      BY <1>0, <3>1, ZenonT(60) DEF Instance
    <3> QED BY Zenon, <1>0, <3>2 DEF Instance
  <2>3. NextRole(kept, "Ok").pc \in {"fetch", "search"}
    BY Zenon, <2>2, NextRolePc
  <2>4. ASSUME NEW q \in Proc, q # p, ~lockLost, IsOnline(inst[q])
        PROVE  inst[q].pc \notin {"load", "fail"}
    <3>1. SUFFICES ASSUME inst[q].pc \in {"load", "fail"} PROVE FALSE
      BY Zenon
    <3>2. inst[q].locked
      BY Zenon, <2>4, <3>1 DEF Shapes, Shape, IsOnline, TakesLock, Running
    <3>3. i.locked
      BY Zenon, <1>0 DEF Shape, Running, Updating, TakesLock, Mode
    <3> QED BY Zenon, <1>0, <2>4, <3>1, <3>2, <3>3 DEF OneUpdater, NoOtherUpdater, Updaters
  <2>5. ASSUME NEW q \in Proc, ~lockLost, IsOnline(inst'[q])
        PROVE  inst'[q].pc \notin {"load", "fail"}
    BY ZenonT(30), <2>1, <2>3, <2>4, <2>5, BecomesOnly
  <2> QED BY Zenon, <1>0, <2>5 DEF FallbackInv, Knows, IsOnline
<1> QED BY Zenon, <1>1, <1>2

\* Loading what is stored, and the search in it, keep FallbackInv.
LEMMA FallbackLoad ==
  ASSUME Shapes, FallbackInv, NEW p \in Proc, LoadRole(p) \/ Search(p)
  PROVE  FallbackInv'
<1> DEFINE i == inst[p]
<1>0. i \in Instance /\ Shape(i) /\ TypeOK
  BY Zenon DEF Shapes, TypeOK
<1>1. UNCHANGED <<stored, lockLost>>
  BY Zenon DEF LoadRole, Search, OnlyInstance
<1>2. CASE LoadRole(p)
  <2> DEFINE version == stored[Roles[i.role]]
             valid == IF i.role = 1 THEN version # 0 ELSE version = i.meta
             read == [i EXCEPT !.meta = version]
             bad == [i EXCEPT !.status = "SecurityError", !.pc = "fail"]
             fail == [i EXCEPT !.pc = "fail"]
  <2>1. i.pc = "load" /\ i.role \in 1 .. 3 /\ Roles[i.role] \in DOMAIN stored
        /\ (i.role = 1 => Roles[i.role] = "timestamp")
    <3>1. i.pc = "load" /\ i.role \in 1 .. 3
      BY Zenon, <1>0, <1>2, InstanceFields DEF LoadRole
    <3>2. DOMAIN stored = {"timestamp", "snapshot", "targets"}
      BY Zenon, <1>0 DEF TypeOK
    <3> QED BY <3>1, <3>2 DEF Roles
  <2>2. ~lockLost /\ IsOnline(i) /\ i.role # 1 => i.meta = stored["timestamp"]
    BY <2>1 DEF FallbackInv, Knows
  <2>3. read \in Instance /\ read.meta = version /\ read.pc = "load" /\ read.cmd = i.cmd
    <3>1. version \in Version \union {0}
      BY Zenon, <1>0, <2>1 DEF TypeOK
    <3>2. read \in Instance
      BY <1>0, <3>1, ZenonT(60) DEF Instance
    <3> QED BY Zenon, <1>0, <2>1, <3>2 DEF Instance
  <2>4. /\ NextRole(read, "OkCached").pc \in {"load", "search"}
        /\ NextRole(read, "OkCached").meta = version
        /\ NextRole(read, "OkCached").cmd = i.cmd
    BY Zenon, <2>3, NextRolePc
  <2>5. valid /\ ~lockLost /\ IsOnline(NextRole(read, "OkCached"))
          => Knows(NextRole(read, "OkCached"))
    <3>1. valid /\ ~lockLost /\ IsOnline(i) => version = stored["timestamp"]
      BY Zenon, <2>1, <2>2
    <3> QED BY Zenon, <2>4, <3>1 DEF Knows, IsOnline
  <2>6. ~valid /\ ~lockLost /\ IsOnline(i) => ~IsWhole
    <3>1. "timestamp" \in DOMAIN stored
      BY Zenon, <1>0 DEF TypeOK
    <3>2. CASE i.role = 1
      BY Zenon, <2>1, <3>1, <3>2 DEF IsWhole
    <3>3. CASE i.role # 1
      BY Zenon, <2>1, <2>2, <3>1, <3>3 DEF IsWhole
    <3> QED BY Zenon, <3>2, <3>3
  <2>7. bad.cmd = i.cmd /\ bad.pc = "fail" /\ fail.cmd = i.cmd /\ fail.pc = "fail"
    BY Zenon, <1>0 DEF Instance
  <2>8. \/ valid /\ Becomes(p, NextRole(read, "OkCached"))
        \/ ~valid /\ (Becomes(p, bad) \/ Becomes(p, fail))
    BY Zenon, <1>2 DEF LoadRole
  <2> HIDE DEF read, bad, fail, valid
  <2>9. /\ ~valid /\ ~lockLost /\ IsOnline(bad) => Knows(bad)
        /\ ~valid /\ ~lockLost /\ IsOnline(fail) => Knows(fail)
    BY Zenon, <2>6, <2>7 DEF Knows, IsOnline
  <2> QED BY Zenon, <1>1, <2>5, <2>8, <2>9, OthersKnow
<1>3. CASE Search(p)
  <2> DEFINE none == [i EXCEPT !.status = "NoMatchingTargets", !.pc = "fail"]
             lacks == [i EXCEPT !.status = "NoTargetContent", !.pc = "fail"]
             post == Mode(i.cmd) # "current" /\ PostAtCheckIn(i.cmd)
             offers == [i EXCEPT !.offer = Available(i), !.pc = "select",
                                 !.status = IF Mode(i.cmd) = "online" THEN "Ok" ELSE @,
                                 !.cb = IF post THEN @ - 1 ELSE @]
  <2>1. /\ none.pc = "fail" /\ none.status = "NoMatchingTargets"
        /\ lacks.cmd = i.cmd /\ offers.pc = "select"
    BY Zenon, <1>0 DEF Instance
  <2>2. IsOnline(i) => Available(i) = Matching(i)
    BY Zenon, <1>0 DEF IsOnline, Shape, Available
  <2>3. \/ Becomes(p, none) \/ Becomes(p, offers)
        \/ Matching(i) # {} /\ Available(i) = {} /\ Becomes(p, lacks)
    BY Zenon, <1>3 DEF Search
  <2>4. Knows(none) /\ Knows(offers)
    BY Zenon, <2>1 DEF Knows
  <2>5. IsOnline(lacks) => IsOnline(i)
    BY Zenon, <2>1 DEF IsOnline
  <2> HIDE DEF none, lacks, offers
  <2> QED BY Zenon, <1>1, <2>2, <2>3, <2>4, <2>5, OthersKnow
<1> QED BY Zenon, <1>2, <1>3

\* Every step keeps FallbackInv.
LEMMA FallbackNext ==
  Shapes /\ OneUpdater /\ FallbackInv /\ [Next]_vars => FallbackInv'
<1> SUFFICES ASSUME Shapes, OneUpdater, FallbackInv, [Next]_vars PROVE FallbackInv'
  BY Zenon
<1>1. ASSUME NEW p \in Proc, Step(p) \/ Kill(p) PROVE FallbackInv'
  BY <1>1, FallbackQuiet, FallbackFetch, FallbackStore, FallbackLoad, Zenon DEF Step
<1>2. ASSUME NEW p \in Proc, StartCommand(p) PROVE FallbackInv'
  BY <1>2, FallbackQuiet, Zenon DEF StartCommand
<1>3. CASE StartDaemon
  <2>1. Daemon \in Proc
    BY Zenon, CheckInAssumption DEF CheckInAssumption
  <2> QED BY <1>3, <2>1, FallbackQuiet, Zenon DEF StartDaemon
<1>4. CASE Reboot
  BY Zenon, <1>4 DEF Reboot, FallbackInv, Off, IsOnline
<1>5. CASE Publish
  BY Zenon, <1>5 DEF Publish, FallbackInv, Knows, IsWhole
<1>6. CASE UNCHANGED vars
  BY Zenon, <1>6 DEF vars, FallbackInv, Knows, IsWhole
<1> QED BY Zenon, <1>1, <1>2, <1>3, <1>4, <1>5, <1>6 DEF Next

\* StoredMetaIsUsed: an update with the gateway that fails never takes away
\* the metadata that is stored whole: updateMeta falls back to it, and
\* nobody else stores a role meanwhile.
THEOREM FallbackIsUsed == Spec => []StoredMetaIsUsed
<1>1. Init => FallbackInv
  BY DEF Init, FallbackInv, Off, IsOnline
<1>2. Spec => []FallbackInv
  BY <1>1, ShapesHold, LockKeepsApart, FallbackNext, PTL DEF Spec
<1>3. FallbackInv => StoredMetaIsUsed
  BY Zenon DEF FallbackInv, Knows, IsOnline, StoredMetaIsUsed, Mode
<1> QED BY <1>2, <1>3, PTL
============================================================================
