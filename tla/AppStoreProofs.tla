--------------------------- MODULE AppStoreProofs ---------------------------
(***************************************************************************)
(* That the store keeps what is needed and nothing else: for all Apps,     *)
(* images, shared blobs, Targets, power cuts and failures.                 *)
(***************************************************************************)
EXTENDS AppStore, TLAPS

\* The blobs of an image.
Needs(i) == {ManifestOf[i], ConfigOf[i]} \union LayersOf[i]

\* The steps of a fetch that work on one App.
Pulling == {"archive", "manifest", "compose", "size", "images", "index"}

\* An App that has an archive has a directory, and the steps on an App and on an
\* image have one.
ShapeInv ==
  /\ \A u \in Uri : dirs[u].archive = "ok" => dirs[u].exists
  /\ job.at \in Pulling \union {"abort"} => job.app \in Uri
  /\ job.at = "index" => job.image \in Image
  /\ job.at = "run" => job.installed
  /\ job.at \in Pulling \union {"check", "fetch"} => ~job.installed

\* What the fetch has stored of the App in work.
HasImage(i) == IsImageFetched(dirs[job.app], i)
AppInv ==
  /\ job.at = "manifest" => dirs[job.app].archive = "ok"
  /\ job.at \in {"compose", "size", "images", "index"} => IsArchiveFetched(job.app)
  /\ job.at = "images" => \A i \in ImagesOf[job.app] \ job.images : HasImage(i)
  /\ job.at = "index" =>
       /\ \A i \in ImagesOf[job.app] \ (job.images \union {job.image}) : HasImage(i)
       /\ \A b \in {ConfigOf[job.image]} \union LayersOf[job.image] : blobs[b] = "ok"

\* What has been done for the Apps of the Target.
TargetInv ==
  /\ job.at = "check" =>
       \A u \in job.target \ job.left : u \in job.todo \/ (u \in current /\ Restorable(u))
  /\ job.at \in Pulling \union {"fetch"} =>
       \A u \in job.target : \/ u \in job.left \/ Restorable(u)
                             \/ job.at # "fetch" /\ u = job.app
  /\ job.at \in {"run", "prune", "blobs", "save"} => \A u \in job.target : Restorable(u)
  /\ job.at \in {"prune", "blobs", "save"} =>
       job.left = {} /\ (~job.installed => job.target \subseteq current)

\* What is left to prune, and what is kept.
PruneInv ==
  /\ job.at \in {"blobs", "save"} => \A u \in Uri \ Shortlist : ~dirs[u].exists
  /\ job.at = "blobs" =>
       /\ \A u \in Shortlist : Restorable(u) => \A i \in ImagesOf[u] : Needs(i) \subseteq job.keep
       /\ \A b \in job.keep : \E u \in Shortlist : \E i \in ImagesOf[u] : b \in Needs(i)

Inv == TypeOK /\ ShapeInv /\ AppInv /\ TargetInv /\ PruneInv /\ StoreIsExact

-----------------------------------------------------------------------------
(* What the checks and the fetch do to the store. *)

\* The steps that only add to the store, or remove what is broken.
StoreGrows ==
  /\ \A u \in Uri :
       /\ dirs[u].manifest = "ok" => dirs'[u].manifest = "ok"
       /\ dirs[u].archive = "ok" => dirs'[u].archive = "ok"
       /\ \A i \in Image : dirs[u].index[i] = "ok" => dirs'[u].index[i] = "ok"
  /\ \A b \in Blob : blobs[b] = "ok" => blobs'[b] = "ok"

StoreTypes == dirs \in [Uri -> Dir] /\ blobs \in [Blob -> File]

DirsExist == \A u \in Uri : dirs[u].archive = "ok" => dirs[u].exists

\* The images and blobs of an App are images and blobs.
LEMMA Contents ==
  /\ \A u \in Uri : ImagesOf[u] \subseteq Image
  /\ \A i \in Image : /\ ManifestOf[i] \in Blob /\ ConfigOf[i] \in Blob
                      /\ LayersOf[i] \subseteq Blob
<1>1. /\ ImagesOf \in [Uri -> SUBSET Image] /\ ManifestOf \in [Image -> Blob]
      /\ ConfigOf \in [Image -> Blob] /\ LayersOf \in [Image -> SUBSET Blob]
  BY Zenon, AppStoreAssumption
<1> QED BY Zenon, <1>1

\* isAppFetched and the definition of a complete App agree.
LEMMA FetchedIsRestorable ==
  ASSUME NEW u \in Uri
  PROVE  Restorable(u) <=> IsAppFetched(u)
BY Zenon DEF Restorable, IsAppFetched, IsArchiveFetched, AreAppImagesFetched, IsImageFetched

\* An App that is complete stays so.
LEMMA GrowKeeps ==
  ASSUME StoreGrows, NEW u \in Uri
  PROVE  /\ Restorable(u) => Restorable(u)'
         /\ IsArchiveFetched(u) => IsArchiveFetched(u)'
         /\ \A i \in Image : IsImageFetched(dirs[u], i) => IsImageFetched(dirs[u], i)'
BY Zenon, Contents DEF StoreGrows, Restorable, IsArchiveFetched, IsImageFetched

\* areAppImagesFetched removes only what is broken, and nothing if all is well.
LEMMA CheckGrows ==
  ASSUME StoreTypes, DirsExist, NEW u \in Uri, CheckFetched(u)
  PROVE  StoreTypes' /\ StoreGrows /\ DirsExist'
<1>1. PICK checked \in AppChecked(u) :
        dirs' = [dirs EXCEPT ![u] = checked[1]] /\ blobs' = checked[2]
  BY Zenon DEF CheckFetched
<1> DEFINE d == [dirs[u] EXCEPT !.compose = "ok"]
           Good(e, b) ==
             /\ e \in Dir /\ e.exists = dirs[u].exists
             /\ e.manifest = dirs[u].manifest /\ e.archive = dirs[u].archive
             /\ \A i \in Image : dirs[u].index[i] = "ok" => e.index[i] = "ok"
             /\ b \in [Blob -> File]
             /\ \A c \in Blob : blobs[c] = "ok" => b[c] = "ok"
<1>2. /\ d \in Dir /\ d.manifest = dirs[u].manifest /\ d.archive = dirs[u].archive
      /\ d.index = dirs[u].index /\ d.exists = dirs[u].exists
  BY Zenon DEF StoreTypes, Dir, File
<1>3. \/ checked = <<dirs[u], blobs>> \/ checked = <<d, blobs>>
      \/ \E i \in ImagesOf[u] : checked \in ImageChecked(d, i)
  BY Zenon, <1>1 DEF AppChecked
<1>4. Good(checked[1], checked[2])
  <2> HIDE DEF d
  <2>1. CASE checked = <<dirs[u], blobs>>
    <3>1. checked[1] = dirs[u] /\ checked[2] = blobs
      BY Zenon, <2>1
    <3> QED BY Zenon, <3>1 DEF StoreTypes
  <2>2. CASE checked = <<d, blobs>>
    <3>1. checked[1] = d /\ checked[2] = blobs
      BY Zenon, <2>2
    <3> QED BY Zenon, <1>2, <3>1 DEF StoreTypes
  <2>3. ASSUME NEW i \in ImagesOf[u], checked \in ImageChecked(d, i)
        PROVE  Good(checked[1], checked[2])
    <3>0. i \in Image
      BY Zenon, Contents
    <3>1. CASE d.index[i] = "broken"
      <4>1. checked[1] = [d EXCEPT !.index[i] = "none"] /\ checked[2] = blobs
        BY <2>3, <3>1 DEF ImageChecked
      <4>2. d.index \in [Image -> File]
        BY Zenon, <1>2 DEF Dir
      <4>3. /\ checked[1] \in Dir /\ checked[1].exists = d.exists
            /\ checked[1].manifest = d.manifest /\ checked[1].archive = d.archive
            /\ checked[1].index = [d.index EXCEPT ![i] = "none"]
        BY <1>2, <4>1, <4>2 DEF Dir, File
      <4> QED BY Zenon, <1>2, <3>0, <3>1, <4>1, <4>2, <4>3 DEF StoreTypes
    <3>2. CASE d.index[i] # "broken"
      <4>1. \/ checked = <<d, blobs>>
            \/ \E b \in LayersOf[i] :
                 blobs[b] # "ok" /\ checked = <<d, [blobs EXCEPT ![b] = "none"]>>
        BY Zenon, <2>3, <3>2 DEF ImageChecked
      <4>2. ASSUME NEW b \in LayersOf[i], blobs[b] # "ok",
                   checked = <<d, [blobs EXCEPT ![b] = "none"]>>
            PROVE  Good(checked[1], checked[2])
        <5>1. checked[1] = d /\ checked[2] = [blobs EXCEPT ![b] = "none"]
          BY Zenon, <4>2
        <5>2. b \in Blob
          BY Zenon, <3>0, Contents
        <5>3. checked[2] \in [Blob -> File]
          BY Zenon, <5>1 DEF StoreTypes, File
        <5> QED BY Zenon, <1>2, <4>2, <5>1, <5>2, <5>3 DEF StoreTypes
      <4> QED BY Zenon, <2>2, <4>1, <4>2
    <3> QED BY Zenon, <3>1, <3>2
  <2> QED BY Zenon, <1>3, <2>1, <2>2, <2>3
<1> HIDE DEF d
<1> QED BY Zenon, <1>1, <1>4 DEF StoreTypes, StoreGrows, DirsExist

Written(d, kind, f) == [d EXCEPT ![kind] = f]

\* A file of an App's directory is written or broken.
LEMMA FileWritten ==
  ASSUME NEW d \in Dir, NEW kind \in {"manifest", "archive", "compose"},
         NEW f \in File
  PROVE  /\ Written(d, kind, f) \in Dir
         /\ Written(d, kind, f).exists = d.exists
         /\ Written(d, kind, f).index = d.index
         /\ Written(d, kind, f)[kind] = f
         /\ Written(d, kind, f).manifest \in {f, d.manifest}
         /\ Written(d, kind, f).archive \in {f, d.archive}
<1>1. CASE kind = "manifest"
  BY Zenon, <1>1 DEF Dir, Written
<1>2. CASE kind = "archive"
  BY Zenon, <1>2 DEF Dir, Written
<1>3. CASE kind = "compose"
  BY Zenon, <1>3 DEF Dir, Written
<1> QED BY Zenon, <1>1, <1>2, <1>3

\* pullApp only adds.
LEMMA PullAppGrows ==
  ASSUME StoreTypes, DirsExist, ShapeInv, PullApp
  PROVE  /\ StoreTypes' /\ StoreGrows /\ DirsExist'
         /\ dirs'[job.app][job.at] = "ok"
<1> DEFINE d == [dirs[job.app] EXCEPT !.exists = TRUE]
           e == Written(d, job.at, "ok")
<1>1. job.app \in Uri /\ job.at \in {"manifest", "archive", "compose"} /\ blobs' = blobs
  BY Zenon DEF PullApp, ShapeInv, Pulling
<1>2. /\ d \in Dir /\ d.exists /\ d.index = dirs[job.app].index
      /\ d.manifest = dirs[job.app].manifest /\ d.archive = dirs[job.app].archive
  BY Zenon, <1>1 DEF StoreTypes, Dir
<1>3. dirs' = [dirs EXCEPT ![job.app] = e]
  BY Zenon, <1>1 DEF PullApp, StoreTypes, Written
<1> HIDE DEF d
<1>4. /\ e \in Dir /\ e.exists /\ e.index = d.index /\ e[job.at] = "ok"
      /\ e.manifest \in {"ok", d.manifest} /\ e.archive \in {"ok", d.archive}
  <2> DEFINE at == job.at
  <2>1. at \in {"manifest", "archive", "compose"} /\ d \in Dir /\ "ok" \in File
    BY Zenon, <1>1, <1>2 DEF File
  <2> HIDE DEF at
  <2>2. /\ Written(d, at, "ok") \in Dir
        /\ Written(d, at, "ok").exists = d.exists
        /\ Written(d, at, "ok").index = d.index
        /\ Written(d, at, "ok")[at] = "ok"
        /\ Written(d, at, "ok").manifest \in {"ok", d.manifest}
        /\ Written(d, at, "ok").archive \in {"ok", d.archive}
    BY Zenon, <2>1, FileWritten
  <2> QED BY Zenon, <1>2, <2>2 DEF at
<1> HIDE DEF e
<1>5. dirs' \in [Uri -> Dir] /\ dirs'[job.app] = e
  BY Zenon, <1>1, <1>3, <1>4 DEF StoreTypes
<1>6. \A u \in Uri \ {job.app} : dirs'[u] = dirs[u]
  BY Zenon, <1>1, <1>3 DEF StoreTypes
<1>7. /\ e.manifest \in {"ok", dirs[job.app].manifest}
      /\ e.archive \in {"ok", dirs[job.app].archive}
      /\ e.index = dirs[job.app].index
  BY Zenon, <1>2, <1>4
<1> QED BY ZenonT(30), <1>1, <1>4, <1>5, <1>6, <1>7 DEF StoreTypes, StoreGrows, DirsExist

\* skopeo fails, or stores the config and the layers of an image.
LEMMA PullImageSteps ==
  ASSUME job \in Job, PullImage
  PROVE  /\ job.at = "images" /\ dirs' = dirs /\ job'.app = job.app
         /\ job'.target = job.target /\ job'.left = job.left
         /\ job'.installed = job.installed
         /\ \/ job'.at = "abort" /\ blobs' = blobs
            \/ \E i \in job.images :
                 /\ job'.at = "index" /\ job'.image = i /\ job'.images = job.images \ {i}
                 /\ blobs' = [b \in Blob |-> IF b \in {ConfigOf[i]} \union LayersOf[i]
                                             THEN "ok" ELSE blobs[b]]
<1>1. /\ job.at = "images" /\ dirs' = dirs
      /\ \/ job' = [job EXCEPT !.at = "abort"] /\ blobs' = blobs
         \/ \E i \in job.images :
              /\ job' = [job EXCEPT !.at = "index", !.image = i, !.images = @ \ {i}]
              /\ blobs' = [b \in Blob |-> IF b \in {ConfigOf[i]} \union LayersOf[i]
                                          THEN "ok" ELSE blobs[b]]
  BY Zenon DEF PullImage, Goto
<1>2. CASE job' = [job EXCEPT !.at = "abort"] /\ blobs' = blobs
  BY Zenon, <1>1, <1>2 DEF Job
<1>3. ASSUME NEW i \in job.images,
             job' = [job EXCEPT !.at = "index", !.image = i, !.images = @ \ {i}]
      PROVE  /\ job'.at = "index" /\ job'.image = i /\ job'.images = job.images \ {i}
             /\ job'.app = job.app /\ job'.target = job.target /\ job'.left = job.left
             /\ job'.installed = job.installed
  BY Zenon, <1>3 DEF Job
<1> QED BY Zenon, <1>1, <1>2, <1>3

\* skopeo only adds.
LEMMA PullImageGrows ==
  ASSUME StoreTypes, DirsExist, ShapeInv, TypeOK, PullImage \/ PullIndex
  PROVE  StoreTypes' /\ StoreGrows /\ DirsExist'
<1>1. CASE PullImage
  <2>1. /\ dirs' = dirs
        /\ \/ blobs' = blobs
           \/ \E i \in job.images :
                blobs' = [b \in Blob |-> IF b \in {ConfigOf[i]} \union LayersOf[i]
                                         THEN "ok" ELSE blobs[b]]
    BY Zenon, <1>1, PullImageSteps DEF TypeOK
  <2>2. blobs' \in [Blob -> File] /\ \A b \in Blob : blobs[b] = "ok" => blobs'[b] = "ok"
    BY Zenon, <2>1 DEF StoreTypes, File
  <2> QED BY Zenon, <2>1, <2>2 DEF StoreTypes, StoreGrows, DirsExist
<1>2. CASE PullIndex
  <2>1. job.app \in Uri /\ job.image \in Image
    BY Zenon, <1>2 DEF PullIndex, ShapeInv, Pulling
  <2>2. /\ blobs' = [blobs EXCEPT ![ManifestOf[job.image]] = "ok"]
        /\ dirs' = [dirs EXCEPT ![job.app].index[job.image] = "ok"]
    BY Zenon, <1>2 DEF PullIndex
  <2>3. blobs' \in [Blob -> File] /\ \A b \in Blob : blobs[b] = "ok" => blobs'[b] = "ok"
    BY Zenon, <2>1, <2>2 DEF StoreTypes, File
  <2>4. dirs[job.app] \in Dir /\ dirs[job.app].index \in [Image -> File]
    BY Zenon, <2>1 DEF StoreTypes, Dir
  <2> DEFINE d == [dirs[job.app] EXCEPT !.index[job.image] = "ok"]
  <2>5. /\ d \in Dir /\ d.exists = dirs[job.app].exists
        /\ d.manifest = dirs[job.app].manifest /\ d.archive = dirs[job.app].archive
        /\ d.index = [dirs[job.app].index EXCEPT ![job.image] = "ok"]
    BY Zenon, <2>1, <2>4 DEF Dir, File
  <2>6. dirs' = [dirs EXCEPT ![job.app] = d]
    BY Zenon, <2>1, <2>2 DEF StoreTypes
  <2>7. \A i \in Image : dirs[job.app].index[i] = "ok" => d.index[i] = "ok"
    BY Zenon, <2>1, <2>4, <2>5
  <2> HIDE DEF d
  <2> QED BY Zenon, <2>1, <2>3, <2>5, <2>6, <2>7 DEF StoreTypes, StoreGrows, DirsExist
<1> QED BY Zenon, <1>1, <1>2

-----------------------------------------------------------------------------
(* The steps that leave nothing of the store out. *)

Removing == FetchAbort \/ Prune \/ PruneBlob \/ Crash

\* The steps that leave the store as it is.
Resting ==
  \/ StartCheck \/ CheckDone \/ CheckAppUpdateSize \/ FetchAppDone \/ FetchFails
  \/ StartRun \/ RunApp \/ RunAppFails \/ RunDone \/ PruneDocker \/ Save
  \/ Publish \/ DockerFails \/ UNCHANGED vars

\* A step of a fetch is no such step.
LEMMA NotRemoving ==
  ASSUME TypeOK, job.at \notin {"abort", "prune", "blobs"}, crashes' = crashes
  PROVE  ~Removing
<1>1. crashes \in Nat
  BY AppStoreAssumption DEF TypeOK
<1>2. ~Crash
  BY <1>1 DEF Crash
<1> QED BY Zenon, <1>2 DEF Removing, FetchAbort, Prune, PruneBlob

\* Every other step keeps what is complete.
LEMMA StepsGrow ==
  ASSUME TypeOK, ShapeInv, [Next]_vars, ~Removing
  PROVE  StoreTypes' /\ StoreGrows /\ DirsExist'
<1>0. StoreTypes /\ DirsExist
  BY Zenon DEF TypeOK, StoreTypes, ShapeInv, DirsExist
<1>1. CASE Resting
  <2>1. dirs' = dirs /\ blobs' = blobs
    BY Zenon, <1>1 DEF Resting, StartCheck, CheckDone, CheckAppUpdateSize, FetchAppDone,
       FetchFails, StartRun, RunApp, RunAppFails, RunDone, PruneDocker, Save, Publish,
       DockerFails, vars, store
  <2> QED BY Zenon, <1>0, <2>1 DEF StoreTypes, StoreGrows, DirsExist
<1>2. CASE CheckApp
  <2>1. PICK u \in job.left : CheckFetched(u) \/ UNCHANGED store
    BY Zenon, <1>2 DEF CheckApp
  <2>2. u \in Uri
    BY Zenon, <2>1 DEF TypeOK, Job
  <2>3. CASE UNCHANGED store
    BY Zenon, <1>0, <2>3 DEF StoreTypes, StoreGrows, DirsExist, store
  <2> QED BY Zenon, <1>0, <2>1, <2>2, <2>3, CheckGrows
<1>3. CASE FetchApp
  <2>1. PICK u \in job.left : CheckFetched(u)
    BY Zenon, <1>3 DEF FetchApp
  <2>2. u \in Uri
    BY Zenon, <2>1 DEF TypeOK, Job
  <2> QED BY Zenon, <1>0, <2>1, <2>2, CheckGrows
<1>4. CASE PullApp
  BY Zenon, <1>0, <1>4, PullAppGrows
<1>5. CASE PullImage \/ PullIndex
  BY Zenon, <1>0, <1>5, PullImageGrows
<1> QED BY <1>1, <1>2, <1>3, <1>4, <1>5, Zenon DEF Next, Daemon, Removing, Resting

\* The steps that remove keep the types, and leave no archive without its
\* directory.
LEMMA RemovalTypes ==
  ASSUME TypeOK, ShapeInv, Removing
  PROVE  StoreTypes' /\ DirsExist'
<1>0. StoreTypes /\ DirsExist
  BY Zenon DEF TypeOK, StoreTypes, ShapeInv, DirsExist
<1>1. NoDir \in Dir /\ NoDir.archive = "none"
  BY Zenon DEF NoDir, Dir, File
<1>2. CASE FetchAbort
  BY Zenon, <1>0, <1>1, <1>2 DEF FetchAbort, StoreTypes, DirsExist
<1>3. PrunedDirs \in [Uri -> Dir]
      /\ \A u \in Uri : \/ PrunedDirs[u] = NoDir
                        \/ /\ PrunedDirs[u].archive = dirs[u].archive
                           /\ PrunedDirs[u].exists = dirs[u].exists
  <2>1. ASSUME NEW u \in Uri
        PROVE  /\ PrunedDirs[u] \in Dir
               /\ \/ PrunedDirs[u] = NoDir
                  \/ /\ PrunedDirs[u].archive = dirs[u].archive
                     /\ PrunedDirs[u].exists = dirs[u].exists
    <3> DEFINE index == [i \in Image |-> IF IsImageReadable(u, i)
                                         THEN dirs[u].index[i] ELSE "none"]
    <3>1. PrunedDirs[u] = IF u \notin Shortlist THEN NoDir
                          ELSE [dirs[u] EXCEPT !.index = index]
      BY Zenon DEF PrunedDirs
    <3>2. dirs[u] \in Dir /\ dirs[u].index \in [Image -> File]
      BY Zenon, <1>0 DEF StoreTypes, Dir
    <3>3. index \in [Image -> File]
      BY Zenon, <3>2 DEF File
    <3> HIDE DEF index
    <3>4. /\ [dirs[u] EXCEPT !.index = index] \in Dir
          /\ [dirs[u] EXCEPT !.index = index].archive = dirs[u].archive
          /\ [dirs[u] EXCEPT !.index = index].exists = dirs[u].exists
      BY Zenon, <3>2, <3>3 DEF Dir
    <3> QED BY Zenon, <1>1, <3>1, <3>4
  <2>2. PrunedDirs = [u \in Uri |-> PrunedDirs[u]]
    BY Zenon DEF PrunedDirs
  <2> QED BY Zenon, <2>1, <2>2
<1>4. CASE Prune
  <2>1. blobs' = blobs /\ dirs' \in {dirs, PrunedDirs}
    BY Zenon, <1>4 DEF Prune
  <2> HIDE DEF PrunedDirs
  <2> QED BY Zenon, <1>0, <1>1, <1>3, <2>1 DEF StoreTypes, DirsExist
<1>5. CASE PruneBlob
  BY Zenon, <1>0, <1>5 DEF PruneBlob, StoreTypes, DirsExist, File
<1>6. CASE Crash
  <2>1. CASE UNCHANGED store
    BY Zenon, <1>0, <2>1 DEF StoreTypes, DirsExist, store
  <2>2. CASE BreakDirFile
    <3>1. PICK u \in Uri, kind \in {"manifest", "archive", "compose"} :
            dirs' = [dirs EXCEPT ![u] = Written(dirs[u], kind, "broken")] /\ blobs' = blobs
      BY Zenon, <1>0, <2>2 DEF BreakDirFile, StoreTypes, Written
    <3> DEFINE d == dirs[u]
               e == Written(dirs[u], kind, "broken")
    <3>2. kind \in {"manifest", "archive", "compose"} /\ d \in Dir /\ "broken" \in File
      BY Zenon, <1>0 DEF StoreTypes, File
    <3>3. /\ e \in Dir /\ e.exists = dirs[u].exists /\ e[kind] = "broken"
          /\ e.archive \in {"broken", dirs[u].archive}
      <4> HIDE DEF d
      <4>1. /\ Written(d, kind, "broken") \in Dir
            /\ Written(d, kind, "broken").exists = d.exists
            /\ Written(d, kind, "broken")[kind] = "broken"
            /\ Written(d, kind, "broken").archive \in {"broken", d.archive}
        BY <3>2, FileWritten, ZenonT(60)
      <4> QED BY Zenon, <4>1 DEF d
    <3> HIDE DEF e
    <3>4. e.archive = "ok" => dirs[u].archive = "ok"
      BY Zenon, <3>3
    <3> QED BY Zenon, <1>0, <3>1, <3>3, <3>4 DEF StoreTypes, DirsExist, e
  <2>3. CASE BreakIndex
    <3>1. PICK u \in Uri, i \in Image :
            dirs' = [dirs EXCEPT ![u].index[i] = "broken"] /\ blobs' = blobs
      BY Zenon, <2>3 DEF BreakIndex
    <3>2. dirs[u] \in Dir /\ dirs[u].index \in [Image -> File]
      BY Zenon, <1>0 DEF StoreTypes, Dir
    <3> DEFINE e == [dirs[u] EXCEPT !.index[i] = "broken"]
    <3>3. e \in Dir /\ e.exists = dirs[u].exists /\ e.archive = dirs[u].archive
      BY Zenon, <3>2 DEF Dir, File
    <3>4. dirs' = [dirs EXCEPT ![u] = e]
      BY Zenon, <1>0, <3>1 DEF StoreTypes
    <3> HIDE DEF e
    <3> QED BY Zenon, <1>0, <3>1, <3>3, <3>4 DEF StoreTypes, DirsExist
  <2>4. CASE BreakBlob
    <3>1. PICK b : blobs' = [blobs EXCEPT ![b] = "broken"] /\ dirs' = dirs
      BY Zenon, <2>4 DEF BreakBlob
    <3> QED BY Zenon, <1>0, <3>1 DEF StoreTypes, DirsExist, File
  <2> QED BY Zenon, <1>6, <2>1, <2>2, <2>3, <2>4 DEF Crash
<1> QED BY Zenon, <1>2, <1>4, <1>5, <1>6 DEF Removing

-----------------------------------------------------------------------------
(* Types. *)

\* A job that is started, or that ends, is one.
LEMMA NoJobType == NoJob \in Job
BY Zenon DEF NoJob, Job

\* The job of a step.
LEMMA JobTypes ==
  ASSUME TypeOK, ShapeInv, [Next]_vars
  PROVE  job' \in Job
<1> USE DEF TypeOK
<1>1. CASE job' = job \/ job' = NoJob
  BY Zenon, <1>1, NoJobType
<1>2. CASE StartCheck
  <2>1. PICK t \in {published, current} :
          job' = [NoJob EXCEPT !.at = "check", !.target = t, !.left = t]
    BY Zenon, <1>2 DEF StartCheck
  <2>2. t \subseteq Uri
    BY Zenon, AppStoreAssumption
  <2> QED BY Zenon, <2>1, <2>2, NoJobType DEF Job
<1>3. CASE CheckApp
  <2>1. PICK u \in job.left :
          \E inOrder \in BOOLEAN :
             job' = [job EXCEPT !.left = @ \ {u},
                       !.todo = IF inOrder THEN @ ELSE @ \union {u}]
    BY Zenon, <1>3 DEF CheckApp
  <2>2. u \in Uri
    BY Zenon DEF Job
  <2>3. \/ job' = [job EXCEPT !.left = @ \ {u}]
        \/ job' = [job EXCEPT !.left = @ \ {u}, !.todo = @ \union {u}]
    BY Zenon, <2>1 DEF Job
  <2>4. CASE job' = [job EXCEPT !.left = @ \ {u}]
    BY Zenon, <2>4 DEF Job
  <2>5. CASE job' = [job EXCEPT !.left = @ \ {u}, !.todo = @ \union {u}]
    BY Zenon, <2>2, <2>5 DEF Job
  <2> QED BY Zenon, <2>3, <2>4, <2>5
<1>4. CASE CheckDone
  BY Zenon, <1>4 DEF CheckDone, Job
<1>5. CASE FetchApp
  <2>1. PICK u \in job.left, at \in {"size", "archive"} :
          job' = [job EXCEPT !.at = at, !.app = u, !.left = @ \ {u}]
    BY Zenon, <1>5 DEF FetchApp
  <2> QED BY Zenon, <2>1 DEF Job
<1>6. CASE PullApp
  <2>1. PICK at \in {"manifest", "compose", "size"} : Goto(at)
    BY Zenon, <1>6 DEF PullApp
  <2> QED BY Zenon, <2>1 DEF Job, Goto
<1>7. CASE CheckAppUpdateSize
  <2>1. ImagesOf[job.app] \subseteq Image
    BY Zenon, <1>7, Contents DEF CheckAppUpdateSize, ShapeInv, Pulling
  <2> QED BY Zenon, <1>7, <2>1 DEF CheckAppUpdateSize, Job
<1>8. CASE PullImage
  <2>1. \/ job' = [job EXCEPT !.at = "abort"]
        \/ \E i \in job.images :
             job' = [job EXCEPT !.at = "index", !.image = i, !.images = @ \ {i}]
    BY Zenon, <1>8 DEF PullImage, Goto
  <2>2. CASE job' = [job EXCEPT !.at = "abort"]
    BY Zenon, <2>2 DEF Job
  <2>3. ASSUME NEW i \in job.images,
               job' = [job EXCEPT !.at = "index", !.image = i, !.images = @ \ {i}]
        PROVE  job' \in Job
    <3>1. i \in Image
      BY Zenon DEF Job
    <3> QED BY Zenon, <2>3, <3>1 DEF Job
  <2> QED BY Zenon, <2>1, <2>2, <2>3
<1>9. CASE PullIndex
  BY Zenon, <1>9 DEF PullIndex, Job
<1>18. CASE FetchAppDone
  BY Zenon, <1>18 DEF FetchAppDone, Job
<1>10. CASE FetchFails \/ PruneDocker
  BY <1>10 DEF FetchFails, PruneDocker, Goto, Job
<1>11. CASE StartRun
  BY Zenon, <1>11 DEF StartRun, Job
<1>12. CASE RunApp \/ RunAppFails
  <2>1. PICK u \in job.left : \/ job' = [job EXCEPT !.left = @ \ {u}]
                              \/ job' = [job EXCEPT !.left = @ \ {u}, !.failed = TRUE]
    BY Zenon, <1>12 DEF RunApp, RunAppFails
  <2>2. CASE job' = [job EXCEPT !.left = @ \ {u}]
    BY Zenon, <2>2 DEF Job
  <2>3. CASE job' = [job EXCEPT !.left = @ \ {u}, !.failed = TRUE]
    BY Zenon, <2>3 DEF Job
  <2> QED BY Zenon, <2>1, <2>2, <2>3
<1>13. CASE RunDone
  BY Zenon, <1>1, <1>13 DEF RunDone, Job
<1>14. CASE Prune
  <2>1. Shortlist \subseteq Uri
    BY Zenon DEF Shortlist, Job
  <2>2. BlobShortlist \subseteq Blob
    BY <2>1, Contents DEF BlobShortlist, ImageShortlist
  <2>3. \/ job' = NoJob
        \/ \E pruned \in BOOLEAN :
             job' = [job EXCEPT !.at = "blobs", !.keep = BlobShortlist, !.pruned = pruned]
    BY Zenon, <1>14 DEF Prune
  <2>4. ASSUME NEW pruned \in BOOLEAN,
               job' = [job EXCEPT !.at = "blobs", !.keep = BlobShortlist, !.pruned = pruned]
        PROVE  job' \in Job
    <3> DEFINE keep == BlobShortlist
    <3>1. keep \subseteq Blob /\ job' = [job EXCEPT !.at = "blobs", !.keep = keep,
                                                  !.pruned = pruned]
      BY Zenon, <2>2, <2>4
    <3> HIDE DEF keep
    <3> QED BY Zenon, <3>1 DEF Job
  <2> QED BY Zenon, <1>1, <2>3, <2>4
<1>15. CASE PruneBlob
  BY Zenon, <1>15 DEF PruneBlob, Job
<1>16. CASE Save
  BY Zenon, <1>1, <1>16 DEF Save, Job
<1>17. CASE FetchAbort \/ Crash \/ Publish \/ DockerFails \/ UNCHANGED vars
  BY Zenon, <1>1, <1>17 DEF FetchAbort, Crash, Publish, DockerFails, vars
<1> QED BY Zenon, <1>2, <1>3, <1>4, <1>5, <1>6, <1>7, <1>8, <1>9, <1>10, <1>11, <1>12, <1>13,
        <1>14, <1>15, <1>16, <1>17, <1>18, Zenon DEF Next, Daemon

\* The rest of the state.
LEMMA DockerTypes ==
  ASSUME TypeOK, ShapeInv, [Next]_vars
  PROVE  /\ project' \in [Name -> Uri \union {NoUri}]
         /\ container' \in [Name -> Uri \union {NoUri}]
         /\ images' \subseteq Image
         /\ current' \subseteq Uri /\ published' \in Targets
         /\ failures' \in 0 .. MaxFailures
         /\ crashes' \in 0 .. MaxCrashes
         /\ publishes' \in 0 .. MaxPublish
<1> USE DEF TypeOK
<1>0. /\ MaxFailures \in Nat /\ MaxCrashes \in Nat /\ MaxPublish \in Nat
      /\ NameOf \in [Uri -> Name] /\ job.left \subseteq Uri /\ job.target \subseteq Uri
  BY Zenon, AppStoreAssumption DEF Job
<1>1. CASE UNCHANGED <<docker, targets, counts>> \/ UNCHANGED vars
  BY Zenon, <1>1 DEF docker, targets, counts, vars
<1>2. CASE RunApp
  <2>1. PICK u \in job.left :
          /\ project' = [project EXCEPT ![NameOf[u]] = u]
          /\ images' = images \union ImagesOf[u]
          /\ container' = [container EXCEPT ![NameOf[u]] = u]
    BY Zenon, <1>2 DEF RunApp
  <2>2. u \in Uri /\ ImagesOf[u] \subseteq Image
    BY Zenon, <1>0, Contents
  <2>3. UNCHANGED <<current, published, failures, crashes, publishes>>
    BY Zenon, <1>2 DEF RunApp, targets, counts
  <2> QED BY Zenon, <2>1, <2>2, <2>3
<1>3. CASE RunAppFails
  <2>1. PICK u \in job.left :
          /\ project' = [project EXCEPT ![NameOf[u]] = u]
          /\ images' \in {images, images \union ImagesOf[u]}
          /\ container' \in {container, [container EXCEPT ![NameOf[u]] = NoUri]}
    BY Zenon, <1>3 DEF RunAppFails
  <2>2. u \in Uri /\ ImagesOf[u] \subseteq Image
    BY Zenon, <1>0, Contents
  <2>3. /\ UNCHANGED <<current, published, crashes, publishes>>
        /\ failures' \in 0 .. MaxFailures
    BY <1>0, <1>3 DEF RunAppFails, Fails, targets
  <2>4. project' \in [Name -> Uri \union {NoUri}]
    BY Zenon, <2>1, <2>2
  <2>5. container' \in [Name -> Uri \union {NoUri}]
    BY Zenon, <2>1
  <2> QED BY Zenon, <2>1, <2>2, <2>3, <2>4, <2>5
<1>4. CASE Prune
  <2>1. UNCHANGED <<images, current, published, failures, crashes, publishes>>
    BY Zenon, <1>4 DEF Prune, targets, counts
  <2>2. /\ container' = [n \in Name |-> IF Disabled(n) THEN NoUri ELSE container[n]]
        /\ project' = [n \in Name |-> IF Disabled(n) THEN NoUri ELSE project[n]]
    BY Zenon, <1>4 DEF Prune, RemoveDisabledApps
  <2> QED BY Zenon, <2>1, <2>2
<1>5. CASE PruneDocker
  <2>1. UNCHANGED <<project, container, current, published, failures, crashes, publishes>>
    BY Zenon, <1>5 DEF PruneDocker, targets, counts
  <2>2. {container[n] : n \in Name} \ {NoUri} \subseteq Uri
    BY Zenon
  <2>3. images' \subseteq Image
    BY ZenonT(30), <1>5, <2>2, Contents DEF PruneDocker
  <2> QED BY Zenon, <2>1, <2>3
<1>6. CASE Save
  BY Zenon, <1>0, <1>6 DEF Save, docker, counts
<1>7. CASE Publish
  BY <1>0, <1>7 DEF Publish, docker
<1>8. CASE Crash
  BY <1>0, <1>8 DEF Crash, docker, targets
<1>9. CASE DockerFails
  BY <1>0, <1>9 DEF DockerFails, Fails, targets
<1>10. CASE FetchFails
  BY <1>0, <1>10 DEF FetchFails, Fails, docker, targets
<1>11. CASE \/ StartCheck \/ CheckApp \/ CheckDone \/ FetchApp \/ PullApp
            \/ CheckAppUpdateSize \/ PullImage \/ PullIndex \/ FetchAppDone
            \/ FetchAbort \/ StartRun \/ RunDone \/ PruneBlob
  <2>1. UNCHANGED <<docker, targets, counts>>
    BY <1>11, Zenon DEF StartCheck, CheckApp, CheckDone, FetchApp, PullApp, CheckAppUpdateSize,
       PullImage, PullIndex, FetchAppDone, FetchAbort, StartRun, RunDone, PruneBlob
  <2> QED BY Zenon, <1>1, <2>1
<1> QED BY <1>1, <1>2, <1>3, <1>4, <1>5, <1>6, <1>7, <1>8, <1>9, <1>10, <1>11, Zenon
        DEF Next, Daemon

\* The types are kept.
LEMMA TypeNext ==
  ASSUME TypeOK, ShapeInv, [Next]_vars
  PROVE  TypeOK' /\ DirsExist'
BY StepsGrow, RemovalTypes, JobTypes, DockerTypes, Zenon DEF TypeOK, StoreTypes

-----------------------------------------------------------------------------
(* The shape of a job. *)

\* A job that is over, or has not begun, has nothing to show.
LEMMA IdleJob == NoJob.at = "idle" /\ ~NoJob.installed /\ NoJob.target = {}
BY Zenon DEF NoJob

\* Where each step leads.
LEMMA Places ==
  ASSUME job \in Job
  PROVE  /\ StartCheck \/ CheckApp => job'.at = "check"
         /\ CheckDone => job'.at \in {"prune", "fetch"}
         /\ FetchApp => job'.at \in {"archive", "size"}
         /\ PullApp => job'.at \in {"manifest", "compose", "size"}
         /\ CheckAppUpdateSize \/ PullIndex => job'.at = "images"
         /\ PullImage => job'.at \in {"index", "abort"}
         /\ FetchAppDone => job'.at = "fetch"
         /\ FetchFails => job'.at = "abort"
         /\ FetchAbort \/ Crash => job'.at = "idle"
         /\ StartRun \/ RunApp \/ RunAppFails => job'.at = "run"
         /\ RunDone => job'.at \in {"idle", "prune"}
         /\ Prune => job'.at \in {"idle", "blobs"}
         /\ PruneBlob => job'.at = "blobs"
         /\ PruneDocker => job'.at = "save"
         /\ Save => job'.at \in {"idle", "fetch"}
<1> USE DEF Job, Goto
<1>1. StartCheck => job'.at = "check"
  BY Zenon DEF StartCheck, NoJob
<1>2. CheckApp => job'.at = "check"
  BY Zenon DEF CheckApp
<1>3. CheckDone => job'.at \in {"prune", "fetch"}
  BY Zenon DEF CheckDone
<1>4. FetchApp => job'.at \in {"archive", "size"}
  BY Zenon DEF FetchApp
<1>5. PullApp => job'.at \in {"manifest", "compose", "size"}
  BY Zenon DEF PullApp
<1>6. CheckAppUpdateSize \/ PullIndex => job'.at = "images"
  BY Zenon DEF CheckAppUpdateSize, PullIndex
<1>7. PullImage => job'.at \in {"index", "abort"}
  BY Zenon, PullImageSteps
<1>8. /\ FetchAppDone => job'.at = "fetch"
      /\ FetchFails => job'.at = "abort"
      /\ FetchAbort \/ Crash => job'.at = "idle"
  BY Zenon, IdleJob DEF FetchAppDone, FetchFails, FetchAbort, Crash
<1>9. StartRun \/ RunApp \/ RunAppFails => job'.at = "run"
  BY Zenon DEF StartRun, RunApp, RunAppFails
<1>10. RunDone => job'.at \in {"idle", "prune"}
  BY Zenon, IdleJob DEF RunDone
<1>11. Prune => job'.at \in {"idle", "blobs"}
  BY Zenon, IdleJob DEF Prune
<1>12. /\ PruneBlob => job'.at = "blobs"
       /\ PruneDocker => job'.at = "save"
       /\ Save => job'.at \in {"idle", "fetch"}
  BY Zenon, IdleJob DEF PruneBlob, PruneDocker, Save
<1> QED BY <1>1, <1>2, <1>3, <1>4, <1>5, <1>6, <1>7, <1>8, <1>9, <1>10, <1>11, <1>12, Zenon

\* The App and the image in work.
LEMMA ShapeNext ==
  ASSUME TypeOK, ShapeInv, [Next]_vars
  PROVE  ShapeInv'
<1> DEFINE Shape ==
      /\ job.at \in Pulling \union {"abort"} => job.app \in Uri
      /\ job.at = "index" => job.image \in Image
      /\ job.at = "run" => job.installed
      /\ job.at \in Pulling \union {"check", "fetch"} => ~job.installed
<1>0. job \in Job /\ Shape
  BY Zenon DEF TypeOK, ShapeInv
<1> SUFFICES Shape'
  BY Zenon, TypeNext DEF ShapeInv, DirsExist
<1>1. CASE job' = job \/ job' = NoJob
  BY Zenon, <1>0, <1>1, IdleJob DEF Pulling
<1>2. CASE StartCheck
  <2>1. job'.at = "check" /\ ~job'.installed
    BY Zenon, <1>2 DEF StartCheck, NoJob
  <2> QED BY Zenon, <2>1 DEF Pulling
<1>3. CASE CheckApp
  <2>1. job'.at = "check" /\ ~job'.installed
    BY Zenon, <1>0, <1>3 DEF CheckApp, Job
  <2> QED BY Zenon, <2>1 DEF Pulling
<1>4. CASE CheckDone
  <2>1. job'.at \in {"prune", "fetch"} /\ ~job'.installed
    BY Zenon, <1>0, <1>4 DEF CheckDone, Job
  <2> QED BY Zenon, <2>1 DEF Pulling
<1>5. CASE FetchApp
  <2>1. job'.at \in {"size", "archive"} /\ ~job'.installed /\ job'.app \in Uri
    BY ZenonT(30), <1>0, <1>5 DEF FetchApp, Job
  <2> QED BY Zenon, <2>1 DEF Pulling
<1>6. CASE PullApp \/ CheckAppUpdateSize \/ FetchFails
  <2>1. /\ job'.at \in {"manifest", "compose", "size", "images", "abort"}
        /\ ~job'.installed /\ job'.app \in Uri
    BY Zenon, <1>0, <1>6 DEF PullApp, CheckAppUpdateSize, FetchFails, Goto, Job, Pulling
  <2> QED BY Zenon, <2>1 DEF Pulling
<1>7. CASE PullImage
  <2>1. job'.at \in {"abort", "index"} /\ ~job'.installed /\ job'.app = job.app
    BY Zenon, <1>0, <1>7, PullImageSteps DEF Pulling
  <2>2. job'.at = "index" => job'.image \in Image
    BY Zenon, <1>0, <1>7, PullImageSteps DEF Job
  <2>3. job.app \in Uri
    BY Zenon, <1>0, <1>7, PullImageSteps DEF Pulling
  <2> QED BY Zenon, <2>1, <2>2, <2>3 DEF Pulling
<1>8. CASE PullIndex
  <2>1. job'.at = "images" /\ ~job'.installed /\ job'.app \in Uri
    BY Zenon, <1>0, <1>8 DEF PullIndex, Job, Pulling
  <2> QED BY Zenon, <2>1 DEF Pulling
<1>9. CASE FetchAppDone
  <2>1. job'.at = "fetch" /\ ~job'.installed
    BY Zenon, <1>0, <1>9 DEF FetchAppDone, Job, Pulling
  <2> QED BY Zenon, <2>1 DEF Pulling
<1>10. CASE StartRun \/ RunApp \/ RunAppFails
  <2>1. job'.at = "run" /\ job'.installed
    BY ZenonT(30), <1>0, <1>10 DEF StartRun, RunApp, RunAppFails, Job
  <2> QED BY Zenon, <2>1 DEF Pulling
<1>11. CASE RunDone \/ Prune \/ PruneBlob \/ PruneDocker
  <2>1. job'.at \in {"idle", "prune", "blobs", "save"}
    BY Zenon, <1>0, <1>11, Places
  <2> QED BY Zenon, <2>1 DEF Pulling
<1>12. CASE Save
  <2>1. job'.at = "idle" \/ (job'.at = "fetch" /\ ~job'.installed)
    BY Zenon, <1>0, <1>12, IdleJob DEF Save, Job
  <2> QED BY Zenon, <2>1 DEF Pulling
<1>13. CASE FetchAbort \/ Crash \/ Publish \/ DockerFails \/ UNCHANGED vars
  BY Zenon, <1>1, <1>13 DEF FetchAbort, Crash, Publish, DockerFails, vars
<1> HIDE DEF Shape
<1> QED BY <1>2, <1>3, <1>4, <1>5, <1>6, <1>7, <1>8, <1>9, <1>10, <1>11, <1>12, <1>13, Zenon
        DEF Next, Daemon

-----------------------------------------------------------------------------
(* The App in work. *)

\* What has been fetched of the App stays.
LEMMA AppNext ==
  ASSUME TypeOK, ShapeInv, AppInv, [Next]_vars
  PROVE  AppInv'
<1>0. job \in Job /\ StoreTypes
  BY Zenon DEF TypeOK, StoreTypes
<1> DEFINE Other == job'.at \notin {"manifest", "compose", "size", "images", "index"}
<1>1. CASE Other
  BY Zenon, <1>1 DEF AppInv
<1>2. CASE UNCHANGED <<job, dirs, blobs>>
  BY Zenon, <1>2 DEF AppInv, HasImage, IsArchiveFetched, IsImageFetched
<1>3. CASE FetchApp
  <2>1. PICK u \in job.left :
          job' = [job EXCEPT !.at = IF IsAppFetched(u) THEN "size" ELSE "archive",
                             !.app = u, !.left = @ \ {u}]
    BY Zenon, <1>3 DEF FetchApp
  <2>2. u \in Uri /\ job'.app = u
    BY Zenon, <1>0, <2>1 DEF Job
  <2>5. job'.at = IF IsAppFetched(u) THEN "size" ELSE "archive"
    BY Zenon, <1>0, <2>1 DEF Job
  <2>6. job'.at = "archive" \/ (job'.at = "size" /\ IsArchiveFetched(u))
    BY Zenon, <2>5 DEF IsAppFetched
  <2>3. ~Removing
    BY Zenon, <1>3, NotRemoving DEF FetchApp, counts
  <2>4. IsArchiveFetched(u) => IsArchiveFetched(u)'
    BY Zenon, <2>2, <2>3, StepsGrow, GrowKeeps
  <2> QED BY Zenon, <2>2, <2>4, <2>6 DEF AppInv, IsArchiveFetched
<1>4. CASE PullApp \/ CheckAppUpdateSize \/ PullImage \/ PullIndex
  <2>1. job.at \in Pulling
    BY Zenon, <1>0, <1>4, PullImageSteps DEF PullApp, CheckAppUpdateSize, PullIndex, Pulling
  <2>2. PICK u \in Uri : u = job.app
    BY Zenon, <2>1 DEF ShapeInv
  <2>12. crashes' = crashes
    BY Zenon, <1>4 DEF PullApp, CheckAppUpdateSize, PullImage, PullIndex, counts
  <2>3. StoreGrows /\ StoreTypes'
    BY Zenon, <2>1, <2>12, NotRemoving, StepsGrow DEF Pulling
  <2>4. job'.app = u
    BY Zenon, <1>0, <1>4, <2>2, PullImageSteps DEF PullApp, CheckAppUpdateSize, PullIndex, Goto, Job
  <2>5. /\ dirs[u].archive = "ok" => dirs'[u].archive = "ok"
        /\ IsArchiveFetched(u) => IsArchiveFetched(u)'
        /\ \A i \in Image : IsImageFetched(dirs[u], i) => IsImageFetched(dirs[u], i)'
    BY Zenon, <2>3, GrowKeeps DEF StoreGrows
  <2>6. /\ job.at = "manifest" => dirs[u].archive = "ok"
        /\ job.at \in {"compose", "size", "images", "index"} => IsArchiveFetched(u)
        /\ job.at = "images" => \A i \in ImagesOf[u] \ job.images : IsImageFetched(dirs[u], i)
        /\ job.at = "index" =>
             /\ \A i \in ImagesOf[u] \ (job.images \union {job.image}) :
                  IsImageFetched(dirs[u], i)
             /\ \A b \in {ConfigOf[job.image]} \union LayersOf[job.image] : blobs[b] = "ok"
    BY Zenon, <2>2 DEF AppInv, HasImage
  <2>7. SUFFICES
          /\ job'.at = "manifest" => dirs'[u].archive = "ok"
          /\ job'.at \in {"compose", "size", "images", "index"} => IsArchiveFetched(u)'
          /\ job'.at = "images" =>
               \A i \in ImagesOf[u] \ job'.images : IsImageFetched(dirs[u], i)'
          /\ job'.at = "index" =>
               /\ \A i \in ImagesOf[u] \ (job'.images \union {job'.image}) :
                    IsImageFetched(dirs[u], i)'
               /\ \A b \in {ConfigOf[job'.image]} \union LayersOf[job'.image] : blobs'[b] = "ok"
    BY Zenon, <2>4 DEF AppInv, HasImage, IsArchiveFetched, IsImageFetched
  <2>8. CASE PullApp
    <3>1. dirs'[u][job.at] = "ok"
      BY Zenon, <1>0, <2>2, <2>8, PullAppGrows DEF ShapeInv, DirsExist
    <3>2. \/ job.at = "archive" /\ job'.at = "manifest"
          \/ job.at = "manifest" /\ job'.at = "compose"
          \/ job.at = "compose" /\ job'.at = "size"
      BY Zenon, <1>0, <2>8 DEF PullApp, Goto, Job
    <3> QED BY Zenon, <2>5, <2>6, <3>1, <3>2 DEF IsArchiveFetched
  <2>9. CASE CheckAppUpdateSize
    <3>1. job.at = "size" /\ job'.at = "images" /\ job'.images = ImagesOf[u]
      BY Zenon, <1>0, <2>2, <2>9 DEF CheckAppUpdateSize, Job
    <3> QED BY Zenon, <2>5, <2>6, <3>1
  <2>10. CASE PullImage
    <3>1. CASE job'.at = "abort"
      BY Zenon, <3>1
    <3>2. CASE job'.at # "abort"
      <4>1. PICK i \in job.images :
              /\ job'.at = "index" /\ job'.image = i /\ job'.images = job.images \ {i}
              /\ blobs' = [b \in Blob |-> IF b \in {ConfigOf[i]} \union LayersOf[i]
                                          THEN "ok" ELSE blobs[b]]
        BY Zenon, <1>0, <2>10, <3>2, PullImageSteps
      <4>2. i \in Image
        BY Zenon, <1>0 DEF Job
      <4>3. \A b \in {ConfigOf[i]} \union LayersOf[i] : blobs'[b] = "ok"
        BY Zenon, <4>1, <4>2, Contents
      <4>4. job.at = "images"
        BY Zenon, <1>0, <2>10, PullImageSteps
      <4> QED BY Zenon, <2>5, <2>6, <4>1, <4>3, <4>4, Contents
    <3> QED BY Zenon, <3>1, <3>2
  <2>11. CASE PullIndex
    <3>1. /\ job.at = "index" /\ job'.at = "images" /\ job'.images = job.images
          /\ blobs' = [blobs EXCEPT ![ManifestOf[job.image]] = "ok"]
          /\ dirs' = [dirs EXCEPT ![u].index[job.image] = "ok"]
      BY Zenon, <1>0, <2>2, <2>11 DEF PullIndex, Job
    <3>2. PICK i \in Image : i = job.image
      BY Zenon, <3>1 DEF ShapeInv
    <3>3. dirs'[u].index[i] = "ok"
      <4>1. dirs[u] \in Dir /\ dirs[u].index \in [Image -> File]
        BY Zenon, <1>0 DEF StoreTypes, Dir
      <4>2. dirs'[u] = [dirs[u] EXCEPT !.index[i] = "ok"]
        BY Zenon, <1>0, <3>1, <3>2 DEF StoreTypes
      <4> QED BY Zenon, <4>1, <4>2 DEF Dir
    <3>4. blobs'[ManifestOf[i]] = "ok"
      BY Zenon, <1>0, <3>1, <3>2, Contents DEF StoreTypes
    <3>5. \A b \in {ConfigOf[i]} \union LayersOf[i] : blobs'[b] = "ok"
      BY Zenon, <2>3, <2>6, <3>1, <3>2, Contents DEF StoreGrows
    <3>6. IsImageFetched(dirs[u], i)'
      BY Zenon, <3>3, <3>4, <3>5 DEF IsImageFetched
    <3> QED BY Zenon, <2>5, <2>6, <3>1, <3>2, <3>6, Contents
  <2> QED BY Zenon, <1>4, <2>8, <2>9, <2>10, <2>11
<1>5. CASE \/ StartCheck \/ CheckApp \/ CheckDone \/ FetchAppDone \/ FetchFails \/ FetchAbort
           \/ StartRun \/ RunApp \/ RunAppFails \/ RunDone
           \/ Prune \/ PruneBlob \/ PruneDocker \/ Save \/ Crash
  <2>1. Other
    BY Zenon, <1>0, <1>5, Places
  <2> QED BY Zenon, <1>1, <2>1
<1>6. CASE Publish \/ DockerFails \/ UNCHANGED vars
  BY Zenon, <1>2, <1>6 DEF Publish, DockerFails, vars, store
<1> HIDE DEF Other
<1> QED BY <1>3, <1>4, <1>5, <1>6, Zenon DEF Next, Daemon

-----------------------------------------------------------------------------
(* Pruning. *)

\* The Apps to keep are App versions.
LEMMA ShortlistType == TypeOK => Shortlist \subseteq Uri
BY Zenon DEF TypeOK, Job, Shortlist

\* prune keeps the directories of the shortlisted Apps that are complete, and
\* shortlists their blobs.
LEMMA PruneKeeps ==
  ASSUME TypeOK, ShapeInv, Prune, job'.at # "idle"
  PROVE  /\ job.at = "prune" /\ job'.at = "blobs" /\ job'.target = job.target
         /\ job'.left = job.left /\ job'.installed = job.installed
         /\ current' = current /\ Shortlist' = Shortlist
         /\ \A u \in Shortlist : Restorable(u) <=> Restorable(u)'
         /\ \A u \in Uri \ Shortlist : ~dirs'[u].exists
         /\ \A u \in Shortlist :
              Restorable(u) => \A i \in ImagesOf[u] : Needs(i) \subseteq job'.keep
         /\ \A b \in job'.keep : \E u \in Shortlist : \E i \in ImagesOf[u] : b \in Needs(i)
<1>1. /\ job.at = "prune" /\ blobs' = blobs /\ current' = current
      /\ dirs' = PrunedDirs
      /\ job' = [job EXCEPT !.at = "blobs", !.keep = BlobShortlist,
                   !.pruned = \E u \in Uri \ Shortlist : dirs[u].exists]
  BY Zenon, IdleJob DEF Prune, targets
<1>2. /\ job'.at = "blobs" /\ job'.target = job.target /\ job'.left = job.left
      /\ job'.installed = job.installed /\ job'.keep = BlobShortlist
  BY Zenon, <1>1 DEF TypeOK, Job
<1>3. Shortlist' = Shortlist
  BY Zenon, <1>1, <1>2 DEF Shortlist
<1>4. \A u \in Uri \ Shortlist : ~dirs'[u].exists
  BY Zenon, <1>1 DEF PrunedDirs, NoDir
<1>5. ASSUME NEW u \in Shortlist
      PROVE  Restorable(u) <=> Restorable(u)'
  <2>0. u \in Uri
    BY Zenon, ShortlistType
  <2> DEFINE index == [i \in Image |-> IF IsImageReadable(u, i)
                                       THEN dirs[u].index[i] ELSE "none"]
  <2>1. dirs'[u] = [dirs[u] EXCEPT !.index = index]
    BY Zenon, <1>1, <2>0 DEF PrunedDirs
  <2>2. \A i \in Image : /\ index[i] = "ok" => dirs[u].index[i] = "ok"
                         /\ IsImageReadable(u, i) => index[i] = "ok"
    BY Zenon DEF IsImageReadable
  <2> HIDE DEF index
  <2>3. /\ dirs'[u].manifest = dirs[u].manifest /\ dirs'[u].archive = dirs[u].archive
        /\ dirs'[u].index = index
    <3>1. dirs[u] \in Dir
      BY Zenon, <2>0 DEF TypeOK
    <3> QED BY Zenon, <2>1, <3>1 DEF Dir
  <2> QED BY Zenon, <1>1, <2>0, <2>2, <2>3, Contents DEF Restorable, IsImageReadable
<1>6. ASSUME NEW u \in Shortlist, Restorable(u), NEW i \in ImagesOf[u]
      PROVE  Needs(i) \subseteq BlobShortlist
  <2>1. u \in Uri /\ dirs[u].exists
    BY Zenon, <1>6, ShortlistType DEF Restorable, ShapeInv
  <2>2. IsImageReadable(u, i)
    BY Zenon, <1>6 DEF Restorable, IsImageReadable
  <2>3. Needs(i) \subseteq ImageShortlist(u, i)
    BY Zenon, <2>2 DEF Needs, ImageShortlist
  <2>4. ImageShortlist(u, i) \subseteq BlobShortlist
    <3> HIDE DEF ImageShortlist
    <3> QED BY <2>1 DEF BlobShortlist
  <2> QED BY Zenon, <2>3, <2>4
<1>7. ASSUME NEW b \in BlobShortlist
      PROVE  \E u \in Shortlist : \E i \in ImagesOf[u] : b \in Needs(i)
  <2>1. PICK u \in Shortlist : \E i \in ImagesOf[u] : b \in ImageShortlist(u, i)
    BY DEF BlobShortlist
  <2>2. PICK i \in ImagesOf[u] : b \in ImageShortlist(u, i)
    BY Zenon, <2>1
  <2>3. b \in Needs(i)
    BY Zenon, <2>2 DEF ImageShortlist, Needs
  <2> QED BY Zenon, <2>3
<1> QED BY Zenon, <1>1, <1>2, <1>3, <1>4, <1>5, <1>6, <1>7

\* prune removes only blobs that no shortlisted App needs.
LEMMA PruneBlobKeeps ==
  ASSUME TypeOK, PruneInv, PruneBlob
  PROVE  /\ job.at = "blobs" /\ job'.at = "blobs" /\ job'.target = job.target
         /\ job'.left = job.left /\ job'.installed = job.installed /\ job'.keep = job.keep
         /\ dirs' = dirs /\ current' = current /\ Shortlist' = Shortlist
         /\ \A u \in Shortlist : Restorable(u) <=> Restorable(u)'
<1>1. /\ job.at = "blobs" /\ dirs' = dirs /\ current' = current
      /\ job' = [job EXCEPT !.pruned = TRUE]
  BY Zenon DEF PruneBlob, targets
<1>2. PICK b \in Blob : b \notin job.keep /\ blobs' = [blobs EXCEPT ![b] = "none"]
  BY Zenon DEF PruneBlob
<1>3. /\ job'.at = job.at /\ job'.target = job.target /\ job'.left = job.left
      /\ job'.installed = job.installed /\ job'.keep = job.keep
  BY Zenon, <1>1 DEF TypeOK, Job
<1>4. Shortlist' = Shortlist
  BY Zenon, <1>1, <1>3 DEF Shortlist
<1>5. \A c \in Blob : /\ blobs'[c] = "ok" => blobs[c] = "ok"
                      /\ blobs[c] = "ok" /\ c # b => blobs'[c] = "ok"
  BY Zenon, <1>2 DEF TypeOK
<1>6. ASSUME NEW u \in Shortlist
      PROVE  Restorable(u) <=> Restorable(u)'
  <2>0. u \in Uri /\ \A i \in ImagesOf[u] : Needs(i) \subseteq Blob
    BY Zenon, ShortlistType, Contents DEF Needs
  <2>1. Restorable(u) => \A i \in ImagesOf[u] : b \notin Needs(i)
    BY Zenon, <1>1, <1>2 DEF PruneInv
  <2>2. /\ Restorable(u) <=>
             /\ dirs[u].manifest = "ok" /\ dirs[u].archive = "ok"
             /\ \A i \in ImagesOf[u] :
                  dirs[u].index[i] = "ok" /\ \A c \in Needs(i) : blobs[c] = "ok"
        /\ Restorable(u)' <=>
             /\ dirs[u].manifest = "ok" /\ dirs[u].archive = "ok"
             /\ \A i \in ImagesOf[u] :
                  dirs[u].index[i] = "ok" /\ \A c \in Needs(i) : blobs'[c] = "ok"
    BY Zenon, <1>1 DEF Restorable, Needs
  <2> QED BY Zenon, <1>5, <2>0, <2>1, <2>2
<1> QED BY Zenon, <1>1, <1>3, <1>4, <1>6

-----------------------------------------------------------------------------
(* The Apps of the Target. *)

\* An App that is checked and found complete, or fetched, stays complete until
\* the Target is recorded.
LEMMA TargetNext ==
  ASSUME TypeOK, ShapeInv, AppInv, TargetInv, PruneInv, [Next]_vars
  PROVE  TargetInv'
<1>0. /\ job \in Job /\ job.target \subseteq Uri /\ job.left \subseteq Uri
      /\ job.todo \subseteq Uri /\ job.installed \in BOOLEAN
  BY Zenon DEF TypeOK, Job
<1> DEFINE Kept == \A u \in Uri : Restorable(u) => Restorable(u)'
<1>1. ~Removing => Kept
  BY Zenon, StepsGrow, GrowKeeps
<1>2. crashes' = crashes /\ job.at \notin {"abort", "prune", "blobs"} => Kept
  BY Zenon, <1>1, NotRemoving
<1>3. CASE job'.at \in {"idle", "abort", "docker"}
  BY Zenon, <1>3 DEF TargetInv, Pulling
<1>4. CASE UNCHANGED <<job, dirs, blobs, current>>
  <2>1. \A u \in Uri : Restorable(u)' <=> Restorable(u)
    BY Zenon, <1>4 DEF Restorable
  <2> QED BY Zenon, <1>0, <1>4, <2>1 DEF TargetInv
<1>5. CASE StartCheck
  <2>1. job'.at = "check" /\ job'.target = job'.left
    BY <1>5 DEF StartCheck, NoJob
  <2> QED BY Zenon, <2>1 DEF TargetInv, Pulling
<1>6. CASE CheckApp
  <2>6. PICK u \in job.left :
          job' = [job EXCEPT !.left = @ \ {u},
                    !.todo = IF u \in current /\ IsRunning(u) /\ IsAppFetched(u)
                             THEN @ ELSE @ \union {u}]
    BY Zenon, <1>6 DEF CheckApp
  <2>7. job.at = "check"
    BY Zenon, <1>6 DEF CheckApp
  <2>1. /\ job'.at = "check" /\ job'.left = job.left \ {u} /\ job'.target = job.target
        /\ job'.todo = IF u \in current /\ IsRunning(u) /\ IsAppFetched(u)
                       THEN job.todo ELSE job.todo \union {u}
    BY Zenon, <1>0, <2>6, <2>7 DEF Job
  <2>2. Kept /\ current' = current /\ job.at = "check"
    BY Zenon, <1>2, <1>6 DEF CheckApp, counts, targets
  <2>3. u \in Uri
    BY Zenon, <1>0
  <2>4. u \in job'.todo \/ (u \in current /\ Restorable(u))
    BY Zenon, <2>1, <2>3, FetchedIsRestorable
  <2>5. ASSUME NEW v \in job.target \ job'.left
        PROVE  v \in job'.todo \/ (v \in current /\ Restorable(v)')
    BY Zenon, <1>0, <2>1, <2>2, <2>4 DEF TargetInv
  <2> QED BY Zenon, <2>1, <2>2, <2>5 DEF TargetInv, Pulling
<1>7. CASE CheckDone
  <2>1. /\ job.at = "check" /\ job.left = {} /\ current' = current /\ Kept
        /\ job'.at = (IF job.todo = {} THEN "prune" ELSE "fetch")
        /\ job'.left = job.todo /\ job'.target = job.target
        /\ job'.installed = job.installed /\ ~job.installed
    BY Zenon, <1>0, <1>2, <1>7 DEF CheckDone, Job, targets, counts, ShapeInv
  <2>2. \A u \in job.target : u \in job.todo \/ (u \in current /\ Restorable(u)')
    BY Zenon, <1>0, <2>1 DEF TargetInv
  <2> QED BY Zenon, <2>1, <2>2 DEF TargetInv, Pulling
<1>8. CASE FetchApp
  <2>1. PICK u \in job.left :
          /\ job'.at \in {"size", "archive"} /\ job'.app = u
          /\ job'.left = job.left \ {u} /\ job'.target = job.target
    BY Zenon, <1>0, <1>8 DEF FetchApp, Job
  <2>2. Kept /\ job.at = "fetch"
    BY Zenon, <1>2, <1>8 DEF FetchApp, counts
  <2>3. \A v \in job.target : v \in job'.left \/ Restorable(v)' \/ v = job'.app
    BY Zenon, <1>0, <2>1, <2>2 DEF TargetInv
  <2> QED BY Zenon, <2>1, <2>3 DEF TargetInv, Pulling
<1>9. CASE PullApp \/ CheckAppUpdateSize \/ PullImage \/ PullIndex
  <2>1. /\ job.at \in Pulling /\ job'.at \in Pulling \union {"abort"} /\ job'.app = job.app
        /\ job'.left = job.left /\ job'.target = job.target
    <3>1. CASE PullApp \/ CheckAppUpdateSize
      BY Zenon, <1>0, <3>1 DEF PullApp, CheckAppUpdateSize, Goto, Job, Pulling
    <3>2. CASE PullImage
      BY Zenon, <1>0, <3>2, PullImageSteps DEF Pulling
    <3>3. CASE PullIndex
      BY Zenon, <1>0, <3>3 DEF PullIndex, Job, Pulling
    <3> QED BY Zenon, <1>9, <3>1, <3>2, <3>3
  <2>2. crashes' = crashes
    BY Zenon, <1>9 DEF PullApp, CheckAppUpdateSize, PullImage, PullIndex, counts
  <2>3. Kept
    BY Zenon, <1>2, <2>1, <2>2 DEF Pulling
  <2>4. \A v \in job.target : v \in job'.left \/ Restorable(v)' \/ v = job'.app
    BY Zenon, <1>0, <2>1, <2>3 DEF TargetInv, Pulling
  <2> QED BY Zenon, <2>1, <2>4 DEF TargetInv, Pulling
<1>10. CASE FetchAppDone
  <2>1. /\ job.at = "images" /\ job.images = {} /\ job'.at = "fetch"
        /\ job'.left = job.left /\ job'.target = job.target /\ dirs' = dirs /\ blobs' = blobs
    BY Zenon, <1>0, <1>10 DEF FetchAppDone, Job, store
  <2>2. PICK u \in Uri : u = job.app
    BY Zenon, <2>1 DEF ShapeInv, Pulling
  <2>3. IsAppFetched(u)
    BY Zenon, <2>1, <2>2 DEF AppInv, HasImage, IsAppFetched, AreAppImagesFetched
  <2>4. \A v \in job.target : v \in job.left \/ Restorable(v)
    BY Zenon, <2>1, <2>2, <2>3, FetchedIsRestorable DEF TargetInv, Pulling
  <2>5. \A v \in job.target : Restorable(v) => Restorable(v)'
    BY Zenon, <2>1 DEF Restorable
  <2> QED BY Zenon, <2>1, <2>4, <2>5 DEF TargetInv, Pulling
<1>11. CASE StartRun
  <2>1. /\ job.at = "fetch" /\ job.left = {} /\ job'.at = "run" /\ job'.target = job.target
        /\ dirs' = dirs /\ blobs' = blobs
    BY Zenon, <1>0, <1>11 DEF StartRun, Job, store
  <2>2. \A v \in job.target : Restorable(v)'
    BY Zenon, <2>1 DEF TargetInv, Restorable
  <2> QED BY Zenon, <2>1, <2>2 DEF TargetInv, Pulling
<1>12. CASE RunApp \/ RunAppFails
  <2>1. /\ job.at = "run" /\ job'.at = "run" /\ job'.target = job.target
        /\ dirs' = dirs /\ blobs' = blobs
    BY Zenon, <1>0, <1>12 DEF RunApp, RunAppFails, Job, store
  <2>2. \A v \in job.target : Restorable(v)'
    BY Zenon, <2>1 DEF TargetInv, Restorable
  <2> QED BY Zenon, <2>1, <2>2 DEF TargetInv, Pulling
<1>13. CASE RunDone
  <2>1. CASE job' = NoJob
    BY Zenon, <1>3, <2>1, IdleJob
  <2>2. CASE job' = [job EXCEPT !.at = "prune"]
    <3>1. /\ job.at = "run" /\ job.left = {} /\ job'.at = "prune" /\ job'.left = job.left
          /\ job'.target = job.target /\ job'.installed = job.installed
          /\ dirs' = dirs /\ blobs' = blobs /\ job.installed
      BY Zenon, <1>0, <1>13, <2>2 DEF RunDone, Job, store, ShapeInv
    <3>2. \A v \in job.target : Restorable(v)'
      BY Zenon, <3>1 DEF TargetInv, Restorable
    <3> QED BY Zenon, <3>1, <3>2 DEF TargetInv, Pulling
  <2> QED BY Zenon, <1>13, <2>1, <2>2 DEF RunDone
<1>14. job.at \in {"prune", "blobs", "save"} => job.target \subseteq Shortlist
  BY Zenon DEF TargetInv, Shortlist
<1>15. CASE Prune
  <2>1. CASE job'.at = "idle"
    BY Zenon, <1>3, <2>1
  <2>2. CASE job'.at # "idle"
    <3>1. /\ job.at = "prune" /\ job'.at = "blobs" /\ job'.target = job.target
          /\ job'.left = job.left /\ job'.installed = job.installed /\ current' = current
          /\ \A u \in Shortlist : Restorable(u) => Restorable(u)'
      BY Zenon, <1>15, <2>2, PruneKeeps
    <3>2. \A v \in job.target : Restorable(v)'
      BY Zenon, <1>14, <3>1 DEF TargetInv
    <3> QED BY Zenon, <3>1, <3>2 DEF TargetInv, Pulling
  <2> QED BY Zenon, <2>1, <2>2
<1>16. CASE PruneBlob
  <2>1. /\ job.at = "blobs" /\ job'.at = "blobs" /\ job'.target = job.target
        /\ job'.left = job.left /\ job'.installed = job.installed /\ current' = current
        /\ \A u \in Shortlist : Restorable(u) => Restorable(u)'
    BY Zenon, <1>16, PruneBlobKeeps
  <2>2. \A v \in job.target : Restorable(v)'
    BY Zenon, <1>14, <2>1 DEF TargetInv
  <2> QED BY Zenon, <2>1, <2>2 DEF TargetInv, Pulling
<1>17. CASE PruneDocker
  <2>1. /\ job.at = "blobs" /\ job'.at = "save" /\ job'.left = job.left
        /\ job'.target = job.target /\ job'.installed = job.installed
        /\ dirs' = dirs /\ blobs' = blobs /\ current' = current
    BY Zenon, <1>0, <1>17 DEF PruneDocker, Goto, Job, store, targets
  <2>2. \A v \in job.target : Restorable(v)'
    BY Zenon, <2>1 DEF TargetInv, Restorable
  <2> QED BY Zenon, <2>1, <2>2 DEF TargetInv, Pulling
<1>18. CASE Save
  <2>1. CASE job' = NoJob
    BY Zenon, <1>3, <2>1, IdleJob
  <2>2. CASE job' = [job EXCEPT !.at = "fetch"]
    <3>1. /\ job.at = "save" /\ job'.at = "fetch" /\ job'.target = job.target
          /\ dirs' = dirs /\ blobs' = blobs
      BY Zenon, <1>0, <1>18, <2>2 DEF Save, Job, store
    <3>2. \A v \in job.target : Restorable(v)'
      BY Zenon, <3>1 DEF TargetInv, Restorable
    <3> QED BY Zenon, <3>1, <3>2 DEF TargetInv, Pulling
  <2> QED BY Zenon, <1>18, <2>1, <2>2 DEF Save
<1>19. CASE FetchFails
  <2>1. job'.at = "abort"
    BY Zenon, <1>0, <1>19 DEF FetchFails, Goto, Job
  <2> QED BY Zenon, <1>3, <2>1
<1>20. CASE FetchAbort \/ Crash
  BY Zenon, <1>3, <1>20, IdleJob DEF FetchAbort, Crash
<1>21. CASE Publish \/ DockerFails \/ UNCHANGED vars
  BY Zenon, <1>4, <1>21 DEF Publish, DockerFails, vars, store, targets
<1> HIDE DEF Kept
<1> QED BY Zenon, <1>5, <1>6, <1>7, <1>8, <1>9, <1>10, <1>11, <1>12, <1>13, <1>15, <1>16, <1>17,
        <1>18, <1>19, <1>20, <1>21, Zenon DEF Next, Daemon

-----------------------------------------------------------------------------
(* What is pruned. *)

\* Nothing but the shortlisted Apps' files is left.
LEMMA PruneNext ==
  ASSUME TypeOK, ShapeInv, PruneInv, [Next]_vars
  PROVE  PruneInv'
<1>0. job \in Job
  BY Zenon DEF TypeOK
<1>1. CASE job'.at \notin {"blobs", "save"}
  BY Zenon, <1>1 DEF PruneInv
<1>2. CASE Prune
  <2>1. CASE job'.at = "idle"
    BY Zenon, <1>1, <2>1
  <2>2. CASE job'.at # "idle"
    BY Zenon, <1>2, <2>2, PruneKeeps DEF PruneInv
  <2> QED BY Zenon, <2>1, <2>2
<1>3. CASE PruneBlob
  BY Zenon, <1>3, PruneBlobKeeps DEF PruneInv
<1>4. CASE PruneDocker
  <2>1. /\ job.at = "blobs" /\ job'.at = "save" /\ dirs' = dirs /\ current' = current
        /\ job'.target = job.target /\ job'.installed = job.installed
    BY Zenon, <1>0, <1>4 DEF PruneDocker, Goto, Job, store, targets
  <2>2. Shortlist' = Shortlist
    BY Zenon, <2>1 DEF Shortlist
  <2> QED BY Zenon, <2>1, <2>2 DEF PruneInv
<1>5. CASE Publish \/ DockerFails \/ UNCHANGED vars
  <2>1. UNCHANGED <<job, dirs, blobs, current>>
    BY Zenon, <1>5 DEF Publish, DockerFails, vars, store, targets
  <2>2. Shortlist' = Shortlist /\ \A u \in Uri : Restorable(u)' <=> Restorable(u)
    BY Zenon, <2>1 DEF Shortlist, Restorable
  <2> QED BY Zenon, <2>1, <2>2, ShortlistType DEF PruneInv
<1>6. CASE ~PruneDocker /\ ~Prune /\ ~PruneBlob /\ ~Publish /\ ~DockerFails /\ Next
  <2>1. job'.at \notin {"blobs", "save"}
    BY <1>0, <1>6, Places, Zenon DEF Next, Daemon
  <2> QED BY Zenon, <1>1, <2>1
<1> QED BY Zenon, <1>2, <1>3, <1>4, <1>5, <1>6

\* When the docker store is pruned, the last step before the Target is recorded,
\* every blob that is left is shortlisted.
LEMMA ExactNext ==
  ASSUME TypeOK, ShapeInv, TargetInv, PruneInv, StoreIsExact, [Next]_vars,
         TargetInv', PruneInv', TypeOK'
  PROVE  StoreIsExact'
<1>0. job \in Job
  BY Zenon DEF TypeOK
<1>1. CASE job'.at # "save"
  BY Zenon, <1>1 DEF StoreIsExact
<1>2. CASE PruneDocker
  <2>1. /\ job.at = "blobs" /\ job'.at = "save" /\ dirs' = dirs /\ blobs' = blobs
        /\ current' = current /\ job'.target = job.target /\ job'.installed = job.installed
        /\ \A b \in Blob \ job.keep : blobs[b] = "none"
    BY Zenon, <1>0, <1>2 DEF PruneDocker, Goto, Job, store, targets
  <2>2. SUFFICES ASSUME job.installed PROVE StoreIsExact'
    BY Zenon, <2>1 DEF StoreIsExact
  <2>3. Shortlist = job.target
    BY Zenon, <2>2 DEF Shortlist
  <2>4. \A u \in job.target : Restorable(u)'
    BY Zenon, <2>1 DEF TargetInv
  <2>5. \A u \in Uri \ job.target : ~dirs'[u].exists
    BY Zenon, <2>1, <2>3 DEF PruneInv
  <2>6. \A b \in Blob : blobs'[b] # "none" =>
          \E u \in job.target : \E i \in ImagesOf[u] : b \in Needs(i)
    BY Zenon, <2>1, <2>3 DEF PruneInv
  <2> QED BY Zenon, <2>1, <2>4, <2>5, <2>6 DEF StoreIsExact, Needs
<1>3. CASE Publish \/ DockerFails \/ UNCHANGED vars
  <2>1. UNCHANGED <<job, dirs, blobs>>
    BY Zenon, <1>3 DEF Publish, DockerFails, vars, store
  <2> QED BY Zenon, <2>1 DEF StoreIsExact, Restorable
<1>4. CASE Prune
  BY Zenon, <1>0, <1>1, <1>4, Places
<1>5. CASE PruneBlob
  BY Zenon, <1>0, <1>1, <1>5, Places
<1>6. CASE ~PruneDocker /\ ~Prune /\ ~PruneBlob /\ ~Publish /\ ~DockerFails /\ Next
  <2>1. job'.at \notin {"blobs", "save"}
    BY <1>0, <1>6, Places, Zenon DEF Next, Daemon
  <2> QED BY Zenon, <1>1, <2>1
<1> QED BY Zenon, <1>2, <1>3, <1>4, <1>5, <1>6

-----------------------------------------------------------------------------
(* The theorems. *)

\* The store is empty at first.
LEMMA InvInit == Init => Inv
<1> SUFFICES ASSUME Init PROVE Inv
  BY Zenon
<1>1. NoDir \in Dir /\ NoDir.archive = "none"
  BY Zenon DEF NoDir, Dir, File
<1>2. dirs \in [Uri -> Dir] /\ blobs \in [Blob -> File]
  BY Zenon, <1>1 DEF Init, File
<1>3. job \in Job /\ job.at = "idle"
  BY Zenon, NoJobType, IdleJob DEF Init
<1>4. /\ failures \in 0 .. MaxFailures /\ crashes \in 0 .. MaxCrashes
      /\ publishes \in 0 .. MaxPublish
  BY AppStoreAssumption DEF Init
<1>5. TypeOK
  BY Zenon, <1>2, <1>3, <1>4 DEF Init, TypeOK
<1>6. ShapeInv
  BY Zenon, <1>1, <1>3 DEF Init, ShapeInv, Pulling
<1> QED BY Zenon, <1>3, <1>5, <1>6 DEF Inv, AppInv, TargetInv, PruneInv, StoreIsExact, Pulling

\* The inductive invariant of the store.
THEOREM InvHolds == Spec => []Inv
<1>1. Inv /\ [Next]_vars => Inv'
  BY Zenon, TypeNext, ShapeNext, AppNext, TargetNext, PruneNext, ExactNext DEF Inv
<1> QED BY <1>1, InvInit, PTL DEF Spec

\* The state of the store is always of its type.
THEOREM StoreIsTyped == Spec => []TypeOK
<1>1. Inv => TypeOK
  BY Zenon DEF Inv
<1> QED BY <1>1, InvHolds, PTL

\* LiteClient::install records a Target as the current one only when each of its
\* Apps is complete in the store and prune has removed everything else, whatever
\* the Apps share, whenever power cuts break files and fetches fail.
THEOREM StoreOfCurrentIsExact == Spec => []StoreIsExact
<1>1. Inv => StoreIsExact
  BY Zenon DEF Inv
<1> QED BY <1>1, InvHolds, PTL

\* RestorableAppEngine::prune never takes a file from a complete App of its
\* shortlist.
THEOREM PruneKeepsShortlist == Spec => PruneKeepsTarget
<1>1. Inv /\ [Next]_vars =>
        [job.at \in {"prune", "blobs"} /\ job'.at # "idle"
           => \A u \in Shortlist : Restorable(u) => Restorable(u)']_vars
  <2> SUFFICES ASSUME Inv, [Next]_vars, job.at \in {"prune", "blobs"}, job'.at # "idle",
                      NEW u \in Shortlist, Restorable(u)
               PROVE  Restorable(u)'
    BY Zenon
  <2>0. TypeOK /\ ShapeInv /\ PruneInv /\ u \in Uri
    BY Zenon, ShortlistType DEF Inv
  <2>1. CASE Prune
    BY Zenon, <2>0, <2>1, PruneKeeps
  <2>2. CASE PruneBlob
    BY Zenon, <2>0, <2>2, PruneBlobKeeps
  <2>3. CASE ~Prune /\ ~PruneBlob
    <3>1. ~Crash /\ ~FetchAbort
      BY Zenon, IdleJob DEF Crash, FetchAbort
    <3>2. StoreGrows
      BY Zenon, <2>0, <2>3, <3>1, StepsGrow DEF Removing
    <3> QED BY Zenon, <2>0, <3>2, GrowKeeps
  <2> QED BY Zenon, <2>1, <2>2, <2>3
<1> QED BY <1>1, InvHolds, PTL DEF Spec, PruneKeepsTarget
=============================================================================
