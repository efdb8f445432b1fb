------------------------------- MODULE AppStore -------------------------------
(***************************************************************************)
(* The store of the restorable App engine (RestorableAppEngine): a         *)
(* directory per App version, with the App's manifest, archive and compose *)
(* file and an index per image, and the blobs (image manifests, configs,   *)
(* layers) that images and Apps share.  The daemon's cycle drives it:      *)
(* check the Apps of a Target, fetch what is missing, install and run,     *)
(* prune, record the Target as the current one.                            *)
(*                                                                         *)
(* Each file is a step, so that a power cut may come between any two, and  *)
(* it may break a file.  A broken file is one the engine can tell: a       *)
(* different hash, or a different size for a layer.  UpdateAgent models    *)
(* the update logic around the store, which is reduced to a set of fetched *)
(* Apps there.                                                             *)
(***************************************************************************)
EXTENDS Naturals

CONSTANTS
  Uri, NoUri,    \* App versions
  Name,          \* App names
  Image, NoImage, Blob,
  NameOf,        \* [Uri -> Name]
  ImagesOf,      \* [Uri -> SUBSET Image], from the App's compose file
  ManifestOf, ConfigOf,   \* [Image -> Blob]
  LayersOf,      \* [Image -> SUBSET Blob]
  Targets,       \* sets of App versions, one of a name at most
  Breakable,     \* the kinds of file a power cut may break, see AllKinds
  Failures,      \* the kinds of failure that may happen
  MaxFailures, MaxCrashes, MaxPublish

AllKinds == {"manifest", "archive", "compose", "index", "image manifest",
             "config", "layer"}

\* The registries or the disk, the docker compose utility, the loss of the
\* docker store.
AllFailures == {"download", "compose", "docker"}

ASSUME AppStoreAssumption ==
  /\ NoUri \notin Uri /\ NoImage \notin Image
  /\ NameOf \in [Uri -> Name] /\ ImagesOf \in [Uri -> SUBSET Image]
  /\ {ManifestOf, ConfigOf} \subseteq [Image -> Blob]
  /\ LayersOf \in [Image -> SUBSET Blob]
  /\ Targets \subseteq SUBSET Uri
  /\ \A t \in Targets : \A u, v \in t : NameOf[u] = NameOf[v] => u = v
  /\ Breakable \subseteq AllKinds /\ Failures \subseteq AllFailures
  /\ {MaxFailures, MaxCrashes, MaxPublish} \subseteq Nat

VARIABLES
  dirs,          \* apps/<name>/<hash> for each App version
  blobs,         \* blobs/sha256
  project,       \* the App version whose files are in compose_apps_root/<name>
  container,     \* the App version whose containers run, for each name
  images,        \* the images in the docker store
  current, published,    \* the Apps of the current and of the latest Target
  job, failures, crashes, publishes

store == <<dirs, blobs>>
docker == <<project, container, images>>
targets == <<current, published>>
counts == <<failures, crashes, publishes>>
vars == <<store, docker, targets, job, counts>>

-----------------------------------------------------------------------------
(* Types. *)

File == {"none", "broken", "ok"}
Dir == [exists : BOOLEAN, manifest : File, archive : File, compose : File,
        index : [Image -> File]]
NoDir == [exists |-> FALSE, manifest |-> "none", archive |-> "none",
          compose |-> "none", index |-> [i \in Image |-> "none"]]

\* The Apps to update, those left in the running loop, the App and images in
\* work, whether the Apps are installed and one has failed; for prune the blobs
\* to keep, and whether anything was removed.
Job == [at : {"idle", "check", "fetch", "archive", "manifest", "compose", "size",
              "images", "index", "abort", "run", "prune", "blobs", "docker", "save"},
        target : SUBSET Uri, todo : SUBSET Uri, left : SUBSET Uri,
        app : Uri \union {NoUri}, images : SUBSET Image,
        image : Image \union {NoImage}, installed : BOOLEAN, failed : BOOLEAN,
        keep : SUBSET Blob, pruned : BOOLEAN]
NoJob == [at |-> "idle", target |-> {}, todo |-> {}, left |-> {}, app |-> NoUri,
          images |-> {}, image |-> NoImage, installed |-> FALSE, failed |-> FALSE,
          keep |-> {}, pruned |-> FALSE]

TypeOK ==
  /\ dirs \in [Uri -> Dir]
  /\ blobs \in [Blob -> File]
  /\ project \in [Name -> Uri \union {NoUri}]
  /\ container \in [Name -> Uri \union {NoUri}]
  /\ images \subseteq Image
  /\ current \subseteq Uri /\ published \in Targets
  /\ job \in Job
  /\ failures \in 0 .. MaxFailures
  /\ crashes \in 0 .. MaxCrashes
  /\ publishes \in 0 .. MaxPublish

Fails(kind) ==
  /\ kind \in Failures
  /\ failures < MaxFailures
  /\ failures' = failures + 1

Goto(at) == job' = [job EXCEPT !.at = at]

-----------------------------------------------------------------------------
(* Is an App fetched? *)

IsImageFetched(d, i) ==
  /\ d.index[i] = "ok"
  /\ blobs[ManifestOf[i]] = "ok"
  /\ blobs[ConfigOf[i]] = "ok"
  /\ \A b \in LayersOf[i] : blobs[b] = "ok"

\* A slip: a layer need only be there.
AreAppImagesFetchedAnySize(u) ==
  \A i \in ImagesOf[u] :
     /\ dirs[u].index[i] = "ok"
     /\ blobs[ManifestOf[i]] = "ok" /\ blobs[ConfigOf[i]] = "ok"
     /\ \A b \in LayersOf[i] : blobs[b] # "none"

AreAppImagesFetched(u) == \A i \in ImagesOf[u] : IsImageFetched(dirs[u], i)

IsArchiveFetched(u) == dirs[u].manifest = "ok" /\ dirs[u].archive = "ok"

\* A slip: the images are left to skopeo.
IsAppFetchedArchive(u) == IsArchiveFetched(u)

IsAppFetched(u) == IsArchiveFetched(u) /\ AreAppImagesFetched(u)

\* What the check of an image that is not fetched leaves behind: it stops at
\* the first defect, and removes a broken index and a broken layer.
ImageChecked(d, i) ==
  IF d.index[i] = "broken"
  THEN {<<[d EXCEPT !.index[i] = "none"], blobs>>}
  ELSE IF d.index[i] = "ok" /\ blobs[ManifestOf[i]] = "ok" /\ blobs[ConfigOf[i]] = "ok"
  THEN {<<d, [blobs EXCEPT ![b] = "none"]>> : b \in {c \in LayersOf[i] : blobs[c] # "ok"}}
  ELSE {<<d, blobs>>}

\* What isAppFetched leaves behind: the compose file is taken from the archive
\* again, and the images are checked in the order of the file.
AppChecked(u) ==
  LET d == [dirs[u] EXCEPT !.compose = "ok"]
      defective == {i \in ImagesOf[u] : ~IsImageFetched(dirs[u], i)}
  IN  IF ~IsArchiveFetched(u) THEN {<<dirs[u], blobs>>}
      ELSE IF defective = {} THEN {<<d, blobs>>}
      ELSE UNION {ImageChecked(d, i) : i \in defective}

CheckFetched(u) ==
  \E checked \in AppChecked(u) :
     /\ dirs' = [dirs EXCEPT ![u] = checked[1]]
     /\ blobs' = checked[2]

\* isAppInstalled compares the compose file of the archive with the installed
\* one; an archive that cannot be read throws.
IsRunning(u) ==
  /\ IsArchiveFetched(u)
  /\ project[NameOf[u]] = u
  /\ container[NameOf[u]] = u

-----------------------------------------------------------------------------
(* The check: AkliteClient::CheckAppsInSync for a Target. *)

\* The daemon looks at the latest Target, or syncs the current one.
StartCheck ==
  /\ job.at = "idle"
  /\ \E t \in {published, current} :
       job' = [NoJob EXCEPT !.at = "check", !.target = t, !.left = t]
  /\ UNCHANGED <<store, docker, targets, counts>>

\* getAppsToUpdate, for one App.
CheckApp ==
  /\ job.at = "check"
  /\ \E u \in job.left :
       LET inOrder == u \in current /\ IsRunning(u)
       IN  /\ IF inOrder THEN CheckFetched(u) ELSE UNCHANGED store
           /\ job' = [job EXCEPT !.left = @ \ {u},
                        !.todo = IF inOrder /\ IsAppFetched(u) THEN @ ELSE @ \union {u}]
  /\ UNCHANGED <<docker, targets, counts>>

\* With nothing to update, the store is pruned to the current Target's Apps,
\* whichever Target was checked.
CheckDone ==
  /\ job.at = "check" /\ job.left = {}
  /\ job' = [job EXCEPT !.at = IF job.todo = {} THEN "prune" ELSE "fetch",
                        !.left = job.todo]
  /\ UNCHANGED <<store, docker, targets, counts>>

-----------------------------------------------------------------------------
(* ComposeAppManager::Download and RestorableAppEngine::fetch. *)

FetchApp ==
  /\ job.at = "fetch"
  /\ \E u \in job.left :
       /\ CheckFetched(u)
       /\ job' = [job EXCEPT !.at = IF IsAppFetched(u) THEN "size" ELSE "archive",
                             !.app = u, !.left = @ \ {u}]
  /\ UNCHANGED <<docker, targets, counts>>

\* pullApp: the archive, the manifest, the compose file, in this order.
PullApp ==
  /\ job.at \in {"archive", "manifest", "compose"}
  /\ dirs' = [dirs EXCEPT ![job.app].exists = TRUE, ![job.app][job.at] = "ok"]
  /\ Goto(CASE job.at = "archive"  -> "manifest"
            [] job.at = "manifest" -> "compose"
            [] job.at = "compose"  -> "size")
  /\ UNCHANGED <<blobs, docker, targets, counts>>

CheckAppUpdateSize ==
  /\ job.at = "size"
  /\ job' = [job EXCEPT !.at = "images", !.images = ImagesOf[job.app]]
  /\ UNCHANGED <<store, docker, targets, counts>>

\* skopeo copies the layers and the config, and skips those that are in the
\* store; it fails if one of them is broken.
PullImage ==
  /\ job.at = "images"
  /\ \E i \in job.images :
       LET needed == {ConfigOf[i]} \union LayersOf[i]
       IN  IF \E b \in needed : blobs[b] = "broken"
           THEN Goto("abort") /\ UNCHANGED blobs
           ELSE /\ blobs' = [b \in Blob |-> IF b \in needed THEN "ok" ELSE blobs[b]]
                /\ job' = [job EXCEPT !.at = "index", !.image = i, !.images = @ \ {i}]
  /\ UNCHANGED <<dirs, docker, targets, counts>>

\* At last it writes the manifest and the index, anew if they are there.
PullIndex ==
  /\ job.at = "index"
  /\ blobs' = [blobs EXCEPT ![ManifestOf[job.image]] = "ok"]
  /\ dirs' = [dirs EXCEPT ![job.app].index[job.image] = "ok"]
  /\ job' = [job EXCEPT !.at = "images", !.image = NoImage]
  /\ UNCHANGED <<docker, targets, counts>>

FetchAppDone ==
  /\ job.at = "images" /\ job.images = {}
  /\ job' = [job EXCEPT !.at = "fetch", !.app = NoUri]
  /\ UNCHANGED <<store, docker, targets, counts>>

\* No space, no connection, a bad answer.
FetchFails ==
  /\ job.at \in {"archive", "manifest", "compose", "size", "images", "index"}
  /\ Fails("download")
  /\ Goto("abort")
  /\ UNCHANGED <<store, docker, targets, crashes, publishes>>

\* The end of a fetch that failed, and of the download.
FetchAbort ==
  /\ job.at = "abort"
  /\ dirs' = [dirs EXCEPT ![job.app] = NoDir]
  /\ job' = NoJob
  /\ UNCHANGED <<blobs, docker, targets, counts>>

-----------------------------------------------------------------------------
(* ComposeAppManager::install and RestorableAppEngine::run. *)

StartRun ==
  /\ job.at = "fetch" /\ job.left = {}
  /\ job' = [job EXCEPT !.at = "run", !.left = job.todo, !.installed = TRUE]
  /\ UNCHANGED <<store, docker, targets, counts>>

\* The archive is extracted, the images are loaded into the docker store, the
\* containers are created and started.
RunApp ==
  /\ job.at = "run"
  /\ \E u \in job.left :
       /\ IsArchiveFetched(u) /\ dirs[u].compose = "ok" /\ AreAppImagesFetched(u)
       /\ project' = [project EXCEPT ![NameOf[u]] = u]
       /\ images' = images \union ImagesOf[u]
       /\ container' = [container EXCEPT ![NameOf[u]] = u]
       /\ job' = [job EXCEPT !.left = @ \ {u}]
  /\ UNCHANGED <<store, targets, counts>>

\* docker compose fails, before or after the old containers are gone; the loop
\* goes on with the other Apps.
RunAppFails ==
  /\ job.at = "run"
  /\ Fails("compose")
  /\ \E u \in job.left :
       /\ project' = [project EXCEPT ![NameOf[u]] = u]
       /\ images' \in {images, images \union ImagesOf[u]}
       /\ container' \in {container, [container EXCEPT ![NameOf[u]] = NoUri]}
       /\ job' = [job EXCEPT !.left = @ \ {u}, !.failed = TRUE]
  /\ UNCHANGED <<store, targets, crashes, publishes>>

RunDone ==
  /\ job.at = "run" /\ job.left = {}
  /\ job' = IF job.failed THEN NoJob ELSE [job EXCEPT !.at = "prune"]
  /\ UNCHANGED <<store, docker, targets, counts>>

-----------------------------------------------------------------------------
(* ComposeAppManager::handleRemovedApps and RestorableAppEngine::prune. *)

Shortlist == IF job.installed THEN job.target ELSE current

Disabled(n) == \A u \in Shortlist : NameOf[u] # n

\* Apps that are not of the Target are stopped and removed.
RemoveDisabledApps ==
  /\ container' = [n \in Name |-> IF Disabled(n) THEN NoUri ELSE container[n]]
  /\ project' = [n \in Name |-> IF Disabled(n) THEN NoUri ELSE project[n]]

\* An image without an index, or with a manifest that cannot be read, loses its
\* directory.
IsImageReadable(u, i) == dirs[u].index[i] = "ok" /\ blobs[ManifestOf[i]] = "ok"

PrunedDirs ==
  [u \in Uri |->
     IF u \notin Shortlist THEN NoDir
     ELSE [dirs[u] EXCEPT !.index =
             [i \in Image |-> IF IsImageReadable(u, i) THEN @[i] ELSE "none"]]]

\* A slip: only the layers are shortlisted.
BlobShortlistNoConfig ==
  UNION {UNION {{ManifestOf[i]} \union LayersOf[i] : i \in ImagesOf[u]} : u \in Shortlist}

\* The manifest of an image, and the config and the layers the manifest names.
ImageShortlist(u, i) ==
  {ManifestOf[i]} \union
  (IF IsImageReadable(u, i) THEN {ConfigOf[i]} \union LayersOf[i] ELSE {})

BlobShortlist ==
  UNION {UNION {ImageShortlist(u, i) : i \in ImagesOf[u]}
         : u \in {v \in Shortlist : dirs[v].exists}}

\* A directory without a compose file that can be read throws.
Prune ==
  /\ job.at = "prune"
  /\ RemoveDisabledApps
  /\ IF \E u \in Shortlist : dirs[u].exists /\ dirs[u].compose # "ok"
     THEN dirs' \in {dirs, PrunedDirs} /\ job' = NoJob
     ELSE /\ dirs' = PrunedDirs
          /\ job' = [job EXCEPT !.at = "blobs", !.keep = BlobShortlist,
                       !.pruned = \E u \in Uri \ Shortlist : dirs[u].exists]
  /\ UNCHANGED <<blobs, images, targets, counts>>

PruneBlob ==
  /\ job.at = "blobs"
  /\ \E b \in {c \in Blob \ job.keep : blobs[c] # "none"} :
       blobs' = [blobs EXCEPT ![b] = "none"]
  /\ job' = [job EXCEPT !.pruned = TRUE]
  /\ UNCHANGED <<dirs, docker, targets, counts>>

\* pruneDockerStore removes the images no container uses.
PruneDocker ==
  /\ job.at = "blobs"
  /\ \A b \in Blob \ job.keep : blobs[b] = "none"
  /\ images' = IF job.pruned
               THEN UNION {ImagesOf[u] : u \in {container[n] : n \in Name} \ {NoUri}}
               ELSE images
  /\ Goto("save")
  /\ UNCHANGED <<store, project, container, targets, counts>>

\* A slip: the App in work is recorded instead of the Target's Apps.
SaveAppInWork ==
  /\ job.at = "save"
  /\ current' = IF job.installed THEN {job.app} ELSE current
  /\ job' = NoJob
  /\ UNCHANGED <<store, docker, published, counts>>

\* LiteClient::install records the Target; a check goes on to the installation
\* of a Target that is not the current one.
Save ==
  /\ job.at = "save"
  /\ current' = IF job.installed THEN job.target ELSE current
  /\ job' = IF job.installed \/ job.target = current THEN NoJob
            ELSE [job EXCEPT !.at = "fetch"]
  /\ UNCHANGED <<store, docker, published, counts>>

-----------------------------------------------------------------------------
(* The environment. *)

Publish ==
  /\ publishes < MaxPublish
  /\ \E t \in Targets \ {published} : published' = t
  /\ publishes' = publishes + 1
  /\ UNCHANGED <<store, docker, current, job, failures, crashes>>

\* A file that is in the store becomes a broken one.
BreakDirFile ==
  \E u \in Uri, kind \in Breakable \intersect {"manifest", "archive", "compose"} :
     /\ dirs[u][kind] = "ok"
     /\ dirs' = [dirs EXCEPT ![u][kind] = "broken"]
     /\ UNCHANGED blobs

BreakIndex ==
  /\ "index" \in Breakable
  /\ \E u \in Uri, i \in Image :
       /\ dirs[u].index[i] = "ok"
       /\ dirs' = [dirs EXCEPT ![u].index[i] = "broken"]
  /\ UNCHANGED blobs

BreakBlob ==
  /\ \E i \in Image, kind \in Breakable \intersect {"image manifest", "config", "layer"} :
       \E b \in CASE kind = "image manifest" -> {ManifestOf[i]}
                  [] kind = "config" -> {ConfigOf[i]}
                  [] kind = "layer"  -> LayersOf[i] :
         blobs[b] = "ok" /\ blobs' = [blobs EXCEPT ![b] = "broken"]
  /\ UNCHANGED dirs

\* A power cut; the containers that were started are started again.
Crash ==
  /\ crashes < MaxCrashes
  /\ crashes' = crashes + 1
  /\ job' = NoJob
  /\ UNCHANGED store \/ BreakDirFile \/ BreakIndex \/ BreakBlob
  /\ UNCHANGED <<docker, targets, failures, publishes>>

\* The docker engine loses its images and containers.
DockerFails ==
  /\ Fails("docker")
  /\ images' = {}
  /\ container' = [n \in Name |-> NoUri]
  /\ UNCHANGED <<store, project, targets, job, crashes, publishes>>

-----------------------------------------------------------------------------
Init ==
  /\ dirs = [u \in Uri |-> NoDir]
  /\ blobs = [b \in Blob |-> "none"]
  /\ project = [n \in Name |-> NoUri] /\ container = project
  /\ images = {}
  /\ current = {} /\ published \in Targets
  /\ job = NoJob
  /\ failures = 0 /\ crashes = 0 /\ publishes = 0

Daemon ==
  \/ StartCheck \/ CheckApp \/ CheckDone
  \/ FetchApp \/ PullApp \/ CheckAppUpdateSize \/ PullImage \/ PullIndex \/ FetchAppDone
  \/ FetchFails \/ FetchAbort
  \/ StartRun \/ RunApp \/ RunAppFails \/ RunDone
  \/ Prune \/ PruneBlob \/ PruneDocker \/ Save

Next == Daemon \/ Publish \/ Crash \/ DockerFails

Spec == Init /\ [][Next]_vars

\* The daemon goes on.
FairSpec == Spec /\ WF_vars(Daemon)

-----------------------------------------------------------------------------
(* Properties. *)

\* All that is needed to restore the App without a network.
Restorable(u) ==
  /\ dirs[u].manifest = "ok" /\ dirs[u].archive = "ok"
  /\ \A i \in ImagesOf[u] :
       /\ dirs[u].index[i] = "ok"
       /\ \A b \in {ManifestOf[i], ConfigOf[i]} \union LayersOf[i] : blobs[b] = "ok"

\* RestorableAppEngine::prune removes nothing a shortlisted App needs, though
\* its blobs are shared with the images and Apps that go.
PruneKeepsTarget ==
  [][job.at \in {"prune", "blobs"} /\ job'.at # "idle"
       => \A u \in Shortlist : Restorable(u) => Restorable(u)']_vars

\* When the Target is recorded as the current one all of its Apps are complete
\* in the store, whether they were fetched now or found there, and the store
\* holds no App and no blob that it does not need.
StoreIsExact ==
  job.at = "save" /\ job.installed =>
    /\ \A u \in Uri : IF u \in job.target THEN Restorable(u) ELSE ~dirs[u].exists
    /\ \A b \in Blob : blobs[b] # "none" =>
         \E u \in job.target : \E i \in ImagesOf[u] :
           b \in {ManifestOf[i], ConfigOf[i]} \union LayersOf[i]

\* Once failures and power cuts cease, the current Target's Apps are complete
\* in the store and run: a defect is found by a check and repaired by a fetch,
\* and no file that was left behind blocks the fetch for ever.  "`skopeo copy`
\* gets crazy if one or more blobs are invalid/altered/broken [...], so, we just
\* remove the broken blob" (areAppImagesFetched).  The exceptions are a broken
\* config, which is found and not removed, and a broken layer of an image whose
\* index the App's directory lacks, which no check looks at.
StoreHeals ==
  <>[](\/ \A u \in current : Restorable(u) /\ container[NameOf[u]] = u
       \/ \E u \in published \union current : \E i \in ImagesOf[u] :
            \/ blobs[ConfigOf[i]] = "broken"
            \/ dirs[u].index[i] # "ok" /\ \E b \in LayersOf[i] : blobs[b] = "broken")
=============================================================================
