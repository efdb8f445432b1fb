---------------------------- MODULE DownloadSpace ----------------------------
(***************************************************************************)
(* Room for an update: how much of a volume may be used                    *)
(* (storage::Volume), how much an App update takes and whether it fits     *)
(* (RestorableAppEngine), what the ostree pull checks (RootfsTreeManager), *)
(* the retries of LiteClient and what AkliteClientExt remembers of a       *)
(* download that had no room.                                              *)
(*                                                                         *)
(* Sizes are in blocks; percentages are exact, where the code computes     *)
(* with doubles.  What a store holds is told by sets, and the free space   *)
(* follows from them and from what others use.                             *)
(***************************************************************************)
EXTENDS Sequences, FiniteSets, Functions

CONSTANTS
  Volume, Size,          \* [Volume -> Nat]
  VolumeOf,              \* [Path -> Volume]
  FreeSpacePercent,      \* ostree's min-free-space-percent
  Watermark,             \* pacman:storage_watermark
  Target, NoTarget, HashOf, AppsOf,   \* [Target -> Hash], [Target -> SUBSET App]
  Hash, CommitSize,      \* [Hash -> Nat], what a commit takes in the repo
  HasDelta,              \* the commits that delta statistics are published for
  App, NoApp, Archive,   \* [App -> Nat], the size of an App's archive
  Blob, LayersOf,        \* [App -> Seq(Blob)]
  BlobSize, BlobUsage,   \* [Blob -> Nat], in the App store, in the docker store
  Meta,                  \* [App -> Metas]
  Width,                 \* the width of uint64_t
  Remotes,               \* the number of ostree remotes
  OtherLevels,           \* [Volume -> SUBSET Nat], what others may use
  Failures, MaxFailures, MaxCrashes, MaxPublish, MaxOther

Path == {"repo", "store", "docker"}

\* An App's manifest refers to precise metadata about its layers, to a list of
\* its layers, or to neither.
Metas == {"precise", "layers", "none"}

\* A pull from a remote or a registry, the delta statistics, reading the usage
\* of a volume, the id of the docker store's volume.
AllFailures == {"pull", "delta", "stat", "volume_id"}

ASSUME DownloadSpaceAssumption ==
  /\ Size \in [Volume -> Nat] /\ VolumeOf \in [Path -> Volume]
  /\ FreeSpacePercent \in 0 .. 99 /\ Watermark \in 20 .. 95
  /\ NoTarget \notin Target /\ NoApp \notin App
  /\ HashOf \in [Target -> Hash] /\ AppsOf \in [Target -> SUBSET App]
  /\ CommitSize \in [Hash -> Nat] /\ HasDelta \subseteq Hash
  /\ Archive \in [App -> Nat] /\ LayersOf \in [App -> Seq(Blob)]
  /\ {BlobSize, BlobUsage} \subseteq [Blob -> Nat] /\ Meta \in [App -> Metas]
  /\ OtherLevels \in [Volume -> SUBSET Nat]
  /\ Failures \subseteq AllFailures
  /\ IsFiniteSet(Hash) /\ IsFiniteSet(App) /\ IsFiniteSet(Blob)
  /\ {Width, Remotes, 2^Width} \subseteq Nat \ {0}
  /\ {MaxFailures, MaxCrashes, MaxPublish, MaxOther} \subseteq Nat

VARIABLES
  repo,          \* the commits in the ostree repo
  fetched,       \* the Apps with a directory and an archive in the App store
  blobs,         \* the layers in the App store
  tmp,           \* [App -> Nat], skopeo's temporary files in an App's directory
  loaded,        \* the layers in the docker store
  other,         \* [Volume -> Nat], what others use
  sameVolume,    \* docker_and_skopeo_same_volume_
  noSpace,       \* state_when_download_failed
  current, failing, published,
  job, result, failures, crashes, publishes, others

stores == <<repo, fetched, blobs, tmp, loaded>>
counts == <<failures, crashes, publishes, others>>
vars == <<stores, other, sameVolume, noSpace, current, failing, published, job,
          result, counts>>

-----------------------------------------------------------------------------
(* Types. *)

MaxTries == 3

NoSpaceState == [hash : Hash, path : Path, required : Nat, ok : BOOLEAN]
Undefined == [hash |-> CHOOSE h \in Hash : TRUE, path |-> "repo", required |-> 0, ok |-> FALSE]

\* The remotes and Apps left, the App in work, and what a download that failed
\* for lack of room has lacked.
Job == [at : {"idle", "ostree", "app", "size", "images", "abort", "failed", "install"},
        target : Target \union {NoTarget}, tries : 0 .. MaxTries,
        remotes : 0 .. Remotes, left : SUBSET App, app : App \union {NoApp},
        lack : NoSpaceState]
NoJob == [at |-> "idle", target |-> NoTarget, tries |-> 0, remotes |-> 0,
          left |-> {}, app |-> NoApp, lack |-> Undefined]

Results == {"None", "Ok", "DownloadFailed", "NoSpace", "InstallFailed"}

TypeOK ==
  /\ repo \subseteq Hash /\ fetched \subseteq App
  /\ blobs \subseteq Blob /\ loaded \subseteq Blob
  /\ tmp \in [App -> Nat] /\ other \in [Volume -> Nat]
  /\ sameVolume \in BOOLEAN
  /\ noSpace \in NoSpaceState
  /\ current \in Target \union {NoTarget} /\ failing \subseteq Target
  /\ published \in Target
  /\ job \in Job /\ result \in Results
  /\ failures \in 0 .. MaxFailures /\ crashes \in 0 .. MaxCrashes
  /\ publishes \in 0 .. MaxPublish /\ others \in 0 .. MaxOther

-----------------------------------------------------------------------------
(* Volumes. *)

\* The free space of a path's volume, with the given temporary files.
Free(path, temp) ==
  LET v == VolumeOf[path]
      On(p, size) == IF VolumeOf[p] = v THEN size ELSE 0
  IN  Size[v] - other[v]
        - On("repo", SumFunctionOnSet(CommitSize, repo))
        - On("store", SumFunctionOnSet(Archive, fetched)
                        + SumFunctionOnSet(BlobSize, blobs) + SumFunction(temp))
        - On("docker", SumFunctionOnSet(BlobUsage, loaded))

ReservedPercentage(path) == IF path = "repo" THEN FreeSpacePercent ELSE 100 - Watermark

Reserved(path) == (Size[VolumeOf[path]] * ReservedPercentage(path) + 99) \div 100

\* Volume::getUsageInfo: available.first.
Available(path, temp) ==
  LET free == Free(path, temp)
  IN  IF free > Reserved(path) THEN free - Reserved(path) ELSE 0

-----------------------------------------------------------------------------
(* How much an App update takes. *)

UInt(n) == n % 2^Width

\* What a sum of sizes is if it is larger than the type: std::overflow_error.
Overflow == -1

\* A slip: the sum may wrap.
AddSizeWrapping(total, size) == UInt(total + size)

AddSize(total, size) ==
  LET sum == UInt(total + size)
  IN  IF total = Overflow \/ sum < total \/ sum < size THEN Overflow ELSE sum

\* The layers of the App that are not in the App store.
Missing(u) == Range(LayersOf[u]) \ blobs

\* Their total, layer by layer.
SizeOf(sizes, u) ==
  LET total[i \in 0 .. Len(LayersOf[u])] ==
        IF i = 0 THEN 0
        ELSE IF LayersOf[u][i] \in blobs THEN total[i - 1]
        ELSE AddSize(total[i - 1], sizes[LayersOf[u][i]])
  IN  total[Len(LayersOf[u])]

GetPreciseAppUpdateSize(u) ==
  [skopeo |-> SizeOf(BlobSize, u), docker |-> SizeOf(BlobUsage, u)]

CompressionRatio == 5

GetDockerStoreSizeForAppUpdate(size) ==
  IF CompressionRatio * size >= 2^Width THEN Overflow ELSE CompressionRatio * size

GetAppUpdateSize(u) ==
  LET size == SizeOf(BlobSize, u)
  IN  [skopeo |-> size,
       docker |-> IF size = Overflow THEN Overflow ELSE GetDockerStoreSizeForAppUpdate(size)]

\* Anything wrong with the precise metadata leads to the estimate.
RequiredSize(u, readable) ==
  LET precise == GetPreciseAppUpdateSize(u)
  IN  IF Meta[u] = "precise" /\ readable /\ Overflow \notin {precise.skopeo, precise.docker}
      THEN precise ELSE GetAppUpdateSize(u)

-----------------------------------------------------------------------------
(* checkAvailableStorageInStores. *)

NoTmp == [u \in App |-> 0]

RoomFor(path, required, temp) == required <= Available(path, temp)

Fits(temp) == [error |-> "none", path |-> "store", required |-> 0, temp |-> temp]
NoRoom(path, required, temp) ==
  [error |-> "space", path |-> path, required |-> required, temp |-> temp]
TooLarge(temp) == [Fits(temp) EXCEPT !.error = "overflow"]

\* The temporary files of the App store are removed if the App store has no
\* room, not if the docker store has none.
Cleared(required, temp) == IF RoomFor("store", required, temp) THEN temp ELSE NoTmp

\* The App store on its own leaves the temporary files temp.
CheckAvailableStorageInStores(need, temp) ==
  LET sum == UInt(need.skopeo + need.docker)
      Both ==
        IF sum < need.skopeo \/ sum < need.docker THEN TooLarge(temp)
        ELSE IF ~RoomFor("store", sum, NoTmp) THEN NoRoom("store", sum, NoTmp)
        ELSE Fits(Cleared(sum, temp))
  IN  IF ~RoomFor("store", need.skopeo, NoTmp) THEN NoRoom("store", need.skopeo, NoTmp)
      ELSE IF ~RoomFor("docker", need.docker, temp) THEN NoRoom("docker", need.docker, temp)
      ELSE IF sameVolume THEN Both ELSE Fits(temp)

-----------------------------------------------------------------------------
Fails(kind) ==
  /\ kind \in Failures
  /\ failures < MaxFailures
  /\ failures' = failures + 1

\* At most one of the given kinds of failure.
MayFail(broken, kinds) ==
  /\ broken \in kinds \union {"none"}
  /\ IF broken = "none" THEN UNCHANGED failures ELSE Fails(broken)

Lack(path, required, readable) ==
  [hash |-> HashOf[job.target], path |-> path, required |-> required, ok |-> readable]

-----------------------------------------------------------------------------
(* AkliteClientExt::PullAndInstall. *)

ToInstall == published \notin failing \union {current}

\* A slip: whatever lacked room, nothing else is tried.
RemembersNoSpaceOfAny == noSpace.required > 0 /\ noSpace.ok

RemembersNoSpace ==
  noSpace.required > 0 /\ noSpace.ok /\ noSpace.hash = HashOf[published]

RefuseDownload ==
  /\ job.at = "idle" /\ ToInstall
  /\ RemembersNoSpace /\ Available(noSpace.path, tmp) < noSpace.required
  /\ result' = "NoSpace"
  /\ UNCHANGED <<stores, other, sameVolume, noSpace, current, failing, published,
                 job, counts>>

Attempt(tries) ==
  [NoJob EXCEPT !.at = "ostree", !.target = published, !.tries = tries,
                !.remotes = Remotes]

StartDownload ==
  /\ job.at = "idle" /\ ToInstall
  /\ IF RemembersNoSpace /\ Available(noSpace.path, tmp) < noSpace.required
     THEN Fails("stat") ELSE UNCHANGED failures
  /\ noSpace' = Undefined
  /\ job' = Attempt(1)
  /\ result' = "None"
  /\ UNCHANGED <<stores, other, sameVolume, current, failing, published, crashes,
                 publishes, others>>

\* A slip: one try too many.
DownloadReturnsOnceMore ==
  /\ job.at = "failed"
  /\ job' = [Attempt(job.tries + 1) EXCEPT !.target = job.target]
  /\ UNCHANGED <<stores, other, sameVolume, noSpace, current, failing, published,
                 result, counts>>

\* LiteClient::downloadImage tries three times, unless there is no room.
DownloadReturns ==
  /\ job.at = "failed"
  /\ \/ /\ job.lack = Undefined /\ job.tries < MaxTries
        /\ job' = [Attempt(job.tries + 1) EXCEPT !.target = job.target]
        /\ UNCHANGED <<result, noSpace>>
     \/ /\ job.lack = Undefined /\ job.tries = MaxTries
        /\ job' = NoJob /\ result' = "DownloadFailed"
        /\ UNCHANGED noSpace
     \/ /\ job.lack # Undefined
        /\ job' = NoJob /\ result' = "NoSpace"
        /\ noSpace' = job.lack
  /\ UNCHANGED <<stores, other, sameVolume, current, failing, published, counts>>

-----------------------------------------------------------------------------
(* RootfsTreeManager::Download. *)

\* "we don't know how much more storage is needed, so just require 10 more
\* blocks"
Slack == 10

\* The statistics are found, of the size and hash the Target says, and have an
\* entry for the commit.
GetDeltaStatIfAvailable(hash, readable) == hash \in HasDelta /\ readable

\* ostree keeps the reserve free on its own.
PullOstree ==
  /\ job.at = "ostree"
  /\ \E broken \in {"none", "delta", "stat"}, available \in {Available("repo", tmp)} :
       LET hash == HashOf[job.target]
           delta == GetDeltaStatIfAvailable(hash, broken # "delta")
           readable == broken # "stat"
           lacks == readable /\ IF delta THEN available < CommitSize[hash] ELSE available = 0
           needed == IF delta THEN CommitSize[hash] ELSE IF lacks THEN Slack ELSE available + Slack
       IN  /\ MayFail(broken, {"delta", "stat"})
           /\ IF ~lacks /\ (hash \in repo \/ CommitSize[hash] <= available)
              THEN /\ repo' = repo \union {hash}
                   /\ job' = [job EXCEPT !.at = "app", !.left = AppsOf[job.target] \
                                IF current = NoTarget THEN {} ELSE AppsOf[current]]
              ELSE /\ job' = [job EXCEPT !.at = "failed", !.lack = Lack("repo", needed, readable)]
                   /\ UNCHANGED repo
  /\ UNCHANGED <<fetched, blobs, tmp, loaded, other, sameVolume, noSpace, current,
                 failing, published, result, crashes, publishes, others>>

\* The next remote is tried.
PullOstreeFails ==
  /\ job.at = "ostree"
  /\ Fails("pull")
  /\ job' = [job EXCEPT !.remotes = @ - 1,
                        !.at = IF job.remotes = 1 THEN "failed" ELSE "ostree"]
  /\ UNCHANGED <<stores, other, sameVolume, noSpace, current, failing, published,
                 result, crashes, publishes, others>>

-----------------------------------------------------------------------------
(* RestorableAppEngine::fetch. *)

\* An App that is fetched already is not pulled again.  Room is kept for an
\* archive three times as large.
PullApp ==
  /\ job.at = "app"
  /\ \E u \in job.left, broken \in {"none", "stat"} :
       LET needed == UInt(3 * Archive[u])
           isFetched == u \in fetched /\ Range(LayersOf[u]) \subseteq blobs
           lacks == broken = "none" /\ needed > Available("store", tmp)
       IN  /\ MayFail(broken, {"stat"})
           /\ IF ~isFetched /\ lacks
              THEN /\ job' = [job EXCEPT !.at = "abort", !.app = u,
                                         !.lack = Lack("store", needed, TRUE)]
                   /\ UNCHANGED fetched
              ELSE /\ u \in fetched \/ Archive[u] <= Free("store", tmp)
                   /\ fetched' = fetched \union {u}
                   /\ job' = [job EXCEPT !.at = "size", !.app = u]
  /\ UNCHANGED <<repo, blobs, tmp, loaded, other, sameVolume, noSpace, current,
                 failing, published, result, crashes, publishes, others>>

\* An App without a list of its layers is not checked.  A volume whose usage
\* cannot be read has no room.
CheckAppUpdateSize ==
  /\ job.at = "size"
  /\ \E broken \in {"none", "pull", "stat"} :
       /\ MayFail(broken, {"pull", "stat"})
       /\ \E need \in {RequiredSize(job.app, broken # "pull")} :
          \E temp \in {Cleared(need.skopeo, tmp)} :
          \E check \in {CheckAvailableStorageInStores(need, temp)} :
            IF Meta[job.app] = "none"
            THEN job' = [job EXCEPT !.at = "images"] /\ UNCHANGED tmp
            ELSE IF Overflow \in {need.skopeo, need.docker}
            THEN job' = [job EXCEPT !.at = "abort"] /\ UNCHANGED tmp
            ELSE IF broken = "stat" /\ need.docker > 0
            THEN /\ job' = [job EXCEPT !.at = "abort",
                                       !.lack = Lack("docker", need.docker, FALSE)]
                 /\ UNCHANGED tmp
            ELSE /\ tmp' = check.temp
                 /\ job' = [job EXCEPT
                      !.at = IF check.error = "none" THEN "images" ELSE "abort",
                      !.lack = IF check.error = "space"
                               THEN Lack(check.path, check.required, TRUE) ELSE @]
  /\ UNCHANGED <<repo, fetched, blobs, loaded, other, sameVolume, noSpace, current,
                 failing, published, result, crashes, publishes, others>>

PullAppImages ==
  /\ job.at = "images"
  /\ SumFunctionOnSet(BlobSize, Missing(job.app)) <= Free("store", tmp)
  /\ blobs' = blobs \union Range(LayersOf[job.app])
  /\ job' = [job EXCEPT !.at = "app", !.left = @ \ {job.app}, !.app = NoApp]
  /\ UNCHANGED <<repo, fetched, tmp, loaded, other, sameVolume, noSpace, current,
                 failing, published, result, counts>>

\* A registry fails, or the volume is full: some of the layers are stored.
PullFails ==
  /\ LET free == Free("store", tmp)
     IN  \/ /\ job.at = "images"
            /\ \E some \in SUBSET Missing(job.app) :
                 /\ SumFunctionOnSet(BlobSize, some) <= free
                 /\ blobs' = blobs \union some
            /\ job' = [job EXCEPT !.at = "abort"]
            /\ \/ Fails("pull")
               \/ /\ SumFunctionOnSet(BlobSize, Missing(job.app)) > free
                  /\ UNCHANGED failures
         \/ /\ job.at = "app"
            /\ \E u \in job.left :
                 /\ job' = [job EXCEPT !.at = "abort", !.app = u]
                 /\ Fails("pull") \/ (Archive[u] > free /\ UNCHANGED failures)
            /\ UNCHANGED blobs
  /\ UNCHANGED <<repo, fetched, tmp, loaded, other, sameVolume, noSpace, current,
                 failing, published, result, crashes, publishes, others>>

\* The App's directory is removed with all that is in it.
FetchAbort ==
  /\ job.at = "abort"
  /\ fetched' = fetched \ {job.app}
  /\ tmp' = [tmp EXCEPT ![job.app] = 0]
  /\ job' = [job EXCEPT !.at = "failed"]
  /\ UNCHANGED <<repo, blobs, loaded, other, sameVolume, noSpace, current, failing,
                 published, result, counts>>

-----------------------------------------------------------------------------
(* The installation, in the terms of this module. *)

LayersOfTarget(t) == UNION {Range(LayersOf[u]) : u \in AppsOf[t]}

\* The images are loaded into the docker store, beside those of the Target
\* before; then the stores are pruned, and ostree keeps two deployments.
Install ==
  /\ job.at = "app" /\ job.left = {}
  /\ LET layers == LayersOfTarget(job.target)
     IN  IF SumFunctionOnSet(BlobUsage, layers \ loaded) <= Free("docker", tmp)
         THEN /\ loaded' = layers /\ blobs' = layers
              /\ fetched' = AppsOf[job.target]
              /\ tmp' = [u \in App |-> IF u \in AppsOf[job.target] THEN tmp[u] ELSE 0]
              /\ repo' = {HashOf[t] : t \in {current, job.target} \ {NoTarget}}
              /\ current' = job.target /\ result' = "Ok"
              /\ UNCHANGED failing
         ELSE /\ failing' = failing \union {job.target} /\ result' = "InstallFailed"
              /\ UNCHANGED <<stores, current>>
  /\ job' = NoJob
  /\ UNCHANGED <<other, sameVolume, noSpace, published, counts>>

-----------------------------------------------------------------------------
(* The environment. *)

Publish ==
  /\ publishes < MaxPublish
  /\ \E t \in Target \ {published} : published' = t
  /\ publishes' = publishes + 1
  /\ UNCHANGED <<stores, other, sameVolume, noSpace, current, failing, job, result,
                 failures, crashes, others>>

\* Others use more of a volume, or less.
OtherUse ==
  /\ others < MaxOther
  /\ \E v \in Volume : \E n \in OtherLevels[v] :
       /\ other' = [other EXCEPT ![v] = n]
       /\ \A path \in Path : VolumeOf[path] = v => n - other[v] <= Free(path, tmp)
  /\ others' = others + 1
  /\ UNCHANGED <<stores, sameVolume, noSpace, current, failing, published, job,
                 result, failures, crashes, publishes>>

\* areDockerAndSkopeoOnTheSameVolume: an id that is not known differs.
SameVolume(readable) == readable /\ VolumeOf["store"] = VolumeOf["docker"]

\* The process is killed and starts again.  What skopeo was writing stays.
Crash ==
  /\ crashes < MaxCrashes
  /\ crashes' = crashes + 1
  /\ \E broken \in {"none", "volume_id"} :
       MayFail(broken, {"volume_id"}) /\ sameVolume' = SameVolume(broken = "none")
  /\ noSpace' = Undefined /\ job' = NoJob /\ result' = "None"
  /\ \/ UNCHANGED tmp
     \/ /\ job.at = "images"
        /\ \E b \in Missing(job.app) :
             /\ BlobSize[b] <= Free("store", tmp)
             /\ tmp' = [tmp EXCEPT ![job.app] = @ + BlobSize[b]]
  /\ UNCHANGED <<repo, fetched, blobs, loaded, other, current, failing, published,
                 publishes, others>>

-----------------------------------------------------------------------------
Init ==
  /\ repo = {} /\ fetched = {} /\ blobs = {} /\ loaded = {}
  /\ tmp = NoTmp
  /\ other \in [Volume -> UNION {OtherLevels[v] : v \in Volume}]
  /\ \A v \in Volume : other[v] \in OtherLevels[v]
  /\ \E known \in IF "volume_id" \in Failures THEN BOOLEAN ELSE {TRUE} :
       sameVolume = SameVolume(known)
  /\ noSpace = Undefined
  /\ current = NoTarget /\ failing = {} /\ published \in Target
  /\ job = NoJob /\ result = "None"
  /\ failures = 0 /\ crashes = 0 /\ publishes = 0 /\ others = 0

Daemon ==
  \/ RefuseDownload \/ StartDownload \/ DownloadReturns
  \/ PullOstree \/ PullOstreeFails
  \/ PullApp \/ CheckAppUpdateSize \/ PullAppImages \/ PullFails \/ FetchAbort
  \/ Install

Next == Daemon \/ Publish \/ OtherUse \/ Crash

Spec == Init /\ [][Next]_vars

\* The daemon goes on.
FairSpec == Spec /\ WF_vars(Daemon)

-----------------------------------------------------------------------------
(* Properties. *)

\* A step that ends the check of an App's size, and that the App fits.
AppFits ==
  LET layers == Missing(job.app)
      skopeo == SumFunctionOnSet(BlobSize, layers)
      docker == SumFunctionOnSet(BlobUsage, layers)
      precise == /\ Meta[job.app] = "precise" /\ UNCHANGED failures
                 /\ SizeOf(BlobUsage, job.app) # Overflow
  IN  job.at = "size" /\ job'.at = "images" /\ Meta[job.app] # "none" =>
        /\ skopeo <= Available("store", tmp')
        /\ precise =>
             /\ docker <= Available("docker", tmp')
             /\ sameVolume => skopeo + docker <= Available("store", tmp')

\* When the check of an App's size passes, the layers that are missing fit into
\* the App store, without wrapping; and by its precise metadata, unless the
\* total of that is too large to tell, they fit into the docker store, and into
\* both if they are known to share a volume.  "aktualizr-lite checks whether
\* there is enough storage available before performing OTA update of Compose
\* Apps" (docs/configuration.md).  The id of a volume that cannot be read makes
\* one volume count as two, and the sum is not checked; metadata with too large
\* a total gives way to the estimate, and the docker store's part is a guess.
CheckedAppFits == [][AppFits]_vars

\* What is missing of a Target, and room for it on each volume.
NeededFor(t) ==
  LET apps == AppsOf[t] \ fetched
      layers == LayersOfTarget(t)
  IN  CommitSize[HashOf[t]] + Slack + 3 * SumFunctionOnSet(Archive, apps)
        + SumFunctionOnSet(BlobSize, layers \ blobs)
        + SumFunctionOnSet(BlobUsage, layers \ loaded)
HasRoom(t) == \A path \in Path : NeededFor(t) <= Available(path, tmp)

\* "check if aklite haven't tried to fetch the target ostree before, and it
\* failed due to lack of space, and the space has not increased since that time"
\* (PullAndInstall): what is remembered of a download without room never keeps
\* the client from a Target there is room for.  Once failures, kills and other
\* uses cease, the latest Target is installed, or failing, or has no room.
RoomIsUsed ==
  <>[](published \in failing \union {current} \/ ~HasRoom(published))
=============================================================================
