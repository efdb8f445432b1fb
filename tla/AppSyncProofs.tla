--------------------------- MODULE AppSyncProofs ---------------------------
(***************************************************************************)
(* That the Apps of a Target are there when they are needed: for all Apps, *)
(* Targets, configurations, bundles and failures.                          *)
(***************************************************************************)
EXTENDS AppSync, TLAPS

Fields == {"kind", "pc", "cfg", "force", "cleanup", "cache", "bundle", "target",
           "wanted", "toUpdate", "toFetch", "todo", "ok", "rollback", "prunes", "then"}

\* As much of the types as the proofs need.
Shape ==
  /\ DOMAIN job = Fields
  /\ DOMAIN failures = AllFailures /\ failures["store"] \in Nat

Needed(t) == getRequiredApps(job.cfg, t.apps)
Pending == job.toUpdate \union job.toFetch

\* handleRemovedApps runs: after a check, or after all Apps have started.
Removing == job.pc \in {"remove", "prune"}
Cleaning == Removing /\ job.then # "save"

\* The Apps have been checked; they have been found to be in the store.
AfterCheck ==
  job.pc \in {"download", "fetch", "verify"} \/ (Cleaning /\ job.then # "idle")
AfterVerify ==
  job.pc \in {"stop", "run", "save"} \/ (Removing /\ job.then = "save")

\* The Apps were checked by what the Target is recorded with.
AsRecorded == job.target.id = current.id => job.target.apps = current.apps

\* What the cleanup of the check may have taken.
MayBeGone(u) == Pending = {} /\ u \notin Needed(current)

StoreInv ==
  /\ job.cache \subseteq store
  /\ Cleaning => Pending = {}
  /\ job.pc = "prune" => \A u \in job.todo : u \notin Kept
  /\ AfterCheck /\ AsRecorded =>
       \A u \in Needed(job.target) : u \in Pending \union store \/ MayBeGone(u)
  /\ AfterVerify /\ AsRecorded =>
       \A u \in Needed(job.target) : u \in store \/ MayBeGone(u)

\* An offline update downloads the Target its bundle offers.
Offering ==
  job.kind = "offline" /\
    (job.pc \in {"download", "fetch"} \/ (Removing /\ job.then = "download"))

OfflineInv ==
  /\ Offering => job.target = Offered(job.bundle) /\ Available(job.bundle, job.cfg)
  /\ job.kind = "offline" /\ job.pc = "fetch" => job.todo \subseteq job.bundle.apps
  /\ Removing => job.then \in {"idle", "download", "verify", "save"}

Inv == Shape /\ OfflineInv /\ (failures["store"] = 0 => StoreInv)

-----------------------------------------------------------------------------
(* The operators. *)

\* checkForAppsToUpdate, whichever way it is asked: what it lists neither to
\* update nor to fetch is in the store.
LEMMA CheckCovers ==
  ASSUME NEW cache, cache \subseteq store, NEW t, NEW check \in BOOLEAN,
         NEW u \in Needed(t)
  PROVE  u \in AppsToUpdate(cache, t) \union AppsToFetch(cache, t, check) \union store
BY Zenon DEF Needed, AppsToFetch, isFetched

\* Nothing is listed that is not needed.
LEMMA CheckIsNeeded ==
  ASSUME NEW cache, NEW t, NEW check \in BOOLEAN
  PROVE  AppsToUpdate(cache, t) \union AppsToFetch(cache, t, check) \subseteq Needed(t)
BY Zenon DEF Needed, AppsToUpdate, getAppsToUpdate, getApps, AppsToFetch, getRequiredApps

\* getAvailableTargets: an offered Target needs nothing the bundle lacks.
LEMMA OfferIsThere ==
  ASSUME NEW b, Available(b, job.cfg)
  PROVE  Needed(Offered(b)) \subseteq b.apps
BY Zenon DEF Needed, Offered, Available, getRequiredApps

\* check_apps_to_fetch is a boolean, also where it is left uninitialized.
LEMMA CheckStoreType == CheckStore \subseteq BOOLEAN
BY Zenon DEF CheckStore

\* The fields of the state of no job.
LEMMA NoJobFields ==
  /\ DOMAIN NoJob = Fields
  /\ NoJob.kind = "none" /\ NoJob.pc = "off" /\ NoJob.cache = {}
BY Zenon DEF NoJob, Fields

\* A job that is over has the fields of a job and rests; a process that
\* goes on keeps its cache.
LEMMA OverFields ==
  ASSUME NEW j
  PROVE  /\ DOMAIN Over(j) = Fields
         /\ Over(j).pc \in {"off", "idle"}
         /\ Over(j).cache \in {{}, j.cache}
BY Zenon DEF Over, NoJob, Fields

\* A failure of another kind than a loss of blobs.
LEMMA OtherFailure ==
  ASSUME Shape, UNCHANGED failures \/ \E k \in AllFailures \ {"store"} : Fails(k)
  PROVE  DOMAIN failures' = AllFailures /\ failures'["store"] = failures["store"]
BY Zenon DEF Shape, Fails, AllFailures

\* The process is through, or has not begun.
LEMMA IdleInv ==
  ASSUME Shape, DOMAIN job' = Fields, job'.pc \in {"off", "idle"},
         DOMAIN failures' = AllFailures, failures'["store"] = failures["store"],
         failures["store"] = 0 => job'.cache \subseteq store'
  PROVE  Inv'
<1>1. Shape'
  BY Zenon DEF Shape
<1>2. OfflineInv'
  BY Zenon DEF OfflineInv, Offering, Removing
<1>3. failures["store"] = 0 => StoreInv'
  BY Zenon DEF StoreInv, Cleaning, Removing, AfterCheck, AfterVerify
<1> QED BY Zenon, <1>1, <1>2, <1>3 DEF Inv

-----------------------------------------------------------------------------
(* The process starts, ends and is through with a Target.                   *)

\* Steps that start, end or record a job, or come from outside.
LEMMA QuietSteps ==
  ASSUME Inv,
         \/ StartDaemon \/ StartCommand \/ Kill \/ Save
         \/ FetchDone /\ job.kind = "pull"
         \/ Publish \/ Edit \/ AppStops \/ StoreLoses \/ UNCHANGED vars
  PROVE  Inv'
<1>0. Shape /\ (failures["store"] = 0 => job.cache \subseteq store)
  BY Zenon DEF Inv, StoreInv
<1>1. ASSUME UNCHANGED <<job, current, store>>,
             DOMAIN failures' = AllFailures, failures'["store"] = failures["store"]
      PROVE  Inv'
  BY Zenon, <1>0, <1>1 DEF Inv, Shape, OfflineInv, Offering, StoreInv, Cleaning, Removing, Pending,
     AfterCheck, AfterVerify, AsRecorded, MayBeGone, Needed, Kept
<1>2. CASE StartDaemon
  <2>1. DOMAIN job' = Fields /\ job'.pc = "idle" /\ job'.cache = {} /\ UNCHANGED failures
    BY Zenon, <1>2 DEF StartDaemon, NoJob, Fields
  <2> QED BY Zenon, <1>0, <2>1, IdleInv DEF Shape
<1>3. CASE StartCommand
  <2>1. DOMAIN job' = Fields /\ job'.pc = "idle" /\ job'.cache = {} /\ UNCHANGED failures
    <3>1. PICK kind, t, b, force :
            job' = [NoJob EXCEPT !.kind = kind, !.pc = "idle", !.cfg = config,
                                 !.force = force, !.cleanup = TRUE, !.wanted = t,
                                 !.bundle = IF kind = "offline" THEN b ELSE NoBundle]
      BY <1>3, Zenon DEF StartCommand
    <3>2. UNCHANGED failures
      BY Zenon, <1>3 DEF StartCommand
    <3> QED BY Zenon, <3>1, <3>2 DEF NoJob, Fields
  <2> QED BY Zenon, <1>0, <2>1, IdleInv DEF Shape
<1>4. CASE Kill
  <2>1. job' = NoJob /\ UNCHANGED failures
    BY Zenon, <1>4 DEF Kill
  <2> QED BY Zenon, <1>0, <2>1, NoJobFields, IdleInv DEF Shape
<1>5. CASE Save
  <2>1. job' = Over(job) /\ UNCHANGED <<failures, store>>
    BY Zenon, <1>5 DEF Save
  <2> QED BY Zenon, <1>0, <2>1, OverFields, IdleInv DEF Shape
<1>6. CASE FetchDone /\ job.kind = "pull"
  <2>1. job' = Over(job) /\ UNCHANGED <<failures, store>>
    BY Zenon, <1>6 DEF FetchDone, device
  <2> QED BY Zenon, <1>0, <2>1, OverFields, IdleInv DEF Shape
<1>7. CASE Publish \/ Edit \/ UNCHANGED vars
  <2>1. UNCHANGED <<job, current, store, failures>>
    BY Zenon, <1>7 DEF Publish, Edit, vars, device
  <2> QED BY Zenon, <1>0, <1>1, <2>1 DEF Shape
<1>8. CASE AppStops
  <2>1. UNCHANGED <<job, current, store>> /\ Fails("stop")
    BY Zenon, <1>8 DEF AppStops
  <2> QED BY Zenon, <1>0, <1>1, <2>1, OtherFailure DEF AllFailures
<1>9. CASE StoreLoses
  <2>1. UNCHANGED <<job, current>> /\ Fails("store")
    BY Zenon, <1>9 DEF StoreLoses
  <2>2. DOMAIN failures' = AllFailures /\ failures'["store"] = failures["store"] + 1
    BY Zenon, <1>0, <2>1 DEF Fails, Shape, AllFailures
  <2>3. Shape' /\ failures'["store"] # 0
    BY <1>0, <2>1, <2>2 DEF Shape
  <2>4. OfflineInv'
    BY Zenon, <2>1 DEF Inv, OfflineInv, Offering, Removing
  <2> QED BY Zenon, <2>3, <2>4 DEF Inv
<1> QED BY Zenon, <1>2, <1>3, <1>4, <1>5, <1>6, <1>7, <1>8, <1>9

-----------------------------------------------------------------------------
(* The check.                                                               *)

\* A check against t whose result is carried to the download, to the
\* verification or to the cleanup.
LEMMA CheckSelects ==
  ASSUME Inv, NEW t, NEW check \in BOOLEAN, UNCHANGED <<current, store, failures>>,
         DOMAIN job' = Fields, job'.cfg = job.cfg,
         job'.toUpdate = AppsToUpdate(job.cache, t),
         job'.toFetch = AppsToFetch(job.cache, t, check),
         job'.cache = job.cache \union (Probed(t, check) \intersect store),
         \/ job'.pc \in {"download", "verify"}
         \/ job'.pc = "remove" /\ Pending' = {} /\ job'.then \in {"idle", "download", "verify"},
         \/ job'.target = t /\ t.id # current.id
         \/ t = current /\ job'.target.id = current.id,
         Offering' => job'.target = Offered(job'.bundle) /\ Available(job'.bundle, job'.cfg)
  PROVE  Inv'
<1>1. Shape'
  BY Zenon DEF Inv, Shape
<1>2. OfflineInv'
  BY Zenon DEF OfflineInv, Removing
<1>3. ASSUME failures["store"] = 0 PROVE StoreInv'
  <2>1. job.cache \subseteq store
    BY Zenon, <1>3 DEF Inv, StoreInv
  <2>2. job'.cache \subseteq store'
    BY Zenon, <2>1
  <2>3. \A u \in Needed(t) : u \in Pending' \union store
    BY Zenon, <2>1, CheckCovers DEF Pending
  <2>4. AsRecorded' => Needed(job.target)' = Needed(t)
    BY Zenon DEF AsRecorded, Needed
  <2>5. ~AfterVerify' /\ job'.pc # "prune"
    BY Zenon DEF AfterVerify, Removing
  <2>6. Cleaning' => Pending' = {}
    BY Zenon DEF Cleaning, Removing
  <2> QED BY Zenon, <2>2, <2>3, <2>4, <2>5, <2>6 DEF StoreInv
<1> QED BY Zenon, <1>1, <1>2, <1>3 DEF Inv

\* Check: a new Target, or the current one, is found wanting or forced.
LEMMA CheckKeeps == ASSUME Inv, Check PROVE Inv'
<1>0. Shape /\ UNCHANGED <<current, store, failures>> /\ job.pc = "idle"
  BY Zenon DEF Inv, Check, device
<1> DEFINE new == IsNew(Candidate)
           t == IF new THEN Candidate ELSE current
           target == IF new THEN t ELSE CurrentSelected
<1>1. PICK check \in CheckStore :
        LET j == [Checked(t, check) EXCEPT !.cleanup = FALSE]
            inSync == j.toUpdate \union j.toFetch = {}
            go == new \/ job.kind # "daemon" \/ ~inSync
            next == IF ~go THEN "idle"
                    ELSE IF job.kind = "install" THEN "verify" ELSE "download"
            selected == [j EXCEPT !.pc = next, !.target = target]
        IN job' =
             IF job.kind = "offline" /\ ~Available(job.bundle, job.cfg) THEN NoJob
             ELSE IF job.cleanup /\ inSync
               THEN [selected EXCEPT !.pc = "remove", !.then = next, !.prunes = 1,
                                     !.todo = RemovedApps(job.cfg, current.apps)]
             ELSE IF go THEN selected
             ELSE Over(j)
  BY ZenonT(60) DEF Check
<1>a. check \in BOOLEAN
  BY Zenon, CheckStoreType
<1> DEFINE j == [Checked(t, check) EXCEPT !.cleanup = FALSE]
           inSync == j.toUpdate \union j.toFetch = {}
           go == new \/ job.kind # "daemon" \/ ~inSync
           next == IF ~go THEN "idle"
                   ELSE IF job.kind = "install" THEN "verify" ELSE "download"
           selected == [j EXCEPT !.pc = next, !.target = target]
<1>2. /\ DOMAIN j = Fields /\ j.cfg = job.cfg /\ j.kind = job.kind /\ j.bundle = job.bundle
      /\ j.toUpdate = AppsToUpdate(job.cache, t)
      /\ j.toFetch = AppsToFetch(job.cache, t, check)
      /\ j.cache = job.cache \union (Probed(t, check) \intersect store)
  BY Zenon, <1>0 DEF Shape, Checked, Fields
<1>3. \/ target = t /\ t.id # current.id
      \/ t = current /\ target.id = current.id
  BY Zenon DEF IsNew, CurrentSelected, Offered, Online
<1>4. job.kind = "offline" => target = Offered(job.bundle)
  BY Zenon DEF IsNew, Candidate, CurrentSelected, Offered
<1>5. next \in {"idle", "download", "verify"} /\ (go => next # "idle")
  BY Zenon
<1> HIDE DEF j, next, target, t, new
<1>6. CASE job.kind = "offline" /\ ~Available(job.bundle, job.cfg)
  <2>1. job' = NoJob
    BY Zenon, <1>1, <1>6
  <2> QED BY Zenon, <1>0, <2>1, NoJobFields, IdleInv DEF Shape
<1>7. CASE ~(job.kind = "offline" /\ ~Available(job.bundle, job.cfg)) /\ job.cleanup /\ inSync
  <2> DEFINE k == [selected EXCEPT !.pc = "remove", !.then = next, !.prunes = 1,
                                   !.todo = RemovedApps(job.cfg, current.apps)]
  <2>1. job' = k
    BY Zenon, <1>1, <1>7 DEF j, next, target, t, new
  <2>2. /\ DOMAIN k = Fields /\ k.cfg = j.cfg /\ k.kind = j.kind /\ k.bundle = j.bundle
        /\ k.toUpdate = j.toUpdate /\ k.toFetch = j.toFetch /\ k.cache = j.cache
        /\ k.pc = "remove" /\ k.then = next /\ k.target = target
    BY Zenon, <1>2 DEF Fields
  <2> HIDE DEF k
  <2>3. Pending' = {}
    BY Zenon, <1>7, <2>1, <2>2 DEF Pending
  <2>4. Offering' => job'.target = Offered(job'.bundle) /\ Available(job'.bundle, job'.cfg)
    BY Zenon, <1>2, <1>4, <1>7, <2>1, <2>2 DEF Offering
  <2> QED BY Zenon, <1>0, <1>a, <1>2, <1>3, <1>5, <2>1, <2>2, <2>3, <2>4, CheckSelects
<1>8. CASE /\ ~(job.kind = "offline" /\ ~Available(job.bundle, job.cfg))
           /\ ~(job.cleanup /\ inSync) /\ go
  <2>1. job' = selected
    BY Zenon, <1>1, <1>8 DEF j, next, target, t, new
  <2>2. /\ DOMAIN selected = Fields /\ selected.cfg = j.cfg /\ selected.kind = j.kind
        /\ selected.bundle = j.bundle /\ selected.toUpdate = j.toUpdate
        /\ selected.toFetch = j.toFetch /\ selected.cache = j.cache
        /\ selected.pc = next /\ selected.target = target
    BY Zenon, <1>2 DEF Fields
  <2> HIDE DEF selected
  <2>3. job'.pc \in {"download", "verify"}
    BY Zenon, <1>5, <1>8, <2>1, <2>2
  <2>4. Offering' => job'.target = Offered(job'.bundle) /\ Available(job'.bundle, job'.cfg)
    BY Zenon, <1>2, <1>4, <1>8, <2>1, <2>2 DEF Offering
  <2> QED BY Zenon, <1>0, <1>a, <1>2, <1>3, <2>1, <2>2, <2>3, <2>4, CheckSelects
<1>9. CASE /\ ~(job.kind = "offline" /\ ~Available(job.bundle, job.cfg))
           /\ ~(job.cleanup /\ inSync) /\ ~go
  <2>1. job' = Over(j)
    BY Zenon, <1>1, <1>9 DEF j, next, target, t, new
  <2>2. failures["store"] = 0 => j.cache \subseteq store
    BY Zenon, <1>2 DEF Inv, StoreInv
  <2> QED BY Zenon, <1>0, <2>1, <2>2, OverFields, IdleInv DEF Shape
<1> QED BY Zenon, <1>6, <1>7, <1>8, <1>9

-----------------------------------------------------------------------------
(* Download and installation.                                               *)

\* The Target at hand, and what was found of it, are left alone.
Same ==
  /\ DOMAIN job' = Fields
  /\ job'.kind = job.kind /\ job'.cfg = job.cfg /\ job'.bundle = job.bundle
  /\ job'.target = job.target /\ job'.toUpdate = job.toUpdate
  /\ job'.toFetch = job.toFetch
  /\ UNCHANGED current
  /\ DOMAIN failures' = AllFailures /\ failures'["store"] = failures["store"]

\* What the invariant says of a job depends on the variables Same names.
LEMMA SameFacts ==
  ASSUME Same
  PROVE  /\ UNCHANGED <<Pending, AsRecorded>>
         /\ Needed(job.target)' = Needed(job.target)
         /\ \A u : MayBeGone(u)' <=> MayBeGone(u)
BY Zenon DEF Same, Pending, AsRecorded, Needed, MayBeGone

\* The start of a download.
LEMMA DownloadKeeps == ASSUME Inv, Download PROVE Inv'
<1> DEFINE todo(check) ==
      IF job.kind = "offline"
        THEN AppsToUpdate({}, job.target) \union AppsToFetch({}, job.target, check)
        ELSE job.toUpdate \union job.toFetch
<1>1. CASE job' = Over(job)
  <2>1. Shape /\ UNCHANGED store /\ (UNCHANGED failures \/ Fails("download"))
    BY Zenon DEF Inv, Download, device
  <2>2. DOMAIN failures' = AllFailures /\ failures'["store"] = failures["store"]
    BY Zenon, <2>1, OtherFailure DEF AllFailures
  <2>3. failures["store"] = 0 => job.cache \subseteq store
    BY Zenon DEF Inv, StoreInv
  <2> QED BY Zenon, <1>1, <2>1, <2>2, <2>3, OverFields, IdleInv
<1>2. CASE job' # Over(job)
  <2>1. PICK check \in BOOLEAN :
          job' = [job EXCEPT !.pc = "fetch", !.todo = todo(check)]
    BY Zenon, <1>2, CheckStoreType DEF Download
  <2>2. UNCHANGED <<current, store, failures>> /\ job.pc = "download"
    BY Zenon, <1>2 DEF Download, device
  <2>3. Same /\ job'.pc = "fetch" /\ job'.todo = todo(check) /\ job'.cache = job.cache
    BY Zenon, <2>1, <2>2 DEF Inv, Shape, Same, Fields
  <2>4. OfflineInv'
    <3> SUFFICES ASSUME job.kind = "offline"
                 PROVE  /\ job.target = Offered(job.bundle) /\ Available(job.bundle, job.cfg)
                        /\ todo(check) \subseteq job.bundle.apps
      BY Zenon, <2>3 DEF OfflineInv, Offering, Removing, Same
    <3>1. job.target = Offered(job.bundle) /\ Available(job.bundle, job.cfg)
      BY Zenon, <2>2 DEF Inv, OfflineInv, Offering
    <3>2. todo(check) \subseteq Needed(job.target)
      BY Zenon, CheckIsNeeded
    <3> QED BY Zenon, <3>1, <3>2, OfferIsThere
  <2>5. failures["store"] = 0 => StoreInv'
    BY Zenon, <2>2, <2>3, SameFacts DEF Inv, StoreInv, Cleaning, Removing, AfterCheck, AfterVerify
  <2> QED BY Zenon, <2>2, <2>3, <2>4, <2>5 DEF Inv, Shape, Same
<1> QED BY Zenon, <1>1, <1>2

\* The fetch of one App, which ends well or ends the job.
LEMMA FetchAppKeeps == ASSUME Inv, FetchApp PROVE Inv'
<1>0. Shape /\ job.pc = "fetch" /\ UNCHANGED current
  BY Zenon DEF Inv, FetchApp
<1>1. PICK u \in job.todo :
        \/ /\ store' = store \union {u}
           /\ job' = [job EXCEPT !.todo = @ \ {u}, !.cache = Cached(u)]
           /\ UNCHANGED failures
        \/ /\ UNCHANGED failures \/ Fails("download")
           /\ job' = Over([job EXCEPT !.cache = Uncached(u)])
           /\ UNCHANGED store
  BY Zenon DEF FetchApp
<1>2. DOMAIN failures' = AllFailures /\ failures'["store"] = failures["store"]
  BY Zenon, <1>0, <1>1, OtherFailure DEF AllFailures
<1>3. CASE /\ store' = store \union {u}
           /\ job' = [job EXCEPT !.todo = @ \ {u}, !.cache = Cached(u)]
  <2>1. Same /\ job'.pc = "fetch" /\ job'.todo = job.todo \ {u} /\ job'.cache = Cached(u)
    BY Zenon, <1>0, <1>2, <1>3 DEF Shape, Same, Fields
  <2>2. OfflineInv'
    BY Zenon, <1>0, <2>1 DEF Inv, OfflineInv, Offering, Removing, Same
  <2>3. failures["store"] = 0 => StoreInv'
    BY <1>0, <1>3, <2>1, SameFacts
       DEF Inv, StoreInv, Cleaning, Removing, AfterCheck, AfterVerify, Cached
  <2> QED BY Zenon, <1>0, <2>1, <2>2, <2>3 DEF Inv, Shape, Same
<1>4. CASE job' = Over([job EXCEPT !.cache = Uncached(u)]) /\ UNCHANGED store
  <2>1. failures["store"] = 0 => [job EXCEPT !.cache = Uncached(u)].cache \subseteq store
    BY Zenon, <1>0 DEF Inv, Shape, StoreInv, Uncached, Fields
  <2> QED BY Zenon, <1>0, <1>2, <1>4, <2>1, OverFields, IdleInv
<1> QED BY Zenon, <1>1, <1>3, <1>4

\* The end of the fetch: a pull is over, another job verifies the Target.
LEMMA FetchDoneKeeps == ASSUME Inv, FetchDone PROVE Inv'
<1>1. CASE job.kind = "pull"
  BY <1>1, QuietSteps, Zenon
<1>2. CASE job.kind # "pull"
  <2>1. job.pc = "fetch" /\ UNCHANGED <<current, store, failures>>
    BY Zenon DEF FetchDone, device
  <2>2. Same /\ job'.pc = "verify" /\ job'.cache = job.cache
    BY Zenon, <1>2, <2>1 DEF FetchDone, Inv, Shape, Same, Fields
  <2>3. OfflineInv'
    BY Zenon, <2>2 DEF OfflineInv, Offering, Removing
  <2>4. failures["store"] = 0 => StoreInv'
    BY Zenon, <2>1, <2>2, SameFacts DEF Inv, StoreInv, Cleaning, Removing, AfterCheck, AfterVerify
  <2> QED BY Zenon, <2>1, <2>2, <2>3, <2>4 DEF Inv, Shape, Same
<1> QED BY Zenon, <1>1, <1>2

\* Verify: what the check listed is in the store when the cache can be trusted.
LEMMA VerifyKeeps == ASSUME Inv, Verify PROVE Inv'
<1> DEFINE j == [job EXCEPT !.cache = @ \union (Pending \intersect store)]
<1>0. Shape /\ job.pc = "verify" /\ UNCHANGED <<current, store, failures>>
  BY Zenon DEF Inv, Verify, device
<1>1. \/ /\ \A u \in Pending : isFetched(job.cache, u)
         /\ job' = [j EXCEPT !.pc = "stop"]
      \/ job' = Over(j)
  BY Zenon DEF Verify, Pending
<1>2. j.cache = job.cache \union (Pending \intersect store)
  BY Zenon, <1>0 DEF Shape, Fields
<1>3. CASE /\ \A u \in Pending : isFetched(job.cache, u)
           /\ job' = [j EXCEPT !.pc = "stop"]
  <2>1. Same /\ job'.pc = "stop" /\ job'.cache = j.cache
    BY Zenon, <1>0, <1>2, <1>3 DEF Shape, Same, Fields
  <2>2. OfflineInv'
    BY Zenon, <2>1 DEF OfflineInv, Offering, Removing
  <2>3. ASSUME failures["store"] = 0 PROVE StoreInv'
    <3>1. /\ job.cache \subseteq store
          /\ AsRecorded => \A u \in Needed(job.target) : u \in Pending \union store \/ MayBeGone(u)
      BY Zenon, <1>0, <2>3 DEF Inv, StoreInv, AfterCheck
    <3>2. Pending \subseteq store
      BY Zenon, <1>3, <3>1 DEF isFetched
    <3> QED BY <1>0, <1>2, <2>1, <3>1, <3>2, SameFacts
            DEF StoreInv, Cleaning, Removing, AfterCheck, AfterVerify
  <2> QED BY Zenon, <1>0, <2>1, <2>2, <2>3 DEF Inv, Shape, Same
<1>4. CASE job' = Over(j)
  <2>1. failures["store"] = 0 => j.cache \subseteq store
    BY Zenon, <1>2 DEF Inv, StoreInv
  <2> HIDE DEF j
  <2> QED BY Zenon, <1>0, <1>4, <2>1, OverFields, IdleInv DEF Shape
<1> QED BY Zenon, <1>1, <1>3, <1>4

\* The Apps are stopped and started: the store is left alone.
LEMMA StartKeeps ==
  ASSUME Inv, Stop \/ RunApp \/ RunDone
  PROVE  Inv'
<1>0. Shape /\ UNCHANGED <<current, store>> /\ job.pc \in {"stop", "run"}
  BY Zenon DEF Inv, Stop, RunApp, RunDone, device
<1>1. UNCHANGED failures \/ Fails("docker") \/ Fails("app")
  BY Zenon DEF Stop, RunApp, RunDone
<1>2. DOMAIN failures' = AllFailures /\ failures'["store"] = failures["store"]
  BY Zenon, <1>0, <1>1, OtherFailure DEF AllFailures
<1>3. /\ Same /\ job'.cache = job.cache
      /\ job'.pc = "run" \/ (job'.pc = "remove" /\ job'.then = "save")
  <2>1. CASE Stop
    BY Zenon, <1>0, <1>2, <2>1 DEF Stop, Shape, Same, Fields
  <2>2. CASE RunApp
    BY Zenon, <1>0, <1>2, <2>2 DEF RunApp, Shape, Same, Fields
  <2>3. CASE RunDone
    BY Zenon, <1>0, <1>2, <2>3 DEF RunDone, Shape, Same, Fields
  <2> QED BY Zenon, <2>1, <2>2, <2>3
<1>4. OfflineInv'
  BY Zenon, <1>3 DEF OfflineInv, Offering, Removing
<1>5. failures["store"] = 0 => StoreInv'
  BY Zenon, <1>0, <1>3, SameFacts DEF Inv, StoreInv, Cleaning, Removing, AfterCheck, AfterVerify
<1> QED BY Zenon, <1>0, <1>3, <1>4, <1>5 DEF Inv, Shape, Same

\* The rollback checks the Apps of the current Target.
LEMMA RunFailedKeeps == ASSUME Inv, RunFailed PROVE Inv'
<1>0. Shape /\ UNCHANGED <<current, store, failures>>
  BY Zenon DEF Inv, RunFailed
<1>1. CASE job' = Over(job)
  <2>1. failures["store"] = 0 => job.cache \subseteq store
    BY Zenon DEF Inv, StoreInv
  <2> QED BY Zenon, <1>0, <1>1, <2>1, OverFields, IdleInv DEF Shape
<1>2. CASE job' # Over(job)
  <2>1. PICK check \in BOOLEAN :
          job' = [Checked(current, check) EXCEPT
                    !.pc = "verify", !.target = current, !.rollback = TRUE]
    BY Zenon, <1>2, CheckStoreType DEF RunFailed
  <2>2. /\ DOMAIN job' = Fields /\ job'.cfg = job.cfg
        /\ job'.toUpdate = AppsToUpdate(job.cache, current)
        /\ job'.toFetch = AppsToFetch(job.cache, current, check)
        /\ job'.cache = job.cache \union (Probed(current, check) \intersect store)
        /\ job'.pc = "verify" /\ job'.target = current
    BY Zenon, <1>0, <2>1 DEF Checked, Shape, Fields
  <2>3. ~Offering'
    BY Zenon, <2>2 DEF Offering, Removing
  <2> QED BY Zenon, <1>0, <2>2, <2>3, CheckSelects
<1> QED BY Zenon, <1>1, <1>2

-----------------------------------------------------------------------------
(* The cleanup.                                                             *)

\* The removal of the Apps the Target does not have.
LEMMA RemoveKeeps ==
  ASSUME Inv, RemoveApp \/ RemoveDone
  PROVE  Inv'
<1>0. Shape /\ UNCHANGED <<current, store>> /\ job.pc = "remove"
  BY Zenon DEF Inv, RemoveApp, RemoveDone, device
<1>1. UNCHANGED failures \/ Fails("docker")
  BY Zenon DEF RemoveApp, RemoveDone
<1>2. DOMAIN failures' = AllFailures /\ failures'["store"] = failures["store"]
  BY Zenon, <1>0, <1>1, OtherFailure DEF AllFailures
<1>3. /\ Same /\ job'.cache = job.cache /\ job'.then = job.then
      /\ job'.pc = "remove" \/ (job'.pc = "prune" /\ job'.todo = store \ Kept)
  <2>1. CASE RemoveApp
    BY Zenon, <1>0, <1>2, <2>1 DEF RemoveApp, Shape, Same, Fields
  <2>2. CASE RemoveDone
    BY Zenon, <1>0, <1>2, <2>2 DEF RemoveDone, Shape, Same, Fields
  <2> QED BY Zenon, <2>1, <2>2
<1>4. OfflineInv'
  BY Zenon, <1>0, <1>3 DEF Inv, OfflineInv, Offering, Removing, Same
<1>5. Kept' = Kept
  BY Zenon, <1>3 DEF Same, Kept
<1>6. failures["store"] = 0 => StoreInv'
  BY Zenon, <1>0, <1>3, <1>5, SameFacts
     DEF Inv, StoreInv, Cleaning, Removing, AfterCheck, AfterVerify
<1> QED BY Zenon, <1>0, <1>3, <1>4, <1>6 DEF Inv, Shape, Same

\* A prune takes what is not kept, from the cache as well as from the store.
LEMMA PruneAppKeeps == ASSUME Inv, PruneApp PROVE Inv'
<1>0. Shape /\ UNCHANGED current /\ job.pc = "prune"
  BY Zenon DEF Inv, PruneApp
<1>1. PICK u \in job.todo :
        /\ UNCHANGED failures \/ Fails("docker")
        /\ store' \in {store, store \ {u}}
        /\ \/ job' = [job EXCEPT !.todo = @ \ {u}, !.cache = @ \ {u}]
           \/ job' = [job EXCEPT !.todo = {}, !.cache = @ \ {u}]
  BY Zenon DEF PruneApp
<1>2. DOMAIN failures' = AllFailures /\ failures'["store"] = failures["store"]
  BY Zenon, <1>0, <1>1, OtherFailure DEF AllFailures
<1>3. /\ Same /\ job'.pc = "prune" /\ job'.then = job.then
      /\ job'.todo \subseteq job.todo /\ job'.cache = job.cache \ {u}
  <2>1. CASE job' = [job EXCEPT !.todo = @ \ {u}, !.cache = @ \ {u}]
    BY Zenon, <1>0, <1>2, <2>1 DEF Shape, Same, Fields
  <2>2. CASE job' = [job EXCEPT !.todo = {}, !.cache = @ \ {u}]
    BY Zenon, <1>0, <1>2, <2>2 DEF Shape, Same, Fields
  <2> QED BY Zenon, <1>1, <2>1, <2>2
<1>4. OfflineInv'
  BY Zenon, <1>0, <1>3 DEF Inv, OfflineInv, Offering, Removing, Same
<1>5. ASSUME failures["store"] = 0 PROVE StoreInv'
  <2>1. u \notin Kept /\ StoreInv
    BY Zenon, <1>0, <1>5 DEF Inv, StoreInv
  <2>2. Kept' = Kept
    BY Zenon, <1>3 DEF Same, Kept
  <2>3. job'.cache \subseteq store' /\ (\A v : v \in store /\ v # u => v \in store')
    BY Zenon, <1>1, <1>3, <2>1 DEF StoreInv
  <2>4. /\ Cleaning' <=> Cleaning
        /\ AfterCheck' <=> AfterCheck
        /\ AfterVerify' <=> AfterVerify
    BY Zenon, <1>0, <1>3 DEF Cleaning, Removing, AfterCheck, AfterVerify
  <2>5. Cleaning => Pending = {} /\ Kept = Needed(current)
    BY Zenon, <2>1 DEF StoreInv, Cleaning, Kept, Needed
  <2>6. ~Cleaning => Kept = Needed(job.target)
    BY Zenon, <1>0 DEF Cleaning, Removing, Kept, Needed
  <2>7. AfterCheck => Cleaning
    BY Zenon, <1>0 DEF AfterCheck
  <2>8. AfterVerify => ~Cleaning
    BY Zenon, <1>0 DEF AfterVerify, Cleaning
  <2>9. AfterCheck /\ AsRecorded =>
          \A v \in Needed(job.target) : v \in Pending \union store' \/ MayBeGone(v)
    BY Zenon, <2>1, <2>3, <2>5, <2>7 DEF StoreInv, MayBeGone
  <2>10. AfterVerify /\ AsRecorded =>
           \A v \in Needed(job.target) : v \in store' \/ MayBeGone(v)
    BY Zenon, <2>1, <2>3, <2>6, <2>8 DEF StoreInv
  <2>11. Cleaning' => Pending' = {}
    BY Zenon, <1>3, <2>4, <2>5, SameFacts
  <2>12. \A v \in job'.todo : v \notin Kept'
    BY Zenon, <1>0, <1>3, <2>1, <2>2 DEF StoreInv
  <2>13. AfterCheck' /\ AsRecorded' =>
           \A v \in Needed(job.target)' : v \in Pending' \union store' \/ MayBeGone(v)'
    BY Zenon, <1>3, <2>4, <2>9, SameFacts
  <2>14. AfterVerify' /\ AsRecorded' =>
           \A v \in Needed(job.target)' : v \in store' \/ MayBeGone(v)'
    BY Zenon, <1>3, <2>4, <2>10, SameFacts
  <2> QED BY Zenon, <2>3, <2>11, <2>12, <2>13, <2>14 DEF StoreInv
<1> QED BY Zenon, <1>0, <1>3, <1>4, <1>5 DEF Inv, Shape, Same

\* The end of a prune, which may be repeated.
LEMMA PruneDoneKeeps == ASSUME Inv, PruneDone PROVE Inv'
<1>0. Shape /\ UNCHANGED <<current, store, failures>> /\ job.pc = "prune"
  BY Zenon DEF Inv, PruneDone, device
<1>1. CASE job' = [job EXCEPT !.prunes = @ - 1, !.todo = store \ Kept]
  <2>1. /\ Same /\ job'.pc = "prune" /\ job'.then = job.then /\ job'.cache = job.cache
        /\ job'.todo = store \ Kept
    BY Zenon, <1>0, <1>1 DEF Shape, Same, Fields
  <2>2. OfflineInv'
    BY Zenon, <1>0, <2>1 DEF Inv, OfflineInv, Offering, Removing, Same
  <2>3. Kept' = Kept
    BY Zenon, <2>1 DEF Same, Kept
  <2>4. failures["store"] = 0 => StoreInv'
    BY Zenon, <1>0, <2>1, <2>3, SameFacts
       DEF Inv, StoreInv, Cleaning, Removing, AfterCheck, AfterVerify
  <2> QED BY Zenon, <1>0, <2>1, <2>2, <2>4 DEF Inv, Shape, Same
<1>2. CASE job' = Over(job)
  <2>1. failures["store"] = 0 => job.cache \subseteq store
    BY Zenon DEF Inv, StoreInv
  <2> QED BY Zenon, <1>0, <1>2, <2>1, OverFields, IdleInv DEF Shape
<1>3. CASE job.then # "idle" /\ job' = [job EXCEPT !.pc = job.then, !.prunes = 0]
  <2>1. /\ Same /\ job'.pc = job.then /\ job'.then = job.then /\ job'.cache = job.cache
        /\ job'.todo = job.todo /\ job.todo = {}
    BY Zenon, <1>0, <1>3 DEF Shape, Same, Fields, PruneDone
  <2>2. OfflineInv'
    BY Zenon, <1>0, <2>1 DEF Inv, OfflineInv, Offering, Removing, Same
  <2>3. failures["store"] = 0 => StoreInv'
    BY Zenon, <1>0, <1>3, <2>1, SameFacts
       DEF Inv, StoreInv, Cleaning, Removing, AfterCheck, AfterVerify
  <2> QED BY Zenon, <1>0, <2>1, <2>2, <2>3 DEF Inv, Shape, Same
<1> QED BY Zenon, <1>1, <1>2, <1>3 DEF PruneDone

-----------------------------------------------------------------------------
(* The theorems.                                                            *)

\* The invariant holds initially.
LEMMA InvInit == Init => Inv
<1> SUFFICES ASSUME Init PROVE Inv
  BY Zenon
<1>1. job = NoJob /\ failures = [k \in AllFailures |-> 0]
  BY Zenon DEF Init
<1>2. Shape
  BY Zenon, <1>1, NoJobFields DEF Shape, AllFailures
<1>3. OfflineInv
  BY Zenon, <1>1, NoJobFields DEF OfflineInv, Offering, Removing
<1>4. StoreInv
  BY Zenon, <1>1, NoJobFields DEF StoreInv, Cleaning, Removing, AfterCheck, AfterVerify
<1> QED BY Zenon, <1>2, <1>3, <1>4 DEF Inv

\* Every step keeps the invariant.
LEMMA InvNext == Inv /\ [Next]_vars => Inv'
<1> SUFFICES ASSUME Inv, [Next]_vars PROVE Inv'
  BY Zenon
<1>1. CASE \/ StartDaemon \/ StartCommand \/ Kill \/ Save \/ Publish \/ Edit
           \/ AppStops \/ StoreLoses \/ UNCHANGED vars
  BY <1>1, QuietSteps, Zenon
<1>2. CASE Check
  BY Zenon, <1>2, CheckKeeps
<1>3. CASE Download \/ FetchApp \/ FetchDone
  BY Zenon, <1>3, DownloadKeeps, FetchAppKeeps, FetchDoneKeeps
<1>4. CASE Verify \/ Stop \/ RunApp \/ RunDone \/ RunFailed
  BY Zenon, <1>4, VerifyKeeps, StartKeeps, RunFailedKeeps
<1>5. CASE RemoveApp \/ RemoveDone \/ PruneApp \/ PruneDone
  BY Zenon, <1>5, RemoveKeeps, PruneAppKeeps, PruneDoneKeeps
<1> QED BY <1>1, <1>2, <1>3, <1>4, <1>5, Zenon DEF Next, Step

\* InstalledIsStored: LiteClient::install records a Target only with the Apps
\* it needs in the store, but for the exceptions the property names.
THEOREM RecordedIsStored == Spec => []InstalledIsStored
<1>1. Inv => InstalledIsStored
  BY Zenon DEF Inv, StoreInv, AfterVerify, AsRecorded, MayBeGone, Needed, Pending,
     InstalledIsStored
<1> QED BY <1>1, InvInit, InvNext, PTL DEF Spec

\* OfflineHasContent: an offline update asks its bundle for nothing that
\* getAvailableTargets did not find there.
THEOREM OffersAreComplete == Spec => []OfflineHasContent
<1>1. Inv => OfflineHasContent
  BY Zenon DEF Inv, OfflineInv, OfflineHasContent
<1> QED BY <1>1, InvInit, InvNext, PTL DEF Spec

-----------------------------------------------------------------------------
(* The types.                                                               *)

\* What a job holds: the Apps it is to fetch or to run are versions, not
\* names, and an offline update has a bundle.
JobOK(j) ==
  /\ j \in Job
  /\ j.pc \in {"fetch", "run"} => j.todo \subseteq Uri
  /\ j.kind = "offline" => j.bundle \in Bundles

Typed == TypeOK /\ JobOK(job)

\* The state of no job has the type of a job.
LEMMA NoJobType == JobOK(NoJob)
<1>1. Online(First) \in Recorded
  BY Zenon, AppSyncAssumption DEF Recorded, Online
<1>2. First \in Target /\ FirstConfig \in Configs
  BY Zenon, AppSyncAssumption
<1>3. 0 \in 0 .. 2
  OBVIOUS
<1>4. NoJob \in Job
  BY Zenon, <1>1, <1>2, <1>3 DEF NoJob, Job
<1>5. NoJob.pc = "off" /\ NoJob.kind = "none"
  BY Zenon DEF NoJob
<1>6. NoJob.pc \notin {"fetch", "run"} /\ NoJob.kind # "offline"
  BY Zenon, <1>5
<1> QED
  BY Zenon, <1>4, <1>6 DEF JobOK

\* So has that of a process which is through with a Target.
LEMMA OverType ==
  ASSUME NEW j \in Job
  PROVE  JobOK(Over(j))
<1>1. CASE j.kind = "daemon"
  <2> DEFINE o == [NoJob EXCEPT !.kind = "daemon", !.pc = "idle", !.cfg = j.cfg,
                                !.cleanup = j.cleanup, !.cache = j.cache]
  <2>1. o \in Job /\ o.kind = "daemon" /\ o.pc = "idle"
    BY Zenon, NoJobType DEF JobOK, Job
  <2> QED BY Zenon, <1>1, <2>1 DEF Over, JobOK
<1>2. CASE j.kind # "daemon"
  BY Zenon, <1>2, NoJobType DEF Over
<1> QED BY Zenon, <1>1, <1>2

\* A failure is counted, and there are at most MaxFailures.
LEMMA FailuresType ==
  ASSUME failures \in [AllFailures -> 0 .. MaxFailures],
         UNCHANGED failures \/ \E k \in AllFailures : Fails(k)
  PROVE  failures' \in [AllFailures -> 0 .. MaxFailures]
<1>1. CASE UNCHANGED failures
  BY Zenon, <1>1
<1>2. ASSUME NEW k \in AllFailures, Fails(k)
      PROVE  failures' \in [AllFailures -> 0 .. MaxFailures]
  <2>1. MaxFailures \in Nat
    BY Zenon, AppSyncAssumption
  <2>2. failures[k] + 1 \in 0 .. MaxFailures
    BY <1>2, <2>1 DEF Fails, TotalFailures, AllFailures
  <2> QED BY Zenon, <1>2, <2>2 DEF Fails
<1> QED BY Zenon, <1>1, <1>2

\* The Targets at hand are recorded Targets.
LEMMA TargetTypes ==
  ASSUME Typed
  PROVE  /\ Candidate \in Recorded
         /\ CurrentSelected \in Recorded
<1>1. \A t \in Target : Online(t) \in Recorded
  BY Zenon, AppSyncAssumption DEF Online, Recorded
<1>2. \A b \in Bundles : Offered(b) \in Recorded
  <2> SUFFICES ASSUME NEW b \in Bundles PROVE Offered(b) \in Recorded
    BY Zenon
  <2>1. b.target \in Target
    BY Zenon, AppSyncAssumption
  <2> QED BY Zenon, <2>1, AppSyncAssumption DEF Offered, Recorded
<1>3. /\ latest \in Target /\ current \in Recorded /\ current.id \in Target
      /\ job.wanted \in Target /\ (job.kind = "offline" => job.bundle \in Bundles)
  BY Zenon DEF Typed, TypeOK, JobOK, Job, Recorded
<1> QED BY Zenon, <1>1, <1>2, <1>3 DEF Candidate, CurrentSelected

\* The lists of a check are lists of versions in the Target.
LEMMA ListTypes ==
  ASSUME NEW cache, NEW t \in Recorded, NEW check \in BOOLEAN
  PROVE  /\ AppsToUpdate(cache, t) \subseteq Uri
         /\ AppsToFetch(cache, t, check) \subseteq Uri
         /\ Probed(t, check) \subseteq Uri
<1>1. t.apps \subseteq Uri
  BY Zenon DEF Recorded
<1>2. getApps(job.cfg, t.apps) \subseteq Uri /\ getRequiredApps(job.cfg, t.apps) \subseteq Uri
  BY Zenon, <1>1 DEF getApps, getRequiredApps
<1> QED BY Zenon, <1>2 DEF AppsToUpdate, getAppsToUpdate, AppsToFetch, Probed

\* checkForAppsToUpdate keeps the type of the job.
LEMMA CheckedType ==
  ASSUME Typed, NEW t \in Recorded, NEW check \in BOOLEAN
  PROVE  /\ Checked(t, check) \in Job
         /\ Checked(t, check).kind = job.kind /\ Checked(t, check).bundle = job.bundle
<1>1. job \in Job
  BY Zenon DEF Typed, JobOK
<1>2. /\ AppsToUpdate(job.cache, t) \subseteq Uri
      /\ AppsToFetch(job.cache, t, check) \subseteq Uri
      /\ job.cache \union (Probed(t, check) \intersect store) \subseteq Uri
  BY Zenon, <1>1, ListTypes DEF Job
<1> QED BY Zenon, <1>1, <1>2 DEF Checked, Job

\* Steps of a process that leave the Apps and the records alone: the job that
\* follows has the type of a job.
LEMMA JobStepType ==
  ASSUME Typed, JobOK(job'), UNCHANGED <<device, world>>,
         UNCHANGED failures \/ \E k \in AllFailures : Fails(k)
  PROVE  Typed'
<1>1. failures' \in [AllFailures -> 0 .. MaxFailures]
  BY Zenon, FailuresType DEF Typed, TypeOK
<1>2. job' \in Job
  BY Zenon DEF JobOK
<1> QED BY Zenon, <1>1, <1>2 DEF Typed, TypeOK, device, world

\* The start of a process, and its end.
LEMMA StartTypes ==
  ASSUME Typed, StartDaemon \/ StartCommand \/ Kill
  PROVE  Typed'
<1>0. config \in Configs /\ NoJob \in Job
  BY Zenon, NoJobType DEF Typed, TypeOK, JobOK
<1>1. CASE StartDaemon
  <2>1. JobOK(job')
    BY Zenon, <1>0, <1>1 DEF StartDaemon, JobOK, Job
  <2> QED BY Zenon, <1>1, <2>1, JobStepType DEF StartDaemon
<1>2. CASE StartCommand
  <2>1. PICK kind \in Commands, t \in Target, b \in Bundles, force \in BOOLEAN :
          job' = [NoJob EXCEPT !.kind = kind, !.pc = "idle", !.cfg = config,
                               !.force = force, !.cleanup = TRUE, !.wanted = t,
                               !.bundle = IF kind = "offline" THEN b ELSE NoBundle]
    BY ZenonT(30), <1>2 DEF StartCommand
  <2>2. JobOK(job')
    BY ZenonT(30), <1>0, <2>1 DEF JobOK, Job
  <2>3. commands' \in 0 .. MaxCommands
    <3>1. commands < MaxCommands /\ commands' = commands + 1 /\ commands \in 0 .. MaxCommands
      BY <1>2, Zenon DEF StartCommand, Typed, TypeOK
    <3> QED BY <3>1, AppSyncAssumption
  <2> QED BY Zenon, <1>2, <2>2, <2>3 DEF StartCommand, Typed, TypeOK, JobOK, device
<1>3. CASE Kill
  <2>1. JobOK(job')
    BY Zenon, <1>3, NoJobType DEF Kill
  <2>2. kills' \in 0 .. MaxKills
    BY <1>3, AppSyncAssumption DEF Kill, Typed, TypeOK
  <2> QED BY Zenon, <1>3, <2>1, <2>2 DEF Kill, Typed, TypeOK, JobOK, device
<1> QED BY Zenon, <1>1, <1>2, <1>3

\* What happens around the process.
LEMMA WorldTypes ==
  ASSUME Typed, Publish \/ Edit \/ AppStops \/ StoreLoses \/ UNCHANGED vars
  PROVE  Typed'
<1>1. CASE Publish
  <2>1. publishes' \in 0 .. MaxPublish
    BY <1>1, AppSyncAssumption DEF Publish, Typed, TypeOK
  <2> QED BY Zenon, <1>1, <2>1 DEF Publish, Typed, TypeOK, JobOK, device
<1>2. CASE Edit
  <2>1. edits' \in 0 .. MaxEdits
    BY <1>2, AppSyncAssumption DEF Edit, Typed, TypeOK
  <2> QED BY Zenon, <1>2, <2>1 DEF Edit, Typed, TypeOK, JobOK, device
<1>3. CASE AppStops \/ StoreLoses
  <2>1. failures' \in [AllFailures -> 0 .. MaxFailures]
    BY Zenon, <1>3, FailuresType DEF AppStops, StoreLoses, Typed, TypeOK, AllFailures
  <2>2. running' \subseteq Name /\ store' \subseteq Uri
    BY Zenon, <1>3 DEF AppStops, StoreLoses, Typed, TypeOK
  <2> QED BY Zenon, <1>3, <2>1, <2>2 DEF AppStops, StoreLoses, Typed, TypeOK, JobOK, world
<1>4. CASE UNCHANGED vars
  BY Zenon, <1>4 DEF vars, device, world, Typed, TypeOK, JobOK
<1> QED BY Zenon, <1>1, <1>2, <1>3, <1>4

\* handleRemovedApps is entered with the names of Apps.
CleanedUp(j, next, n, todo) ==
  [j EXCEPT !.pc = "remove", !.then = next, !.prunes = n, !.todo = todo]

\* The job it is entered with has the type of a job.
LEMMA CleanupType ==
  ASSUME NEW j \in Job, NEW next \in {"idle", "download", "verify", "save"},
         NEW n \in 0 .. 2, NEW todo \in SUBSET (Uri \union Name)
  PROVE  /\ CleanedUp(j, next, n, todo) \in Job
         /\ CleanedUp(j, next, n, todo).kind = j.kind
         /\ CleanedUp(j, next, n, todo).bundle = j.bundle
         /\ CleanedUp(j, next, n, todo).pc = "remove"
BY Zenon DEF Job, CleanedUp

\* Check: whichever way it ends.
LEMMA CheckTypes == ASSUME Typed, Check PROVE Typed'
<1> DEFINE new == IsNew(Candidate)
           t == IF new THEN Candidate ELSE current
           target == IF new THEN t ELSE CurrentSelected
<1>1. PICK check \in CheckStore :
        LET j == [Checked(t, check) EXCEPT !.cleanup = FALSE]
            inSync == j.toUpdate \union j.toFetch = {}
            go == new \/ job.kind # "daemon" \/ ~inSync
            next == IF ~go THEN "idle"
                    ELSE IF job.kind = "install" THEN "verify" ELSE "download"
            selected == [j EXCEPT !.pc = next, !.target = target]
        IN job' =
             IF job.kind = "offline" /\ ~Available(job.bundle, job.cfg) THEN NoJob
             ELSE IF job.cleanup /\ inSync
               THEN [selected EXCEPT !.pc = "remove", !.then = next, !.prunes = 1,
                                     !.todo = RemovedApps(job.cfg, current.apps)]
             ELSE IF go THEN selected
             ELSE Over(j)
  BY ZenonT(60) DEF Check
<1> DEFINE c == Checked(t, check)
           j == [c EXCEPT !.cleanup = FALSE]
           inSync == j.toUpdate \union j.toFetch = {}
           go == new \/ job.kind # "daemon" \/ ~inSync
           next == IF ~go THEN "idle"
                   ELSE IF job.kind = "install" THEN "verify" ELSE "download"
           selected == [j EXCEPT !.pc = next, !.target = target]
           removing == [selected EXCEPT !.pc = "remove", !.then = next, !.prunes = 1,
                                        !.todo = RemovedApps(job.cfg, current.apps)]
<1>2. t \in Recorded /\ target \in Recorded
  BY Zenon, TargetTypes DEF Typed, TypeOK
<1>3. c \in Job /\ c.kind = job.kind /\ c.bundle = job.bundle
  BY Zenon, <1>2, CheckStoreType, CheckedType
<1>4. next \in {"idle", "download", "verify"}
  BY Zenon
<1>5. job' \in {NoJob, removing, selected, Over(j)}
  BY Zenon, <1>1
<1>6. job.kind = "offline" => job.bundle \in Bundles
  BY Zenon DEF Typed, JobOK
<1>7. RemovedApps(job.cfg, current.apps) \subseteq Name
  BY Zenon DEF RemovedApps
<1> HIDE DEF c, next, target, t
<1>8. j \in Job /\ j.kind = job.kind /\ j.bundle = job.bundle
  BY Zenon, <1>3 DEF Job
<1> HIDE DEF j
<1>9. /\ selected \in Job /\ selected.kind = job.kind /\ selected.bundle = job.bundle
      /\ selected.pc = next
  BY Zenon, <1>2, <1>4, <1>8 DEF Job
<1> HIDE DEF selected
<1>10. /\ removing \in Job /\ removing.kind = job.kind /\ removing.bundle = job.bundle
       /\ removing.pc = "remove"
  <2>1. next \in {"idle", "download", "verify", "save"} /\ 1 \in 0 .. 2
    BY <1>4
  <2>2. RemovedApps(job.cfg, current.apps) \in SUBSET (Uri \union Name)
    BY Zenon, <1>7
  <2>3. /\ removing \in Job /\ removing.kind = selected.kind
        /\ removing.bundle = selected.bundle /\ removing.pc = "remove"
    <3>1. removing = CleanedUp(selected, next, 1, RemovedApps(job.cfg, current.apps))
      BY Zenon DEF CleanedUp
    <3> HIDE DEF removing
    <3> QED BY <1>9, <2>1, <2>2, <3>1, CleanupType
  <2> HIDE DEF removing
  <2> QED BY Zenon, <1>9, <2>3
<1> HIDE DEF removing
<1>11. JobOK(job')
  BY Zenon, <1>4, <1>5, <1>6, <1>8, <1>9, <1>10, NoJobType, OverType DEF JobOK
<1> QED BY Zenon, <1>11, JobStepType DEF Check

\* Download: what is to be fetched are versions of Apps.
LEMMA DownloadTypes == ASSUME Typed, Download PROVE Typed'
<1>0. job \in Job /\ job.target \in Recorded /\ (job.kind = "offline" => job.bundle \in Bundles)
  BY Zenon DEF Typed, JobOK, Job
<1>1. UNCHANGED failures \/ \E k \in AllFailures : Fails(k)
  BY Zenon DEF Download, AllFailures
<1>2. JobOK(job')
  <2>1. CASE job' = Over(job)
    BY Zenon, <1>0, <2>1, OverType
  <2>2. CASE job' # Over(job)
    <3> DEFINE todo(check) ==
          IF job.kind = "offline"
            THEN AppsToUpdate({}, job.target) \union AppsToFetch({}, job.target, check)
            ELSE job.toUpdate \union job.toFetch
    <3>1. PICK check \in BOOLEAN : job' = [job EXCEPT !.pc = "fetch", !.todo = todo(check)]
      BY Zenon, <2>2, CheckStoreType DEF Download
    <3>2. job.toUpdate \subseteq Uri /\ job.toFetch \subseteq Uri
      BY Zenon, <1>0 DEF Job
    <3>3. todo(check) \subseteq Uri
      BY Zenon, <1>0, <3>2, ListTypes
    <3> HIDE DEF todo
    <3> QED BY Zenon, <1>0, <3>1, <3>3 DEF JobOK, Job
  <2> QED BY Zenon, <2>1, <2>2
<1> QED BY Zenon, <1>1, <1>2, JobStepType DEF Download

\* The fetch of an App puts a version into the store.
LEMMA FetchTypes == ASSUME Typed, FetchApp \/ FetchDone PROVE Typed'
<1>0. job \in Job /\ job.cache \subseteq Uri /\ job.todo \subseteq Uri \union Name
      /\ (job.kind = "offline" => job.bundle \in Bundles)
  BY Zenon DEF Typed, JobOK, Job
<1>1. CASE FetchApp
  <2>1. job.pc = "fetch" /\ job.todo \subseteq Uri
    BY Zenon, <1>1 DEF FetchApp, Typed, JobOK
  <2>2. PICK u \in job.todo :
          \/ /\ store' = store \union {u}
             /\ job' = [job EXCEPT !.todo = @ \ {u}, !.cache = Cached(u)]
             /\ UNCHANGED failures
          \/ /\ UNCHANGED failures \/ Fails("download")
             /\ job' = Over([job EXCEPT !.cache = Uncached(u)])
             /\ UNCHANGED store
    BY Zenon, <1>1 DEF FetchApp
  <2>3. failures' \in [AllFailures -> 0 .. MaxFailures]
    BY Zenon, <2>2, FailuresType DEF Typed, TypeOK, AllFailures
  <2>4. store' \subseteq Uri
    BY Zenon, <2>1, <2>2 DEF Typed, TypeOK
  <2>5. JobOK(job')
    <3>1. Cached(u) \subseteq Uri /\ Uncached(u) \subseteq Uri
      BY Zenon, <1>0, <2>1 DEF Cached, Uncached
    <3>2. CASE job' = [job EXCEPT !.todo = @ \ {u}, !.cache = Cached(u)]
      BY Zenon, <1>0, <2>1, <3>1, <3>2 DEF JobOK, Job
    <3>3. [job EXCEPT !.cache = Uncached(u)] \in Job
      BY Zenon, <1>0, <3>1 DEF Job
    <3> QED BY Zenon, <2>2, <3>2, <3>3, OverType
  <2> QED BY Zenon, <1>1, <2>3, <2>4, <2>5 DEF FetchApp, Typed, TypeOK, JobOK, world
<1>2. CASE FetchDone
  <2>1. [job EXCEPT !.pc = "verify"] \in Job /\ [job EXCEPT !.pc = "verify"].pc = "verify"
        /\ [job EXCEPT !.pc = "verify"].kind = job.kind
        /\ [job EXCEPT !.pc = "verify"].bundle = job.bundle
    BY Zenon, <1>0 DEF Job
  <2>2. job' \in {Over(job), [job EXCEPT !.pc = "verify"]}
    BY Zenon, <1>2 DEF FetchDone
  <2>3. JobOK(job')
    BY Zenon, <1>0, <2>1, <2>2, OverType DEF JobOK
  <2> QED BY Zenon, <1>2, <2>3, JobStepType DEF FetchDone
<1> QED BY Zenon, <1>1, <1>2

\* The verification of the Target, and the stop of its Apps.
LEMMA VerifyTypes == ASSUME Typed, Verify \/ Stop PROVE Typed'
<1>0. /\ job \in Job /\ job.cache \subseteq Uri
      /\ job.toUpdate \subseteq Uri /\ job.toFetch \subseteq Uri
      /\ (job.kind = "offline" => job.bundle \in Bundles)
  BY Zenon DEF Typed, JobOK, Job
<1>1. CASE Verify
  <2> DEFINE j == [job EXCEPT !.cache = @ \union ((job.toUpdate \union job.toFetch) \intersect store)]
  <2>1. j \in Job /\ j.kind = job.kind /\ j.bundle = job.bundle
    BY Zenon, <1>0 DEF Job
  <2>2. job' = [j EXCEPT !.pc = "stop"] \/ job' = Over(j)
    BY Zenon, <1>1 DEF Verify
  <2> HIDE DEF j
  <2>3. CASE job' = [j EXCEPT !.pc = "stop"]
    <3>1. JobOK(job')
      BY Zenon, <1>0, <2>1, <2>3 DEF JobOK, Job
    <3> QED BY Zenon, <1>1, <3>1, JobStepType DEF Verify
  <2>4. CASE job' = Over(j)
    <3>1. JobOK(job')
      BY Zenon, <2>1, <2>4, OverType
    <3> QED BY Zenon, <1>1, <3>1, JobStepType DEF Verify
  <2> QED BY Zenon, <2>2, <2>3, <2>4
<1>2. CASE Stop
  <2>1. JobOK(job')
    BY Zenon, <1>0, <1>2 DEF Stop, JobOK, Job
  <2>2. failures' \in [AllFailures -> 0 .. MaxFailures]
    BY Zenon, <1>2, FailuresType DEF Stop, Typed, TypeOK, AllFailures
  <2>3. running' \subseteq Name
    BY Zenon, <1>2 DEF Stop, Typed, TypeOK
  <2> QED BY Zenon, <1>2, <2>1, <2>2, <2>3 DEF Stop, Typed, TypeOK, JobOK, world
<1> QED BY Zenon, <1>1, <1>2

\* The start of an App: its directory holds one of its versions.
LEMMA RunTypes == ASSUME Typed, RunApp PROVE Typed'
<1>0. /\ job \in Job /\ job.todo \subseteq Uri
      /\ (job.kind = "offline" => job.bundle \in Bundles)
  BY Zenon DEF RunApp, Typed, JobOK
<1>1. PICK u \in job.todo :
        /\ UNCHANGED failures \/ Fails("app")
        /\ dir' \in {dir, [dir EXCEPT ![NameOf[u]] = u]}
        /\ running' \in {running, running \ {NameOf[u]}, running \union {NameOf[u]}}
        /\ \/ job' = [job EXCEPT !.todo = @ \ {u}]
           \/ job' = [job EXCEPT !.todo = @ \ {u}, !.ok = FALSE]
  BY Zenon DEF RunApp
<1>2. NameOf[u] \in Name /\ u \in Uri
  BY Zenon, <1>0, AppSyncAssumption
<1>3. dir' \in [Name -> Uri \union {NoUri}] /\ running' \subseteq Name
  BY Zenon, <1>1, <1>2 DEF Typed, TypeOK
<1>4. failures' \in [AllFailures -> 0 .. MaxFailures]
  BY Zenon, <1>1, FailuresType DEF Typed, TypeOK, AllFailures
<1>5. JobOK(job')
  <2>1. CASE job' = [job EXCEPT !.todo = @ \ {u}]
    BY Zenon, <1>0, <2>1 DEF JobOK, Job
  <2>2. CASE job' = [job EXCEPT !.todo = @ \ {u}, !.ok = FALSE]
    BY Zenon, <1>0, <2>2 DEF JobOK, Job
  <2> QED BY Zenon, <1>1, <2>1, <2>2
<1> QED BY Zenon, <1>3, <1>4, <1>5 DEF RunApp, Typed, TypeOK, JobOK, world

\* All Apps were started, or some were not.
LEMMA RunEndTypes == ASSUME Typed, RunDone \/ RunFailed PROVE Typed'
<1>0. /\ job \in Job /\ job.target \in Recorded /\ current \in Recorded
      /\ (job.kind = "offline" => job.bundle \in Bundles)
  BY Zenon DEF Typed, TypeOK, JobOK, Job
<1>1. CASE RunDone
  <2>1. job' = CleanedUp(job, "save", 2, RemovedApps(job.cfg, job.target.apps))
    BY Zenon, <1>1 DEF RunDone, CleanedUp
  <2>2. RemovedApps(job.cfg, job.target.apps) \in SUBSET (Uri \union Name)
    BY Zenon DEF RemovedApps
  <2>3. job \in Job /\ (job.kind = "offline" => job.bundle \in Bundles)
    BY Zenon, <1>0 DEF JobOK
  <2>4. 2 \in 0 .. 2 /\ "save" \in {"idle", "download", "verify", "save"}
    OBVIOUS
  <2>5. job' \in Job /\ job'.kind = job.kind /\ job'.bundle = job.bundle /\ job'.pc = "remove"
    BY Zenon, <2>1, <2>2, <2>3, <2>4, CleanupType
  <2>6. job'.pc \notin {"fetch", "run"}
    BY Zenon, <2>5
  <2>7. JobOK(job')
    BY Zenon, <2>3, <2>5, <2>6 DEF JobOK
  <2> QED BY Zenon, <1>1, <2>7, JobStepType DEF RunDone
<1>2. CASE RunFailed
  <2>1. JobOK(job')
    <3>1. CASE job' = Over(job)
      BY Zenon, <1>0, <3>1, OverType
    <3>2. CASE job' # Over(job)
      <4>1. PICK check \in BOOLEAN :
              job' = [Checked(current, check) EXCEPT
                        !.pc = "verify", !.target = current, !.rollback = TRUE]
        BY Zenon, <1>2, <3>2, CheckStoreType DEF RunFailed
      <4> DEFINE c == Checked(current, check)
      <4>2. c \in Job /\ c.kind = job.kind /\ c.bundle = job.bundle
        BY Zenon, <1>0, CheckedType
      <4> HIDE DEF c
      <4>3. job' = [c EXCEPT !.pc = "verify", !.target = current, !.rollback = TRUE]
        BY Zenon, <4>1 DEF c
      <4> QED BY Zenon, <1>0, <4>2, <4>3 DEF JobOK, Job
    <3> QED BY Zenon, <3>1, <3>2
  <2>2. failing' \subseteq Target
    BY Zenon, <1>0, <1>2 DEF RunFailed, Typed, TypeOK, Recorded
  <2> QED BY Zenon, <1>2, <2>1, <2>2 DEF RunFailed, Typed, TypeOK, JobOK, world
<1> QED BY Zenon, <1>1, <1>2

\* The removal of Apps.
LEMMA RemoveTypes == ASSUME Typed, RemoveApp \/ RemoveDone PROVE Typed'
<1>0. /\ job \in Job /\ job.pc = "remove" /\ job.todo \subseteq Uri \union Name
      /\ store \subseteq Uri /\ (job.kind = "offline" => job.bundle \in Bundles)
  BY Zenon DEF RemoveApp, RemoveDone, Typed, TypeOK, JobOK, Job
<1>1. CASE RemoveApp
  <2>1. PICK n \in job.todo :
          /\ job' = [job EXCEPT !.todo = @ \ {n}]
          /\ dir' \in {dir, [dir EXCEPT ![n] = NoUri]}
          /\ running' \in {running, running \ {n}}
          /\ UNCHANGED failures \/ Fails("docker")
    BY Zenon, <1>1 DEF RemoveApp
  <2>2. dir' \in [Name -> Uri \union {NoUri}] /\ running' \subseteq Name
    BY Zenon, <2>1 DEF Typed, TypeOK
  <2>3. failures' \in [AllFailures -> 0 .. MaxFailures]
    BY Zenon, <2>1, FailuresType DEF Typed, TypeOK, AllFailures
  <2>4. JobOK(job')
    BY Zenon, <1>0, <2>1 DEF JobOK, Job
  <2> QED BY Zenon, <1>1, <2>2, <2>3, <2>4 DEF RemoveApp, Typed, TypeOK, JobOK, world
<1>2. CASE RemoveDone
  <2>1. JobOK(job')
    BY Zenon, <1>0, <1>2 DEF RemoveDone, JobOK, Job
  <2> QED BY Zenon, <1>2, <2>1, JobStepType DEF RemoveDone
<1> QED BY Zenon, <1>1, <1>2

\* The prunes: at most two of them.
LEMMA PruneTypes == ASSUME Typed, PruneApp \/ PruneDone PROVE Typed'
<1>0. /\ job \in Job /\ job.pc = "prune" /\ job.todo \subseteq Uri \union Name
      /\ job.cache \subseteq Uri /\ job.prunes \in 0 .. 2
      /\ job.then \in {"idle", "download", "verify", "save"}
      /\ store \subseteq Uri /\ (job.kind = "offline" => job.bundle \in Bundles)
  BY Zenon DEF PruneApp, PruneDone, Typed, TypeOK, JobOK, Job
<1>1. CASE PruneApp
  <2>1. PICK u \in job.todo :
          /\ UNCHANGED failures \/ Fails("docker")
          /\ store' \in {store, store \ {u}}
          /\ \/ job' = [job EXCEPT !.todo = @ \ {u}, !.cache = @ \ {u}]
             \/ job' = [job EXCEPT !.todo = {}, !.cache = @ \ {u}]
    BY Zenon, <1>1 DEF PruneApp
  <2>2. store' \subseteq Uri
    BY Zenon, <1>0, <2>1
  <2>3. failures' \in [AllFailures -> 0 .. MaxFailures]
    BY Zenon, <2>1, FailuresType DEF Typed, TypeOK, AllFailures
  <2>4. JobOK(job')
    <3>1. CASE job' = [job EXCEPT !.todo = @ \ {u}, !.cache = @ \ {u}]
      BY Zenon, <1>0, <3>1 DEF JobOK, Job
    <3>2. CASE job' = [job EXCEPT !.todo = {}, !.cache = @ \ {u}]
      BY Zenon, <1>0, <3>2 DEF JobOK, Job
    <3> QED BY Zenon, <2>1, <3>1, <3>2
  <2> QED BY Zenon, <1>1, <2>2, <2>3, <2>4 DEF PruneApp, Typed, TypeOK, JobOK, world
<1>2. CASE PruneDone
  <2>1. JobOK(job')
    <3>1. CASE job.prunes > 1 /\ job' = [job EXCEPT !.prunes = @ - 1, !.todo = store \ Kept]
      <4>1. job.prunes - 1 \in 0 .. 2 /\ store \ Kept \subseteq Uri \union Name
        BY <1>0, <3>1
      <4> QED BY Zenon, <1>0, <3>1, <4>1 DEF JobOK, Job
    <3>2. CASE job' = Over(job)
      BY Zenon, <1>0, <3>2, OverType
    <3>3. CASE job' = [job EXCEPT !.pc = job.then, !.prunes = 0]
      <4>1. 0 \in 0 .. 2
        OBVIOUS
      <4> QED BY Zenon, <1>0, <3>3, <4>1 DEF JobOK, Job
    <3> QED BY Zenon, <1>2, <3>1, <3>2, <3>3 DEF PruneDone
  <2> QED BY Zenon, <1>2, <2>1, JobStepType DEF PruneDone
<1> QED BY Zenon, <1>1, <1>2

\* The record of an installation.
LEMMA SaveTypes == ASSUME Typed, Save PROVE Typed'
<1>0. job \in Job /\ job.target \in Recorded /\ job.target.id \in Target
  BY Zenon DEF Typed, JobOK, Job, Recorded
<1>1. JobOK(job')
  BY Zenon, <1>0, OverType DEF Save
<1> QED BY Zenon, <1>0, <1>1 DEF Save, Typed, TypeOK, JobOK, world

\* The types hold initially.
LEMMA TypedInit == Init => Typed
<1> SUFFICES ASSUME Init PROVE Typed
  BY Zenon
<1>1. JobOK(job)
  BY Zenon, NoJobType DEF Init
<1>2. /\ AppsOf[First] \subseteq Uri /\ First \in Target /\ FirstConfig \in Configs
      /\ NameOf \in [Uri -> Name]
      /\ {MaxFailures, MaxKills, MaxEdits, MaxPublish, MaxCommands} \subseteq Nat
  BY Zenon, AppSyncAssumption
<1>3. getApps(FirstConfig, AppsOf[First]) \subseteq AppsOf[First]
  BY Zenon DEF getApps
<1>4. store \subseteq Uri /\ running \subseteq Name
  BY Zenon, <1>2, <1>3 DEF Init, getRequiredApps
<1>5. dir \in [Name -> Uri \union {NoUri}]
  <2>1. ASSUME NEW n \in Name, \E u \in getApps(FirstConfig, AppsOf[First]) : NameOf[u] = n
        PROVE  (CHOOSE u \in AppsOf[First] : NameOf[u] = n) \in Uri
    <3>1. \E u \in AppsOf[First] : NameOf[u] = n
      BY Zenon, <1>3, <2>1
    <3> QED BY Zenon, <1>2, <3>1
  <2> QED BY <2>1, Zenon DEF Init
<1>6. failures \in [AllFailures -> 0 .. MaxFailures]
  BY <1>2 DEF Init
<1>7. current \in Recorded
  BY Zenon, <1>2 DEF Init, Online, Recorded
<1>8. /\ kills \in 0 .. MaxKills /\ edits \in 0 .. MaxEdits
      /\ publishes \in 0 .. MaxPublish /\ commands \in 0 .. MaxCommands
  BY <1>2 DEF Init
<1>9. config \in Configs /\ latest \in Target /\ failing \subseteq Target /\ installed \subseteq Target
  BY Zenon, <1>2 DEF Init
<1> QED BY Zenon, <1>1, <1>4, <1>5, <1>6, <1>7, <1>8, <1>9 DEF Typed, TypeOK, JobOK

\* Every step keeps them.
LEMMA TypedNext == Typed /\ [Next]_vars => Typed'
<1> SUFFICES ASSUME Typed, [Next]_vars PROVE Typed'
  BY Zenon
<1>1. CASE StartDaemon \/ StartCommand \/ Kill
  BY Zenon, <1>1, StartTypes
<1>2. CASE Publish \/ Edit \/ AppStops \/ StoreLoses \/ UNCHANGED vars
  BY Zenon, <1>2, WorldTypes
<1>3. CASE Check \/ Download \/ FetchApp \/ FetchDone
  BY Zenon, <1>3, CheckTypes, DownloadTypes, FetchTypes
<1>4. CASE Verify \/ Stop \/ RunApp \/ RunDone \/ RunFailed
  BY Zenon, <1>4, VerifyTypes, RunTypes, RunEndTypes
<1>5. CASE RemoveApp \/ RemoveDone \/ PruneApp \/ PruneDone \/ Save
  BY Zenon, <1>5, RemoveTypes, PruneTypes, SaveTypes
<1> QED BY <1>1, <1>2, <1>3, <1>4, <1>5, Zenon DEF Next, Step

\* TypeOK: whatever fails, is killed, edited or run by hand, the directories,
\* the store and the lists of a job hold what they are declared to hold: a
\* process never fetches or starts a name in place of a version, and never
\* prunes more than twice for one Target.
THEOREM SyncTypes == Spec => []TypeOK
<1>1. Typed => TypeOK
  BY Zenon DEF Typed
<1> QED BY <1>1, TypedInit, TypedNext, PTL DEF Spec
=============================================================================
