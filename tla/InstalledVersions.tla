------------------------- MODULE InstalledVersions -------------------------
(***************************************************************************)
(* The installed-versions table of the client's SQL storage and the        *)
(* questions the update logic asks of it.  The table is a sequence of rows *)
(* in the order of their ids; a row is a Target and three flags: it is the *)
(* current Target, it is the pending one, it was installed successfully.   *)
(*                                                                         *)
(* The table itself (INvStorage) and the search for the booted Target      *)
(* (OstreeManager::getCurrent) belong to libaktualizr, which this          *)
(* repository uses and does not contain.  The other operators translate    *)
(* helpers.cc, liteclient.cc and target.cc.                                *)
(***************************************************************************)
EXTENDS Integers, Sequences

CONSTANT NoHash   \* the sha256 of an invalid Target, and of "no deployment"

\* Target names.  A TUF Target is named by its version, a positive number.
InitialName == 0
UnknownName == -1

\* The Target no query finds: Uptane::Target::Unknown(), TufTarget{}.
UnknownTarget == [name |-> UnknownName, hash |-> NoHash, apps |-> {}]

\* The rows for the Targets of a set.
Rows(targets) ==
  [target : targets, cur : BOOLEAN, pend : BOOLEAN, inst : BOOLEAN]

SameTarget(a, b) == a.name = b.name /\ a.hash = b.hash

-----------------------------------------------------------------------------
(* Saving a Target (external: INvStorage::saveInstalledVersion). *)

\* A slip: the row that was current before keeps its flag.
UnflaggedKeepsCurrent(log, mode) ==
  [i \in DOMAIN log |->
     [log[i] EXCEPT !.pend = @ /\ mode \notin {"Current", "Pending"}]]

\* A save as "Current" drops the current and the pending flag of every row, a
\* save as "Pending" the pending flags; the mode "None" leaves the rows alone.
Unflagged(log, mode) ==
  [i \in DOMAIN log |->
     [target |-> log[i].target,
      cur    |-> log[i].cur /\ mode # "Current",
      pend   |-> log[i].pend /\ mode \notin {"Current", "Pending"},
      inst   |-> log[i].inst]]

FlaggedRow(t, mode, wasInstalled) ==
  [target |-> t, cur |-> mode = "Current", pend |-> mode = "Pending",
   inst |-> mode = "Current" \/ wasInstalled]

LastIs(log, t) == log # << >> /\ SameTarget(log[Len(log)].target, t)

\* Only the LAST row is looked at: it is updated when it holds the Target,
\* otherwise a row is added.
SaveInstalledVersion(log, t, mode) ==
  LET last == log[Len(log)]
  IN  IF LastIs(log, t)
      THEN [Unflagged(log, mode) EXCEPT
              ![Len(log)] = FlaggedRow(last.target, mode, last.inst)]
      ELSE Append(Unflagged(log, mode), FlaggedRow(t, mode, FALSE))

\* The mode kBadTarget: no row of the Target counts as installed any more.
SaveBadTarget(log, t) ==
  [i \in DOMAIN log |->
     [target |-> log[i].target, cur |-> log[i].cur, pend |-> log[i].pend,
      inst   |-> log[i].inst /\ ~SameTarget(log[i].target, t)]]

-----------------------------------------------------------------------------
(* Queries. *)

\* The row with the highest id in a set of row ids.
LastRow(ids) == CHOOSE i \in ids : \A j \in ids : j <= i

PendingRows(log)   == {i \in DOMAIN log : log[i].pend}
CurrentRows(log)   == {i \in DOMAIN log : log[i].cur}
InstalledRows(log) == {i \in DOMAIN log : log[i].inst}

\* LiteClient::getPendingTarget, AkliteClient::IsInstallationInProgress.
IsPending(log) == PendingRows(log) # {}
PendingTarget(log) ==
  IF IsPending(log) THEN log[LastRow(PendingRows(log))].target
                    ELSE UnknownTarget

\* OstreeManager::getCurrent: the row flagged current if the device is booted
\* on its hash, else the latest row with the booted hash, else a Target that
\* is known by its hash only.
CurrentTarget(log, booted) ==
  LET current == {i \in CurrentRows(log) : log[i].target.hash = booted}
      booting == {i \in DOMAIN log : log[i].target.hash = booted}
  IN  IF current # {} THEN log[LastRow(current)].target
      ELSE IF booting # {} THEN log[LastRow(booting)].target
      ELSE [UnknownTarget EXCEPT !.hash = booted]

\* The commit recorded as current, whatever is booted.
RecordedHash(log) ==
  IF CurrentRows(log) = {} THEN NoHash
  ELSE log[LastRow(CurrentRows(log))].target.hash

\* A slip: every row counts, as in a load with only_installed = false.
RollbackTargetOfAll(log, allowCurrent) ==
  LET rows == {i \in DOMAIN log : allowCurrent \/ ~log[i].cur}
  IN  IF rows = {} THEN UnknownTarget ELSE log[LastRow(rows)].target

\* LiteClient::getRollbackTarget: the latest successfully installed row.
RollbackTarget(log, allowCurrent) ==
  LET rows == {i \in InstalledRows(log) : allowCurrent \/ ~log[i].cur}
  IN  IF rows = {} THEN UnknownTarget ELSE log[LastRow(rows)].target

\* LiteClient::wasTargetInstalled.
WasTargetInstalled(log, t) ==
  \E i \in InstalledRows(log) : SameTarget(log[i].target, t)

\* get_known_but_not_installed_versions: by name, whatever the hash.
KnownButNotInstalled(log) ==
  {i \in DOMAIN log :
     \A j \in InstalledRows(log) : log[j].target.name # log[i].target.name}

\* LiteClient::isRollback with known_local_target: the Target is a failing
\* one.  A row with the hash of the pending Target does not count.
IsFailing(log, t) ==
  \E i \in KnownButNotInstalled(log) :
     /\ log[i].target.name = t.name
     /\ ~(IsPending(log) /\ log[i].target.hash = PendingTarget(log).hash)

\* Target::toTufTarget: the initial Target has no version number.
Version(t) == IF t.name = InitialName THEN -1 ELSE t.name
=============================================================================
