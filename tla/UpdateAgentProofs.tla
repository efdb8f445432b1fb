-------------------------- MODULE UpdateAgentProofs --------------------------
(***************************************************************************)
(* Type correctness of UpdateAgent and its safety theorems, for every      *)
(* choice of Targets, Apps, settings, commands and bounds.                 *)
(***************************************************************************)
EXTENDS UpdateAgent, SequenceTheorems, WellFoundedInduction, TLAPS

-----------------------------------------------------------------------------
(* The operators of InstalledVersions, for tables of any length over any set *)
(* T of Targets.                                                             *)

\* At most one row is flagged pending and at most one current.
UniqueFlags(tbl) ==
  /\ \A i, j \in PendingRows(tbl) : i = j
  /\ \A i, j \in CurrentRows(tbl) : i = j

\* A non-empty set of row numbers has a last one, the one LastRow chooses.
LEMMA LastRowProperty ==
  ASSUME NEW n \in Nat, NEW ids \in SUBSET (1 .. n), ids # {}
  PROVE  /\ LastRow(ids) \in ids
         /\ \A j \in ids : j <= LastRow(ids)
<1> DEFINE T == {n - i : i \in ids}
<1>1. T \subseteq Nat /\ T # {}
  <2>1. \A i \in ids : i \in Int /\ 1 <= i /\ i <= n
    OBVIOUS
  <2>2. \A i \in ids : n - i \in Nat
    BY <2>1
  <2> QED
    BY Zenon, <2>2
<1>2. PICK x \in T : \A y \in T : ~(<<y, x>> \in OpToRel(<, Nat))
  <2>1. IsWellFoundedOn(OpToRel(<, Nat), Nat)
    BY Zenon, NatLessThanWellFounded
  <2> HIDE DEF T
  <2> QED
    BY Zenon, <1>1, <2>1, WFMin
<1>3. \A y \in T : ~(y < x)
  <2> HIDE DEF T
  <2> QED
    BY Zenon, <1>1, <1>2 DEF OpToRel
<1>4. PICK i \in ids : x = n - i
  BY Zenon
<1>5. \A j \in ids : j <= i
  <2> TAKE j \in ids
  <2>1. n - j \in T
    BY Zenon
  <2>2. ~(n - j < n - i)
    BY Zenon, <1>3, <1>4, <2>1
  <2>3. i \in Int /\ j \in Int
    OBVIOUS
  <2> HIDE DEF T
  <2> QED
    BY <2>2, <2>3
<1> QED
  BY Zenon, <1>5 DEF LastRow

\* Saving a Target keeps the table a sequence of rows.
LEMMA SaveType ==
  ASSUME NEW T, NEW tbl \in Seq(Rows(T)), NEW t \in T, NEW mode
  PROVE  SaveInstalledVersion(tbl, t, mode) \in Seq(Rows(T))
<1>1. DOMAIN tbl = 1 .. Len(tbl) /\ Len(tbl) \in Nat
  BY Zenon, LenProperties
<1>2. \A i \in 1 .. Len(tbl) : tbl[i] \in Rows(T)
  BY Zenon, ElementOfSeq
<1>3. Unflagged(tbl, mode) \in Seq(Rows(T))
  BY <1>1, <1>2 DEF Unflagged, Rows
<1>4. Len(Unflagged(tbl, mode)) = Len(tbl)
  BY <1>1, <1>3, LenProperties DEF Unflagged
<1>5. \A u \in T, w \in BOOLEAN : FlaggedRow(u, mode, w) \in Rows(T)
  BY Zenon DEF FlaggedRow, Rows
<1>6. CASE LastIs(tbl, t)
  <2>1. Len(tbl) \in 1 .. Len(tbl)
    BY <1>1, <1>6, EmptySeq DEF LastIs
  <2>2. tbl[Len(tbl)].target \in T /\ tbl[Len(tbl)].inst \in BOOLEAN
    BY Zenon, <1>2, <2>1 DEF Rows
  <2>3. FlaggedRow(tbl[Len(tbl)].target, mode, tbl[Len(tbl)].inst) \in Rows(T)
    BY Zenon, <1>5, <2>2
  <2> QED
    BY Zenon, <1>3, <1>4, <1>6, <2>1, <2>3, ExceptSeq DEF SaveInstalledVersion
<1>7. CASE ~LastIs(tbl, t)
  <2>1. FlaggedRow(t, mode, FALSE) \in Rows(T)
    BY Zenon, <1>5
  <2> QED
    BY Zenon, <1>3, <1>7, <2>1, AppendProperties DEF SaveInstalledVersion
<1> QED
  BY Zenon, <1>6, <1>7

\* Marking a Target as failing keeps the rows rows.
LEMMA SaveBadType ==
  ASSUME NEW T, NEW tbl \in Seq(Rows(T)), NEW t
  PROVE  SaveBadTarget(tbl, t) \in Seq(Rows(T))
<1>1. DOMAIN tbl = 1 .. Len(tbl) /\ Len(tbl) \in Nat
  BY Zenon, LenProperties
<1>2. \A i \in 1 .. Len(tbl) : tbl[i] \in Rows(T)
  BY Zenon, ElementOfSeq
<1> QED
  BY <1>1, <1>2 DEF SaveBadTarget, Rows

-----------------------------------------------------------------------------
\* A save leaves the flags of every row but the last one alone, or drops them.
LEMMA SaveFlags ==
  ASSUME NEW T, NEW tbl \in Seq(Rows(T)), NEW t \in T, NEW mode,
         NEW new, new = SaveInstalledVersion(tbl, t, mode)
  PROVE  /\ DOMAIN new = 1 .. Len(new) /\ Len(new) \in Nat
         /\ new[Len(new)].pend <=> mode = "Pending"
         /\ new[Len(new)].cur <=> mode = "Current"
         /\ \A i \in DOMAIN new : i # Len(new) =>
              /\ i \in DOMAIN tbl
              /\ new[i].target = tbl[i].target
              /\ new[i].pend <=> tbl[i].pend /\ mode \notin {"Current", "Pending"}
              /\ new[i].cur <=> tbl[i].cur /\ mode # "Current"
<1>1. DOMAIN tbl = 1 .. Len(tbl) /\ Len(tbl) \in Nat
  BY Zenon, LenProperties
<1>2. new \in Seq(Rows(T))
  BY Zenon, SaveType
<1>3. DOMAIN new = 1 .. Len(new) /\ Len(new) \in Nat
  BY Zenon, <1>2, LenProperties
<1> DEFINE old == Unflagged(tbl, mode)
<1>4. /\ DOMAIN old = 1 .. Len(tbl)
      /\ \A i \in 1 .. Len(tbl) :
           /\ old[i].target = tbl[i].target
           /\ old[i].pend <=> tbl[i].pend /\ mode \notin {"Current", "Pending"}
           /\ old[i].cur <=> tbl[i].cur /\ mode # "Current"
  BY Zenon, <1>1 DEF Unflagged
<1>5. old \in Seq(Rows(T)) /\ Len(old) = Len(tbl)
  <2>1. \A i \in 1 .. Len(tbl) : tbl[i] \in Rows(T)
    BY Zenon, ElementOfSeq
  <2>2. old \in Seq(Rows(T))
    BY <1>1, <2>1 DEF Unflagged, Rows
  <2> QED
    BY <1>1, <1>4, <2>2, LenProperties
<1>6. \A u, w : /\ FlaggedRow(u, mode, w).pend <=> mode = "Pending"
                /\ FlaggedRow(u, mode, w).cur <=> mode = "Current"
  BY Zenon DEF FlaggedRow
<1>7. CASE LastIs(tbl, t)
  <2> DEFINE row == FlaggedRow(tbl[Len(tbl)].target, mode, tbl[Len(tbl)].inst)
  <2>1. new = [old EXCEPT ![Len(tbl)] = row]
    BY Zenon, <1>7 DEF SaveInstalledVersion
  <2>2. Len(tbl) \in 1 .. Len(tbl)
    BY <1>1, <1>7, EmptySeq DEF LastIs
  <2>3. row.pend <=> mode = "Pending"
    BY Zenon, <1>6
  <2>4. row.cur <=> mode = "Current"
    BY Zenon, <1>6
  <2> HIDE DEF old, row
  <2>5. DOMAIN new = 1 .. Len(tbl) /\ Len(new) = Len(tbl)
    <3>1. DOMAIN new = 1 .. Len(tbl)
      BY Zenon, <1>4, <2>1
    <3> QED
      BY <1>1, <1>2, <3>1, LenProperties
  <2>6. new[Len(tbl)] = row
    BY Zenon, <1>4, <2>1, <2>2
  <2>7. \A i \in 1 .. Len(tbl) : i # Len(tbl) => new[i] = old[i]
    BY Zenon, <1>4, <2>1
  <2> QED
    BY ZenonT(60), <1>1, <1>3, <1>4, <2>3, <2>4, <2>5, <2>6, <2>7
<1>8. CASE ~LastIs(tbl, t)
  <2> DEFINE row == FlaggedRow(t, mode, FALSE)
  <2>1. new = Append(old, row)
    BY Zenon, <1>8 DEF SaveInstalledVersion
  <2>2. row \in Rows(T)
    BY Zenon DEF FlaggedRow, Rows
  <2>3. row.pend <=> mode = "Pending"
    BY Zenon, <1>6
  <2>4. row.cur <=> mode = "Current"
    BY Zenon, <1>6
  <2> HIDE DEF old, row
  <2>5. /\ Len(new) = Len(tbl) + 1
        /\ new[Len(tbl) + 1] = row
        /\ \A i \in 1 .. Len(tbl) : new[i] = old[i]
    BY <1>5, <2>1, <2>2, AppendProperties
  <2> QED
    BY <1>1, <1>3, <1>4, <2>3, <2>4, <2>5
<1> QED
  BY Zenon, <1>7, <1>8

\* A save makes the Target, or one with its name and hash, the last row and
\* keeps the Targets of all rows.
LEMMA SaveLast ==
  ASSUME NEW T, NEW tbl \in Seq(Rows(T)), NEW t \in T, NEW mode,
         NEW new, new = SaveInstalledVersion(tbl, t, mode)
  PROVE  /\ Len(new) >= 1 /\ new[Len(new)].target.hash = t.hash
         /\ new[Len(new)].target.name = t.name
         /\ \A i \in DOMAIN tbl : i \in DOMAIN new /\ new[i].target = tbl[i].target
<1>1. DOMAIN tbl = 1 .. Len(tbl) /\ Len(tbl) \in Nat
  BY Zenon, LenProperties
<1>2. \A i \in 1 .. Len(tbl) : tbl[i] \in Rows(T)
  BY Zenon, ElementOfSeq
<1>3. new \in Seq(Rows(T))
  BY Zenon, SaveType
<1> DEFINE old == Unflagged(tbl, mode)
<1>4. DOMAIN old = 1 .. Len(tbl) /\ old \in Seq(Rows(T))
  BY <1>1, <1>2 DEF Unflagged, Rows
<1>5. Len(old) = Len(tbl)
  BY <1>1, <1>4, LenProperties
<1>6. \A i \in 1 .. Len(tbl) : old[i].target = tbl[i].target
  BY Zenon, <1>1 DEF Unflagged
<1>7. \A u, w : FlaggedRow(u, mode, w).target = u
  BY Zenon DEF FlaggedRow
<1>8. FlaggedRow(t, mode, FALSE) \in Rows(T)
  BY Zenon DEF FlaggedRow, Rows
<1> HIDE DEF old
<1>9. CASE LastIs(tbl, t)
  <2> DEFINE row == FlaggedRow(tbl[Len(tbl)].target, mode, tbl[Len(tbl)].inst)
  <2>1. new = [old EXCEPT ![Len(tbl)] = row]
    BY Zenon, <1>9 DEF SaveInstalledVersion, old
  <2>2. Len(tbl) \in 1 .. Len(tbl)
    BY <1>1, <1>9, EmptySeq DEF LastIs
  <2>3. /\ row.target = tbl[Len(tbl)].target
        /\ row.target.hash = t.hash /\ row.target.name = t.name
    BY Zenon, <1>7, <1>9 DEF LastIs, SameTarget
  <2> HIDE DEF row
  <2>4. DOMAIN new = 1 .. Len(tbl)
    BY Zenon, <1>4, <2>1
  <2>5. Len(new) = Len(tbl)
    BY <1>1, <1>3, <2>4, LenProperties
  <2>6. /\ new[Len(tbl)] = row
        /\ \A i \in 1 .. Len(tbl) : i # Len(tbl) => new[i] = old[i]
    BY Zenon, <1>4, <2>1, <2>2
  <2>7. new[Len(new)].target.hash = t.hash /\ new[Len(new)].target.name = t.name
    BY Zenon, <2>3, <2>5, <2>6
  <2>9. Len(new) >= 1
    BY <1>1, <2>2, <2>5
  <2>8. \A i \in 1 .. Len(tbl) : new[i].target = tbl[i].target
    <3> TAKE i \in 1 .. Len(tbl)
    <3> QED
      BY Zenon, <1>6, <2>3, <2>6
  <2> QED
    BY Zenon, <1>1, <2>4, <2>7, <2>8, <2>9
<1>10. CASE ~LastIs(tbl, t)
  <2> DEFINE row == FlaggedRow(t, mode, FALSE)
  <2>1. new = Append(old, row)
    BY Zenon, <1>10 DEF SaveInstalledVersion, old
  <2>2. row.target = t /\ row \in Rows(T)
    BY Zenon, <1>7, <1>8
  <2> HIDE DEF row
  <2>3. /\ Len(new) = Len(tbl) + 1 /\ new[Len(tbl) + 1] = row
        /\ \A i \in 1 .. Len(tbl) : new[i] = old[i]
    BY <1>4, <1>5, <2>1, <2>2, AppendProperties
  <2>4. DOMAIN new = 1 .. Len(new)
    BY Zenon, <1>3, LenProperties
  <2> QED
    BY <1>1, <1>6, <2>2, <2>3, <2>4
<1> QED
  BY Zenon, <1>9, <1>10

\* Every save keeps the pending and the current row unique.
LEMMA SaveUnique ==
  ASSUME NEW T, NEW tbl \in Seq(Rows(T)), NEW t \in T, NEW mode,
         UniqueFlags(tbl)
  PROVE  UniqueFlags(SaveInstalledVersion(tbl, t, mode))
<1> DEFINE new == SaveInstalledVersion(tbl, t, mode)
<1>1. /\ new[Len(new)].pend <=> mode = "Pending"
      /\ new[Len(new)].cur <=> mode = "Current"
      /\ \A i \in DOMAIN new : i # Len(new) =>
           /\ i \in DOMAIN tbl
           /\ new[i].pend <=> tbl[i].pend /\ mode \notin {"Current", "Pending"}
           /\ new[i].cur <=> tbl[i].cur /\ mode # "Current"
  BY SaveFlags
<1> HIDE DEF new
<1>2. UniqueFlags(new)
  BY Zenon, <1>1 DEF UniqueFlags, PendingRows, CurrentRows
<1> QED
  BY Zenon, <1>2 DEF new

\* Marking a Target as failing keeps the pending and the current row unique.
LEMMA SaveBadUnique ==
  ASSUME NEW tbl, NEW t, UniqueFlags(tbl)
  PROVE  UniqueFlags(SaveBadTarget(tbl, t))
BY Zenon DEF SaveBadTarget, UniqueFlags, PendingRows, CurrentRows

-----------------------------------------------------------------------------
\* The row LastRow picks from a non-empty set of rows of the table.
LEMMA RowOfTable ==
  ASSUME NEW T, NEW tbl \in Seq(Rows(T)), NEW ids \in SUBSET DOMAIN tbl,
         ids # {}
  PROVE  LastRow(ids) \in ids /\ tbl[LastRow(ids)].target \in T
<1>1. DOMAIN tbl = 1 .. Len(tbl) /\ Len(tbl) \in Nat
  BY Zenon, LenProperties
<1>2. LastRow(ids) \in ids
  <2>1. ids \in SUBSET (1 .. Len(tbl))
    BY Zenon, <1>1
  <2> QED
    BY Zenon, <1>1, <2>1, LastRowProperty
<1>3. tbl[LastRow(ids)] \in Rows(T)
  BY Zenon, <1>1, <1>2, ElementOfSeq
<1> QED
  BY Zenon, <1>2, <1>3 DEF Rows

\* What the queries return is a Target of the table or an unknown one.
LEMMA QueryTypes ==
  ASSUME NEW T, NEW tbl \in Seq(Rows(T)), NEW allow \in BOOLEAN,
         UnknownTarget \in T
  PROVE  PendingTarget(tbl) \in T /\ RollbackTarget(tbl, allow) \in T
<1>1. PendingTarget(tbl) \in T
  BY Zenon, RowOfTable DEF PendingTarget, IsPending, PendingRows
<1>2. RollbackTarget(tbl, allow) \in T
  BY Zenon, RowOfTable DEF RollbackTarget, InstalledRows
<1> QED
  BY Zenon, <1>1, <1>2

\* The current Target is one of a row or known by its hash only.
LEMMA CurrentTargetType ==
  ASSUME NEW T, NEW tbl \in Seq(Rows(T)), NEW commit,
         [UnknownTarget EXCEPT !.hash = commit] \in T
  PROVE  CurrentTarget(tbl, commit) \in T
BY Zenon, RowOfTable DEF CurrentTarget, CurrentRows

\* LiteClient::getRollbackTarget finds an installed Target or none, and an
\* installed Target is not a failing one.
LEMMA RollbackTargetNotFailing ==
  ASSUME NEW T, NEW tbl \in Seq(Rows(T)), NEW allow \in BOOLEAN,
         RollbackTarget(tbl, allow) # UnknownTarget
  PROVE  ~IsFailing(tbl, RollbackTarget(tbl, allow))
<1> DEFINE rows == {i \in InstalledRows(tbl) : allow \/ ~tbl[i].cur}
<1>1. rows # {} /\ RollbackTarget(tbl, allow) = tbl[LastRow(rows)].target
  BY Zenon DEF RollbackTarget
<1>2. LastRow(rows) \in InstalledRows(tbl)
  <2>1. rows \in SUBSET DOMAIN tbl
    BY Zenon DEF InstalledRows
  <2>2. LastRow(rows) \in rows
    <3> HIDE DEF rows
    <3> QED
      BY Zenon, <1>1, <2>1, RowOfTable
  <2> QED
    BY Zenon, <2>2
<1> HIDE DEF rows
<1> QED
  BY Zenon, <1>1, <1>2 DEF IsFailing, KnownButNotInstalled

-----------------------------------------------------------------------------
(* The pending Target. *)

\* With unique flags any pending row is the one the queries find.
LEMMA PendingRow ==
  ASSUME NEW T, NEW tbl \in Seq(Rows(T)), UniqueFlags(tbl),
         NEW i \in PendingRows(tbl)
  PROVE  IsPending(tbl) /\ PendingTarget(tbl) = tbl[i].target
<1>1. PendingRows(tbl) \in SUBSET DOMAIN tbl /\ PendingRows(tbl) # {}
  BY Zenon DEF PendingRows
<1>2. LastRow(PendingRows(tbl)) \in PendingRows(tbl)
  BY Zenon, <1>1, RowOfTable
<1> QED
  BY Zenon, <1>1, <1>2 DEF IsPending, PendingTarget, UniqueFlags

\* A save as the current Target leaves nothing pending.
LEMMA SaveCurrent ==
  ASSUME NEW T, NEW tbl \in Seq(Rows(T)), NEW t \in T
  PROVE  ~IsPending(SaveInstalledVersion(tbl, t, "Current"))
<1> DEFINE new == SaveInstalledVersion(tbl, t, "Current")
<1>1. /\ ~new[Len(new)].pend
      /\ \A i \in DOMAIN new : i # Len(new) => ~new[i].pend
  BY SaveFlags
<1> HIDE DEF new
<1>2. ~IsPending(new)
  BY Zenon, <1>1 DEF IsPending, PendingRows
<1> QED
  BY Zenon, <1>2 DEF new

\* A save as the pending Target makes the last row the pending one.
LEMMA SavePending ==
  ASSUME NEW T, NEW tbl \in Seq(Rows(T)), NEW t \in T, UniqueFlags(tbl),
         NEW new, new = SaveInstalledVersion(tbl, t, "Pending")
  PROVE  /\ PendingTarget(new).hash = t.hash
         /\ new[Len(new)].pend
<1>1. new \in Seq(Rows(T)) /\ UniqueFlags(new)
  BY Zenon, SaveType, SaveUnique
<1>2. DOMAIN new = 1 .. Len(new) /\ Len(new) \in Nat /\ new[Len(new)].pend
  BY SaveFlags
<1>3. Len(new) >= 1 /\ new[Len(new)].target.hash = t.hash
  BY SaveLast
<1>4. Len(new) \in PendingRows(new)
  BY <1>2, <1>3 DEF PendingRows
<1> QED
  BY Zenon, <1>1, <1>2, <1>3, <1>4, PendingRow

\* A save without flags keeps the pending Target or drops it; it drops it when
\* the pending row is the last one and the Target saved is the pending one.
LEMMA SaveNone ==
  ASSUME NEW T, NEW tbl \in Seq(Rows(T)), NEW t \in T, UniqueFlags(tbl),
         NEW new, new = SaveInstalledVersion(tbl, t, "None")
  PROVE  /\ IsPending(new) =>
              IsPending(tbl) /\ PendingTarget(new) = PendingTarget(tbl)
         /\ IsPending(tbl) /\ tbl[Len(tbl)].pend /\ t = PendingTarget(tbl)
              => ~IsPending(new)
<1>1. new \in Seq(Rows(T)) /\ UniqueFlags(new)
  BY Zenon, SaveType, SaveUnique
<1>2. /\ DOMAIN new = 1 .. Len(new) /\ Len(new) \in Nat
      /\ ~new[Len(new)].pend
      /\ \A i \in DOMAIN new : i # Len(new) =>
           /\ i \in DOMAIN tbl /\ new[i].target = tbl[i].target
           /\ new[i].pend <=> tbl[i].pend
  BY SaveFlags
<1>3. DOMAIN tbl = 1 .. Len(tbl) /\ Len(tbl) \in Nat
  BY Zenon, LenProperties
<1>4. \A i \in PendingRows(new) : i # Len(new) /\ i \in PendingRows(tbl)
  BY Zenon, <1>2 DEF PendingRows
<1>5. ASSUME IsPending(new)
      PROVE  IsPending(tbl) /\ PendingTarget(new) = PendingTarget(tbl)
  <2>1. PICK i \in PendingRows(new) : TRUE
    BY Zenon, <1>5 DEF IsPending
  <2>2. i \in PendingRows(tbl) /\ new[i].target = tbl[i].target
    BY Zenon, <1>2, <1>4, <2>1 DEF PendingRows
  <2> QED
    BY Zenon, <1>1, <2>1, <2>2, PendingRow
<1>6. ASSUME IsPending(tbl), tbl[Len(tbl)].pend, t = PendingTarget(tbl)
      PROVE  ~IsPending(new)
  <2>1. tbl # << >>
    BY <1>6 DEF IsPending, PendingRows
  <2>2. Len(tbl) \in PendingRows(tbl)
    BY <1>3, <1>6, <2>1, EmptySeq DEF PendingRows
  <2>3. PendingTarget(tbl) = tbl[Len(tbl)].target
    BY Zenon, <2>2, PendingRow
  <2>4. LastIs(tbl, t)
    BY Zenon, <1>6, <2>1, <2>3 DEF LastIs, SameTarget
  <2>5. DOMAIN new = DOMAIN tbl
    BY Zenon, <2>4 DEF SaveInstalledVersion, Unflagged
  <2>6. Len(new) = Len(tbl)
    BY <1>2, <1>3, <2>5
  <2>7. \A i \in PendingRows(tbl) : i = Len(tbl)
    BY Zenon, <2>2 DEF UniqueFlags
  <2> QED
    BY Zenon, <1>4, <2>6, <2>7 DEF IsPending
<1> QED
  BY Zenon, <1>5, <1>6

\* Marking a Target as failing does not touch the pending one.
LEMMA SaveBadPending ==
  ASSUME NEW T, NEW tbl \in Seq(Rows(T)), NEW t, UniqueFlags(tbl),
         NEW new, new = SaveBadTarget(tbl, t)
  PROVE  /\ IsPending(new) <=> IsPending(tbl)
         /\ IsPending(tbl) => PendingTarget(new) = PendingTarget(tbl)
         /\ IsPending(tbl) => (new[Len(new)].pend <=> tbl[Len(tbl)].pend)
<1>1. new \in Seq(Rows(T)) /\ UniqueFlags(new)
  BY Zenon, SaveBadType, SaveBadUnique
<1>2. DOMAIN new = DOMAIN tbl
  BY Zenon DEF SaveBadTarget
<1>3. \A i \in DOMAIN tbl : /\ new[i].target = tbl[i].target
                            /\ new[i].pend = tbl[i].pend
  BY Zenon DEF SaveBadTarget
<1>4. PendingRows(new) = PendingRows(tbl)
  BY Zenon, <1>2, <1>3 DEF PendingRows
<1>5. IsPending(new) <=> IsPending(tbl)
  BY Zenon, <1>4 DEF IsPending
<1>6. ASSUME IsPending(tbl)
      PROVE  /\ PendingTarget(new) = PendingTarget(tbl)
             /\ new[Len(new)].pend <=> tbl[Len(tbl)].pend
  <2>1. PICK i \in PendingRows(tbl) : i \in DOMAIN tbl
    BY Zenon, <1>6 DEF IsPending, PendingRows
  <2>2. PendingTarget(new) = PendingTarget(tbl)
    BY Zenon, <1>1, <1>3, <1>4, <2>1, PendingRow
  <2>3. /\ DOMAIN tbl = 1 .. Len(tbl) /\ Len(tbl) \in Nat
        /\ DOMAIN new = 1 .. Len(new) /\ Len(new) \in Nat
    BY Zenon, <1>1, LenProperties
  <2>4. Len(new) = Len(tbl) /\ Len(tbl) \in DOMAIN tbl
    BY <1>2, <2>1, <2>3
  <2> QED
    BY Zenon, <1>3, <2>2, <2>4
<1> QED
  BY Zenon, <1>5, <1>6
-----------------------------------------------------------------------------
(* The Target recorded as current. *)

\* The recorded commit is the one of the row flagged as current.
LEMMA RecordedRow ==
  ASSUME NEW T, NEW tbl \in Seq(Rows(T)), UniqueFlags(tbl),
         NEW i \in CurrentRows(tbl)
  PROVE  RecordedHash(tbl) = tbl[i].target.hash
<1>1. CurrentRows(tbl) \in SUBSET DOMAIN tbl /\ CurrentRows(tbl) # {}
  BY Zenon DEF CurrentRows
<1>2. LastRow(CurrentRows(tbl)) \in CurrentRows(tbl)
  BY Zenon, <1>1, RowOfTable
<1> QED
  BY Zenon, <1>1, <1>2 DEF RecordedHash, UniqueFlags

\* A save as the current Target records its hash; another save keeps the
\* recorded one or drops it.
LEMMA SaveRecorded ==
  ASSUME NEW T, NEW tbl \in Seq(Rows(T)), NEW t \in T, NEW mode,
         UniqueFlags(tbl), NEW new, new = SaveInstalledVersion(tbl, t, mode)
  PROVE  /\ mode = "Current" => RecordedHash(new) = t.hash
         /\ mode # "Current" => RecordedHash(new) \in {RecordedHash(tbl), NoHash}
<1>1. new \in Seq(Rows(T)) /\ UniqueFlags(new)
  BY Zenon, SaveType, SaveUnique
<1>2. /\ DOMAIN new = 1 .. Len(new) /\ Len(new) \in Nat
      /\ new[Len(new)].cur <=> mode = "Current"
      /\ \A i \in DOMAIN new : i # Len(new) =>
           /\ i \in DOMAIN tbl
           /\ new[i].target = tbl[i].target
           /\ new[i].cur <=> tbl[i].cur /\ mode # "Current"
  BY SaveFlags
<1>3. Len(new) >= 1 /\ new[Len(new)].target.hash = t.hash
  BY SaveLast
<1>4. ASSUME mode = "Current" PROVE RecordedHash(new) = t.hash
  <2>1. Len(new) \in CurrentRows(new)
    BY <1>2, <1>3, <1>4 DEF CurrentRows
  <2> QED
    BY Zenon, <1>1, <1>3, <2>1, RecordedRow
<1>5. ASSUME mode # "Current", CurrentRows(new) # {}
      PROVE  RecordedHash(new) = RecordedHash(tbl)
  <2>1. PICK i \in CurrentRows(new) : i \in DOMAIN new
    BY Zenon, <1>5 DEF CurrentRows
  <2>2. i \in CurrentRows(tbl) /\ new[i].target = tbl[i].target
    BY Zenon, <1>2, <1>5, <2>1 DEF CurrentRows
  <2> QED
    BY Zenon, <1>1, <2>1, <2>2, RecordedRow
<1> QED
  BY Zenon, <1>4, <1>5 DEF RecordedHash

\* Marking a Target as failing keeps the recorded commit.
LEMMA SaveBadRecorded ==
  ASSUME NEW T, NEW tbl \in Seq(Rows(T)), NEW t
  PROVE  RecordedHash(SaveBadTarget(tbl, t)) = RecordedHash(tbl)
<1> DEFINE new == SaveBadTarget(tbl, t)
<1>1. DOMAIN new = DOMAIN tbl
  BY Zenon DEF SaveBadTarget
<1>2. \A i \in DOMAIN tbl : new[i].target = tbl[i].target /\ new[i].cur = tbl[i].cur
  BY Zenon DEF SaveBadTarget
<1> HIDE DEF new
<1>3. CurrentRows(new) = CurrentRows(tbl)
  BY Zenon, <1>1, <1>2 DEF CurrentRows
<1>4. CurrentRows(tbl) # {} => LastRow(CurrentRows(tbl)) \in DOMAIN tbl
  <2>1. CurrentRows(tbl) \in SUBSET DOMAIN tbl
    BY Zenon DEF CurrentRows
  <2> QED
    BY Zenon, <2>1, RowOfTable
<1> QED
  BY Zenon, <1>2, <1>3, <1>4 DEF RecordedHash, new

\* The row flagged as current, if its commit is the booted one, is the current
\* Target.
LEMMA RecordedIsCurrent ==
  ASSUME NEW T, NEW tbl \in Seq(Rows(T)), UniqueFlags(tbl), NEW commit,
         NEW i \in CurrentRows(tbl), tbl[i].target.hash = commit
  PROVE  CurrentTarget(tbl, commit) = tbl[i].target
<1> DEFINE current == {j \in CurrentRows(tbl) : tbl[j].target.hash = commit}
<1>1. current \in SUBSET DOMAIN tbl /\ current # {}
  BY Zenon DEF CurrentRows
<1>2. CurrentTarget(tbl, commit) = tbl[LastRow(current)].target
  BY Zenon, <1>1 DEF CurrentTarget
<1>3. current \subseteq CurrentRows(tbl)
  BY Zenon
<1> HIDE DEF current
<1>4. LastRow(current) \in current
  BY Zenon, <1>1, RowOfTable
<1> QED
  BY Zenon, <1>2, <1>3, <1>4 DEF UniqueFlags

\* A save as current of a Target with the booted commit makes it the current
\* one; another save that keeps the booted commit recorded keeps the current
\* Target.
LEMMA SaveSetsCurrent ==
  ASSUME NEW T, NEW tbl \in Seq(Rows(T)), NEW t \in T, NEW mode, NEW commit,
         UniqueFlags(tbl), NEW new, new = SaveInstalledVersion(tbl, t, mode),
         commit # NoHash
  PROVE  /\ mode = "Current" /\ t.hash = commit
              => CurrentTarget(new, commit).name = t.name
         /\ mode # "Current" /\ RecordedHash(new) = commit
              => /\ RecordedHash(tbl) = commit
                 /\ CurrentTarget(new, commit) = CurrentTarget(tbl, commit)
<1>1. new \in Seq(Rows(T)) /\ UniqueFlags(new)
  BY Zenon, SaveType, SaveUnique
<1>2. /\ DOMAIN new = 1 .. Len(new) /\ Len(new) \in Nat
      /\ new[Len(new)].cur <=> mode = "Current"
      /\ \A i \in DOMAIN new : i # Len(new) =>
           /\ i \in DOMAIN tbl
           /\ new[i].target = tbl[i].target
           /\ new[i].cur <=> tbl[i].cur /\ mode # "Current"
  BY SaveFlags
<1>3. /\ Len(new) >= 1 /\ new[Len(new)].target.hash = t.hash
      /\ new[Len(new)].target.name = t.name
  BY SaveLast
<1>4. ASSUME mode = "Current", t.hash = commit
      PROVE  CurrentTarget(new, commit).name = t.name
  <2>1. Len(new) \in CurrentRows(new)
    BY <1>2, <1>3, <1>4 DEF CurrentRows
  <2>2. CurrentTarget(new, commit) = new[Len(new)].target
    BY Zenon, <1>1, <1>3, <1>4, <2>1, RecordedIsCurrent
  <2> QED
    BY Zenon, <1>3, <2>2
<1>5. ASSUME mode # "Current", RecordedHash(new) = commit
      PROVE  /\ RecordedHash(tbl) = commit
             /\ CurrentTarget(new, commit) = CurrentTarget(tbl, commit)
  <2>1. PICK i \in CurrentRows(new) : i \in DOMAIN new
    BY Zenon, <1>5 DEF CurrentRows, RecordedHash
  <2>2. i \in CurrentRows(tbl) /\ new[i].target = tbl[i].target
    BY Zenon, <1>2, <1>5, <2>1 DEF CurrentRows
  <2>3. RecordedHash(new) = new[i].target.hash
    BY Zenon, <1>1, <2>1, RecordedRow
  <2>4. RecordedHash(tbl) = tbl[i].target.hash
    BY Zenon, <2>2, RecordedRow
  <2>5. CurrentTarget(new, commit) = new[i].target
    BY Zenon, <1>1, <1>5, <2>1, <2>3, RecordedIsCurrent
  <2>6. CurrentTarget(tbl, commit) = tbl[i].target
    BY Zenon, <1>5, <2>2, <2>3, RecordedIsCurrent
  <2> QED
    BY Zenon, <1>5, <2>2, <2>3, <2>4, <2>5, <2>6
<1> QED
  BY Zenon, <1>4, <1>5

-----------------------------------------------------------------------------
(* Types of the operators. *)

\* The bounds of an instance are natural numbers.
LEMMA BoundTypes ==
  /\ MaxVersion \in Nat /\ MaxVersion >= 1
  /\ MaxFailures \in Nat /\ MaxCrashes \in Nat
  /\ MaxPublish \in Nat /\ MaxCommands \in Nat
BY ConstantsAssumption

\* The Targets of the metadata, and the ones that stand for none, are Targets.
LEMMA TargetTypes ==
  /\ UnknownTarget \in Target
  /\ \A h \in Hash : [UnknownTarget EXCEPT !.hash = h] \in Target
  /\ \A v \in 1 .. MaxVersion : TufTarget(v) \in Target
  /\ \A latest \in 0 .. MaxVersion, v \in Int : SelectTarget(latest, v) \in Target
<1>1. MaxVersion \in Nat /\ MaxVersion >= 1
  BY Zenon, BoundTypes
<1>2. UnknownTarget \in Target
  BY <1>1 DEF UnknownTarget, Target, UnknownName
<1>3. \A h \in Hash : [UnknownTarget EXCEPT !.hash = h] \in Target
  BY <1>1 DEF UnknownTarget, Target, UnknownName
<1>4. \A v \in 1 .. MaxVersion : TufTarget(v) \in Target
  BY <1>1, ConstantsAssumption DEF TufTarget, Target, UnknownName
<1>5. ASSUME NEW latest \in 0 .. MaxVersion, NEW v \in Int
      PROVE  SelectTarget(latest, v) \in Target
  <2>1. latest > 0 => latest \in 1 .. MaxVersion
    BY <1>1
  <2>2. v \in 1 .. latest => v \in 1 .. MaxVersion
    BY <1>1
  <2> QED
    BY Zenon, <1>2, <1>4, <2>1, <2>2 DEF SelectTarget
<1> QED
  BY Zenon, <1>2, <1>3, <1>4, <1>5

\* A job is built from Targets.
LEMMA JobTypes ==
  /\ NoJob \in Job
  /\ \A p \in {"update", "revert", "complete"}, t, q \in Target,
        m \in {"All", "OstreeOnly"}, a, b \in BOOLEAN :
       [phase |-> p, tgt |-> t, prev |-> q, mode |-> m, pull |-> a, inst |-> b]
         \in Job
  /\ \A t \in Target, b \in BOOLEAN, p \in {"update", "revert", "complete"} :
       /\ [NoJob EXCEPT !.tgt = t] \in Job
       /\ [NoJob EXCEPT !.tgt = t, !.pull = b] \in Job
       /\ [NoJob EXCEPT !.phase = p, !.tgt = t] \in Job
  /\ \A j \in Job : /\ j.tgt \in Target /\ j.prev \in Target
                    /\ j.phase \in {"update", "revert", "complete"}
                    /\ j.mode \in {"All", "OstreeOnly"}
                    /\ j.pull \in BOOLEAN /\ j.inst \in BOOLEAN
  /\ \A j \in Job, t \in Target :
       [j EXCEPT !.phase = "revert", !.tgt = t, !.mode = "All"] \in Job
<1>1. UnknownTarget \in Target
  BY Zenon, TargetTypes
<1>2. NoJob \in Job
  BY Zenon, <1>1 DEF NoJob, Job
<1>3. \A p \in {"update", "revert", "complete"}, t, q \in Target,
         m \in {"All", "OstreeOnly"}, a, b \in BOOLEAN :
        [phase |-> p, tgt |-> t, prev |-> q, mode |-> m, pull |-> a, inst |-> b]
          \in Job
  BY Zenon DEF Job
<1>4. \A t \in Target, b \in BOOLEAN, p \in {"update", "revert", "complete"} :
        /\ [NoJob EXCEPT !.tgt = t] \in Job
        /\ [NoJob EXCEPT !.tgt = t, !.pull = b] \in Job
        /\ [NoJob EXCEPT !.phase = p, !.tgt = t] \in Job
  BY Zenon, <1>2 DEF Job
<1>5. \A j \in Job : /\ j.tgt \in Target /\ j.prev \in Target
                     /\ j.phase \in {"update", "revert", "complete"}
                     /\ j.mode \in {"All", "OstreeOnly"}
                     /\ j.pull \in BOOLEAN /\ j.inst \in BOOLEAN
  BY Zenon DEF Job
<1>6. \A j \in Job, t \in Target :
        [j EXCEPT !.phase = "revert", !.tgt = t, !.mode = "All"] \in Job
  BY Zenon DEF Job
<1> QED
  BY Zenon, <1>2, <1>3, <1>4, <1>5, <1>6

\* The fields of a Target.
LEMMA TargetFields ==
  ASSUME NEW t \in Target
  PROVE  /\ t.name \in UnknownName .. MaxVersion /\ t.name \in Int
         /\ t.hash \in Hash \cup {NoHash}
         /\ t.apps \in SUBSET Uri
         /\ Version(t) \in Int
BY BoundTypes DEF Target, Version, UnknownName

\* The current Target is the one that is booted, so it is never unknown.
LEMMA CurrentTargetFacts ==
  ASSUME TypeOK
  PROVE  /\ CurrentTarget(log, booted) \in Target
         /\ CurrentTarget(log, booted).hash = booted
         /\ CurrentTarget(log, booted) # UnknownTarget
<1>1. log \in Seq(Rows(Target)) /\ booted \in Hash
  BY Zenon DEF TypeOK
<1>2. CurrentTarget(log, booted) \in Target
  BY ZenonT(60), <1>1, TargetTypes, CurrentTargetType
<1>3. CurrentTarget(log, booted).hash = booted
  <2> DEFINE current == {i \in CurrentRows(log) : log[i].target.hash = booted}
             booting == {i \in DOMAIN log : log[i].target.hash = booted}
  <2>1. /\ current \in SUBSET DOMAIN log
        /\ booting \in SUBSET DOMAIN log
    BY Zenon DEF CurrentRows
  <2>2. current # {} => LastRow(current) \in current
    <3> HIDE DEF current
    <3> QED
      BY Zenon, <1>1, <2>1, RowOfTable
  <2>3. booting # {} => LastRow(booting) \in booting
    <3> HIDE DEF booting
    <3> QED
      BY Zenon, <1>1, <2>1, RowOfTable
  <2>4. [UnknownTarget EXCEPT !.hash = booted].hash = booted
    BY Zenon DEF UnknownTarget
  <2> QED
    BY Zenon, <2>2, <2>3, <2>4 DEF CurrentTarget
<1>4. UnknownTarget.hash = NoHash
  BY Zenon DEF UnknownTarget
<1> QED
  BY Zenon, <1>1, <1>2, <1>3, <1>4, ConstantsAssumption

\* What the table is asked for is a Target.
LEMMA QueryFacts ==
  ASSUME TypeOK
  PROVE  /\ PendingTarget(log) \in Target
         /\ \A allow \in BOOLEAN : RollbackTarget(log, allow) \in Target
BY Zenon, QueryTypes, TargetTypes DEF TypeOK

\* The Apps to update are Apps.
LEMMA AppTypes ==
  ASSUME TypeOK, NEW t \in Target, NEW force
  PROVE  AppsToUpdate(t, force) \in SUBSET Uri
BY Zenon, TargetFields DEF AppsToUpdate

\* LiteInstall::Install returns one of the results.
LEMMA InstallStatusType ==
  InstallStatus \in Results
BY Zenon DEF InstallStatus, Results

\* GetTargetToInstall finds a Target to install or says why there is none.
LEMMA ChoiceType ==
  ASSUME TypeOK, NEW latest \in 0 .. MaxVersion,
         NEW v \in {-1} \cup 1 .. MaxVersion,
         NEW allowBad \in BOOLEAN, NEW forceSync \in BOOLEAN,
         NEW force \in BOOLEAN, NEW choice,
         choice = GetTargetToInstall(latest, v, allowBad, forceSync, force)
  PROVE  /\ choice.tgt \in Target /\ choice.check \in Target
         /\ choice.tgt = UnknownTarget =>
              choice.status \in Results \ {"BadRollbackTarget"}
<1> DEFINE current   == CurrentTarget(log, booted)
           newest    == SelectTarget(latest, v)
           rollback  == IsFailing(log, current) /\ current.name = newest.name
           candidate == IF rollback THEN RollbackTarget(log, TRUE) ELSE newest
           byVersion == SelectTarget(latest, Version(current))
           active    == IF byVersion = UnknownTarget THEN current ELSE byVersion
<1>1. current \in Target /\ current # UnknownTarget
  BY Zenon, CurrentTargetFacts
<1>2. newest \in Target /\ byVersion \in Target
  <2>1. v \in Int /\ Version(current) \in Int
    BY <1>1, TargetFields, BoundTypes
  <2> QED
    BY Zenon, <2>1, TargetTypes
<1>3. candidate \in Target /\ active \in Target /\ active # UnknownTarget
  BY Zenon, <1>1, <1>2, QueryFacts
<1>4. rollback /\ candidate # UnknownTarget => ~IsFailing(log, candidate)
  BY ZenonT(60), RollbackTargetNotFailing DEF TypeOK
<1>5. UnknownTarget \in Target
  BY Zenon, TargetTypes
<1>6. \A s, t, c : /\ Choice(s, t, c).status = s
                   /\ Choice(s, t, c).tgt = t
                   /\ Choice(s, t, c).check = c
  BY Zenon DEF Choice
<1>7. \/ choice = Choice("TufTargetNotFound", UnknownTarget, UnknownTarget)
      \/ choice = Choice("NoUpdate", UnknownTarget, UnknownTarget)
      \/ choice = Choice("RollbackTargetNotFound", UnknownTarget, UnknownTarget)
      \/ /\ candidate # UnknownTarget
         /\ \E s : choice = Choice(s, candidate, candidate)
      \/ choice = Choice("UpdateSyncApps", active, current)
      \/ choice = Choice("NoUpdate", UnknownTarget, current)
  <2>1. rollback \/ candidate = newest
    BY ZenonT(60)
  <2> QED
    BY Zenon, <1>4, <2>1 DEF GetTargetToInstall
<1>8. \A s \in {"TufTargetNotFound", "NoUpdate", "RollbackTargetNotFound"} :
        s \in Results \ {"BadRollbackTarget"}
  BY Zenon DEF Results
<1> HIDE DEF current, candidate, active
<1> QED
  BY <1>1, <1>3, <1>5, <1>6, <1>7, <1>8

-----------------------------------------------------------------------------
(* Type correctness. *)

\* The parts of TypeOK that the operators shared by several actions set.
ProcTypeOK == pc \in Pcs /\ job \in Job /\ rc \in Codes /\ result \in Results

AppsTypeOK ==
  /\ store \in SUBSET Uri /\ installed \in SUBSET Uri /\ running \in SUBSET Uri
  /\ todo \in SUBSET Uri /\ cleanup \in BOOLEAN

\* The process variables after a return to the caller.
LEMMA ReturnType ==
  ASSUME NEW r \in Results, Return(r)
  PROVE  ProcTypeOK'
BY Zenon, JobTypes DEF Return, ProcTypeOK, Pcs, Codes

\* The process variables after the start of PullAndInstall.
LEMMA PullAndInstallType ==
  ASSUME TypeOK, NEW t \in Target, NEW latest, NEW requireInTuf,
         NEW mode \in {"All", "OstreeOnly"},
         NEW pull \in BOOLEAN, NEW inst \in BOOLEAN,
         PullAndInstall(t, latest, mode, pull, inst, requireInTuf)
  PROVE  ProcTypeOK'
<1>1. CASE Return("InstallationInProgress") \/ Return("UnknownError")
  BY Zenon, <1>1, ReturnType DEF Results
<1>2. CASE ~(Return("InstallationInProgress") \/ Return("UnknownError"))
  <2>1. CurrentTarget(log, booted) \in Target
    BY Zenon, CurrentTargetFacts
  <2>2. [phase |-> "update", tgt |-> t, prev |-> CurrentTarget(log, booted),
         mode |-> mode, pull |-> pull, inst |-> inst] \in Job
    BY Zenon, <2>1 DEF Job
  <2> QED
    BY Zenon, <1>2, <2>2 DEF PullAndInstall, ProcTypeOK, Pcs, Codes, Results
<1> QED
  BY Zenon, <1>1, <1>2

\* The removal of Apps leaves sets of Apps.
LEMMA HandleRemovedType ==
  ASSUME TypeOK, NEW t, HandleRemovedApps(t)
  PROVE  /\ store' \in SUBSET Uri /\ installed' \in SUBSET Uri
         /\ running' \in SUBSET Uri
BY Zenon DEF HandleRemovedApps, Pruned, TypeOK

\* checkAndSetAppsForUpdate leaves sets of Apps.
LEMMA CheckAndSetType ==
  ASSUME TypeOK, NEW t \in Target, NEW force, CheckAndSetApps(t, force)
  PROVE  AppsTypeOK'
<1>1. AppsToUpdate(t, force) \in SUBSET Uri
  BY Zenon, AppTypes
<1>2. CASE HandleRemovedApps(CurrentTarget(log, booted))
  BY Zenon, <1>1, <1>2, HandleRemovedType DEF CheckAndSetApps, AppsTypeOK
<1>3. CASE UNCHANGED apps
  BY ZenonT(60), <1>1, <1>3 DEF CheckAndSetApps, AppsTypeOK, apps, TypeOK
<1> QED
  BY Zenon, <1>2, <1>3 DEF CheckAndSetApps

\* Starting, creating or failing to start an App leaves sets of Apps.
LEMMA AppStepTypes ==
  ASSUME TypeOK, NEW u \in Uri, NEW code
  PROVE  /\ RunApp(u) => installed' \in SUBSET Uri /\ running' \in SUBSET Uri
         /\ CreateApp(u) => installed' \in SUBSET Uri /\ running' \in SUBSET Uri
         /\ FailApp(u, code) => installed' \in SUBSET Uri /\ running' \in SUBSET Uri
BY Zenon DEF TypeOK, RunApp, CreateApp, FailApp, WithProject, Named

\* What LiteInstall::Install returns to: the caller, or a revert.
LEMMA InstallReturnsType ==
  ASSUME TypeOK, NEW status \in Results, InstallReturns(status)
  PROVE  ProcTypeOK' /\ AppsTypeOK'
<1>1. job \in Job
  BY Zenon DEF TypeOK
<1>2. CASE job.phase = "update" /\ status = "Failed"
  <2>1. Revert
    BY Zenon, <1>2 DEF InstallReturns
  <2>2. CASE ~InstallerFinds(job.prev, tuf, FALSE)
    <3>1. Return("InstallRollbackFailed") /\ UNCHANGED <<todo, cleanup, apps>>
      BY Zenon, <2>1, <2>2 DEF Revert
    <3> QED
      BY Zenon, <3>1, ReturnType DEF Results, AppsTypeOK, TypeOK, apps
  <2>3. CASE InstallerFinds(job.prev, tuf, FALSE)
    <3>1. CheckAndSetApps(job.prev, ForcesUpdate)
      BY Zenon, <2>1, <2>3 DEF Revert
    <3>2. AppsTypeOK'
      BY Zenon, <1>1, <3>1, CheckAndSetType, JobTypes
    <3>3. /\ pc' = "install" /\ rc' = "Ok" /\ result' = result
          /\ job' = [job EXCEPT !.phase = "revert", !.tgt = job.prev, !.mode = "All"]
      BY Zenon, <2>1, <2>3 DEF Revert
    <3>4. job' \in Job
      BY Zenon, <1>1, <3>3, JobTypes
    <3>5. ProcTypeOK'
      BY Zenon, <3>3, <3>4 DEF ProcTypeOK, Pcs, Codes, TypeOK
    <3> QED
      BY Zenon, <3>2, <3>5
  <2> QED
    BY Zenon, <2>2, <2>3
<1>3. CASE ~(job.phase = "update" /\ status = "Failed")
  <2>1. PICK r \in Results : Return(r)
    BY Zenon, <1>3 DEF InstallReturns, Results
  <2>2. UNCHANGED <<todo, cleanup, apps>>
    BY Zenon, <1>3 DEF InstallReturns
  <2> QED
    BY Zenon, <2>1, <2>2, ReturnType DEF AppsTypeOK, TypeOK, apps
<1> QED
  BY Zenon, <1>2, <1>3

\* A failure is counted.
LEMMA FaultType ==
  ASSUME TypeOK, NEW kind, Fault(kind)
  PROVE  failures' \in [AllFailures -> Nat]
<1>1. failures \in [AllFailures -> Nat]
  BY Zenon DEF TypeOK
<1>2. kind \in AllFailures /\ failures' = [failures EXCEPT ![kind] = @ + 1]
  BY Zenon, ConstantsAssumption DEF Fault
<1> QED
  BY <1>1, <1>2

\* A boot keeps the types of what it changes.
LEMMA BootTypes ==
  ASSUME TypeOK, Boot
  PROVE  /\ booted' \in Hash /\ staged' \in Hash \cup {NoHash}
         /\ fellBack' \in BOOLEAN /\ needReboot' \in BOOLEAN
         /\ failures' \in [AllFailures -> Nat]
<1>1. failures' \in [AllFailures -> Nat]
  BY Zenon, FaultType DEF TypeOK, Boot
<1> QED
  BY Zenon, <1>1 DEF TypeOK, Boot

\* The process variables after the end of a process.
LEMMA ProcessGoneType ==
  ASSUME ProcessGone
  PROVE  /\ ProcTypeOK' /\ session' = "daemon" /\ todo' = {}
         /\ cleanup' = TRUE /\ rebootReq' = FALSE
BY Zenon, JobTypes DEF ProcessGone, ProcTypeOK, Pcs, Codes, Results

\* The initial Target is a Target.
LEMMA InitialTargetType ==
  ASSUME TypeOK
  PROVE  InitialTarget \in Target
<1>1. InitialName \in UnknownName .. MaxVersion
  BY BoundTypes DEF InitialName, UnknownName
<1>2. booted \in Hash /\ installed \cap store \in SUBSET Uri
  BY Zenon DEF TypeOK
<1> QED
  BY Zenon, <1>1, <1>2 DEF InitialTarget, Target

\* The variables after the start of a process.
LEMMA StartProcessType ==
  ASSUME TypeOK, NEW s \in {"daemon"} \cup AllCommands, StartProcess(s)
  PROVE  /\ ProcTypeOK' /\ log' \in Seq(Rows(Target))
         /\ session' \in {"daemon"} \cup AllCommands /\ todo' \in SUBSET Uri
         /\ rebootReq' \in BOOLEAN /\ cleanup' \in BOOLEAN
<1>1. InitialTarget \in Target
  BY Zenon, InitialTargetType
<1>2. SaveInstalledVersion(log, InitialTarget, "Current") \in Seq(Rows(Target))
  BY ZenonT(30), <1>1, SaveType DEF TypeOK
<1>3. log' \in Seq(Rows(Target))
  BY Zenon, <1>2 DEF StartProcess, TypeOK
<1>4. ProcTypeOK'
  BY ZenonT(60), JobTypes DEF StartProcess, ProcTypeOK, Pcs, Codes, Results
<1> QED
  BY ZenonT(60), <1>3, <1>4 DEF StartProcess

\* TypeOK is inductive.
LEMMA TypeOKStep ==
  ASSUME TypeOK, [Next]_vars
  PROVE  TypeOK'
<1>job. job \in Job /\ job.tgt \in Target /\ job.prev \in Target
  BY Zenon, JobTypes DEF TypeOK
<1>cur. CurrentTarget(log, booted) \in Target
  BY Zenon, CurrentTargetFacts
<1>pend. PendingTarget(log) \in Target
  BY Zenon, QueryFacts
<1>name. \A t \in Target : t.name \in UnknownName .. MaxVersion
  BY Zenon, TargetFields
<1>apps. \A t \in Target : t.apps \in SUBSET Uri
  BY Zenon, TargetFields
<1>save. \A t \in Target, mode \in {"None", "Pending", "Current"} :
           SaveInstalledVersion(log, t, mode) \in Seq(Rows(Target))
  BY Zenon, SaveType DEF TypeOK
<1>1. CASE StartDaemon
  BY ZenonT(60), <1>1, StartProcessType
  DEF StartDaemon, StartProcess, TypeOK, ProcTypeOK, apps, bounds
<1>2. CASE FinalizeNotBooted
  BY ZenonT(30), <1>2, <1>cur, <1>name
  DEF FinalizeNotBooted, TypeOK, Pcs, Results, disk, apps, bounds
<1>3. CASE FinalizeRolledBack
  BY ZenonT(60), <1>3, <1>pend, JobTypes
  DEF FinalizeRolledBack, TypeOK, Pcs, Codes, disk, apps, bounds
<1>4. CASE FinalizeBooted
  BY ZenonT(60), <1>4, <1>pend, <1>apps, JobTypes
  DEF FinalizeBooted, TypeOK, Pcs, Codes, disk, bounds
<1>5. CASE FinalizeApp
  BY ZenonT(30), <1>5, AppStepTypes DEF FinalizeApp, TypeOK, disk, bounds
<1>6. CASE FinalizeAppFails
  <2>1. failures' \in [AllFailures -> Nat]
    BY ZenonT(30), <1>6, FaultType DEF FinalizeAppFails, TypeOK
  <2>2. rc' \in Codes /\ installed' \in SUBSET Uri /\ running' \in SUBSET Uri
    BY ZenonT(30), <1>6, AppStepTypes DEF FinalizeAppFails, TypeOK, Codes
  <2> QED
    BY ZenonT(30), <1>6, <2>1, <2>2 DEF FinalizeAppFails, TypeOK, Pcs, disk
<1>7. CASE FinalizeAppsDone
  BY ZenonT(30), <1>7, HandleRemovedType DEF FinalizeAppsDone, TypeOK, Pcs, disk, bounds
<1>8. CASE FinalizeSave
  <2>1. log' \in Seq(Rows(Target))
    BY ZenonT(30), <1>8, <1>job, <1>save DEF FinalizeSave, FinalizedLog, TypeOK
  <2> QED
    BY ZenonT(30), <1>8, <2>1 DEF FinalizeSave, TypeOK, Pcs, apps, bounds
<1>9. CASE FinalizeEnd
  <2>1. curFile' \in UnknownName .. MaxVersion
    BY Zenon, <1>9, <1>cur, <1>name DEF FinalizeEnd, FinalizedFile
  <2>2. ProcTypeOK' /\ AppsTypeOK'
    <3>1. CASE session = "daemon" \/ rc = "Ok"
      BY ZenonT(30), <1>9, <3>1, ReturnType
      DEF FinalizeEnd, Results, AppsTypeOK, TypeOK, apps
    <3>2. ASSUME NEW t \in Target, CompleteWith(t)
          PROVE  ProcTypeOK'
      BY ZenonT(60), <3>2, JobTypes DEF CompleteWith, ProcTypeOK, Pcs, Codes, TypeOK
    <3>3. CASE SyncAfterBootRollback
      BY ZenonT(60), <1>cur, <3>2, <3>3, CheckAndSetType, ReturnType
      DEF SyncAfterBootRollback, Results
    <3>4. CASE RollbackAfterAppFailure
      <4>1. RollbackTarget(log, TRUE) \in Target
        BY ZenonT(60), QueryFacts
      <4> QED
        BY ZenonT(60), <3>2, <3>4, <4>1, CheckAndSetType, ReturnType
        DEF RollbackAfterAppFailure, Results, AppsTypeOK, TypeOK, apps
    <3> QED
      BY ZenonT(30), <1>9, <3>1, <3>3, <3>4 DEF FinalizeEnd
  <2> QED
    BY ZenonT(30), <1>9, <2>1, <2>2
    DEF FinalizeEnd, ProcTypeOK, AppsTypeOK, TypeOK, disk, bounds
<1>10. CASE DaemonCycle
  <2> DEFINE choice == GetTargetToInstall(published, -1, FALSE, FALSE, FALSE)
  <2>1. /\ choice.tgt \in Target /\ choice.check \in Target
        /\ choice.tgt = UnknownTarget => choice.status \in Results
    BY Zenon, ChoiceType DEF TypeOK
  <2>2. AppsTypeOK'
    BY ZenonT(60), <1>10, <2>1, CheckAndSetType DEF DaemonCycle, AppsTypeOK, TypeOK, apps
  <2>3. ProcTypeOK'
    <3>1. CASE choice.tgt = UnknownTarget
      BY Zenon, <1>10, <2>1, <3>1, ReturnType DEF DaemonCycle
    <3>2. CASE choice.tgt # UnknownTarget
      <4>1. PullAndInstall(choice.tgt, published, "All", TRUE, TRUE,
                           choice.status = "UpdateNewVersion")
        BY ZenonT(60), <1>10, <3>2 DEF DaemonCycle
      <4> HIDE DEF choice
      <4> QED
        BY Zenon, <2>1, <4>1, PullAndInstallType
    <3> QED
      BY Zenon, <3>1, <3>2
  <2> QED
    BY ZenonT(30), <1>10, <2>2, <2>3
    DEF DaemonCycle, ProcTypeOK, AppsTypeOK, TypeOK, disk, bounds
<1>11. CASE UpdateCommand
  <2>1. PICK v \in {-1} \cup 1 .. MaxVersion, mode \in {"All", "OstreeOnly"} :
          LET choice == GetTargetToInstall(tuf', v, TRUE, TRUE, TRUE)
          IN  IF IsPending(log)
                THEN /\ Return("InstallationInProgress")
                     /\ UNCHANGED <<todo, cleanup, apps>>
                ELSE /\ session = "pull" => mode = "All"
                     /\ IF choice.check = UnknownTarget
                          THEN UNCHANGED <<todo, cleanup, apps>>
                          ELSE CheckAndSetApps(choice.check, TRUE)
                     /\ IF choice.tgt = UnknownTarget
                          THEN Return(choice.status)
                          ELSE PullAndInstall(choice.tgt, tuf', mode,
                                 session # "install", session # "pull",
                                 choice.status = "UpdateNewVersion")
    BY ZenonT(60), <1>11 DEF UpdateCommand
  <2>2. tuf' \in 0 .. MaxVersion
    BY Zenon, <1>11 DEF UpdateCommand, TypeOK
  <2> DEFINE choice == GetTargetToInstall(tuf', v, TRUE, TRUE, TRUE)
  <2>3. /\ choice.tgt \in Target /\ choice.check \in Target
        /\ choice.tgt = UnknownTarget => choice.status \in Results
    BY ZenonT(60), <2>2, ChoiceType
  <2>4. AppsTypeOK' /\ ProcTypeOK'
    <3>1. CASE IsPending(log)
      BY ZenonT(30), <2>1, <3>1, ReturnType DEF Results, AppsTypeOK, TypeOK, apps
    <3>2. CASE ~IsPending(log)
      <4> HIDE DEF choice
      <4>1. AppsTypeOK'
        BY ZenonT(60), <2>1, <2>3, <3>2, CheckAndSetType
        DEF choice, AppsTypeOK, TypeOK, apps
      <4>2. CASE choice.tgt = UnknownTarget
        <5>1. Return(choice.status)
          BY ZenonT(60), <2>1, <3>2, <4>2 DEF choice
        <5> QED
          BY ZenonT(30), <2>3, <4>1, <4>2, <5>1, ReturnType
      <4>3. CASE choice.tgt # UnknownTarget
        <5> DEFINE latest == tuf'
                   pull   == session # "install"
                   inst   == session # "pull"
                   inTuf  == choice.status = "UpdateNewVersion"
        <5>1. PullAndInstall(choice.tgt, latest, mode, pull, inst, inTuf)
          BY ZenonT(60), <2>1, <3>2, <4>3 DEF choice
        <5>2. /\ pull \in BOOLEAN /\ inst \in BOOLEAN
              /\ mode \in {"All", "OstreeOnly"}
          BY ZenonT(30), <2>1
        <5> HIDE DEF latest, pull, inst, inTuf
        <5>3. ProcTypeOK'
          BY ZenonT(30), <2>3, <5>1, <5>2, PullAndInstallType
        <5> QED
          BY Zenon, <4>1, <5>3
      <4> QED
        BY Zenon, <4>2, <4>3
    <3> QED
      BY ZenonT(30), <3>1, <3>2
  <2> QED
    BY ZenonT(30), <1>11, <2>2, <2>4
    DEF UpdateCommand, ProcTypeOK, AppsTypeOK, TypeOK, disk, bounds
<1>12. CASE RollbackMark
  <2> DEFINE bad    == IF IsPending(log) THEN PendingTarget(log)
                                        ELSE CurrentTarget(log, booted)
             marked == SaveBadTarget(log, bad)
             target == RollbackTarget(marked, IsPending(log))
  <2>1. marked \in Seq(Rows(Target))
    BY Zenon, SaveBadType DEF TypeOK
  <2>2. IsPending(log) \in BOOLEAN
    BY Zenon DEF IsPending
  <2>3. target \in Target
    <3> HIDE DEF marked
    <3> QED
      BY Zenon, <2>1, <2>2, QueryTypes, TargetTypes
  <2>4. log' = marked
    BY Zenon, <1>12 DEF RollbackMark
  <2>5. ProcTypeOK'
    <3>1. CASE target = UnknownTarget
      BY ZenonT(30), <1>12, <3>1, ReturnType DEF RollbackMark, Results
    <3>2. CASE target # UnknownTarget
      <4>1. /\ pc' \in Pcs /\ UNCHANGED <<rc, result>>
            /\ job' = [NoJob EXCEPT !.tgt = target, !.pull = ~IsPending(log)]
        BY Zenon, <1>12, <3>2 DEF RollbackMark, Pcs
      <4> HIDE DEF target
      <4>2. job' \in Job
        BY ZenonT(60), <2>2, <2>3, <4>1, JobTypes
      <4> QED
        BY Zenon, <4>1, <4>2 DEF ProcTypeOK, TypeOK
    <3> QED
      BY Zenon, <3>1, <3>2
  <2> HIDE DEF marked
  <2> QED
    BY ZenonT(30), <1>12, <2>1, <2>4, <2>5
    DEF RollbackMark, ProcTypeOK, TypeOK, apps, bounds
<1>13. CASE RollbackUnmark
  BY ZenonT(30), <1>13, <1>pend, <1>save DEF RollbackUnmark, TypeOK, Pcs, apps, bounds
<1>14. CASE RollbackInstall
  <2>1. ProcTypeOK'
    <3>1. job.pull \in BOOLEAN
      BY Zenon, <1>job, JobTypes
    <3>2. PullAndInstall(job.tgt, tuf, "All", job.pull, TRUE, job.pull)
      BY Zenon, <1>14 DEF RollbackInstall
    <3>3. "All" \in {"All", "OstreeOnly"} /\ TRUE \in BOOLEAN
      BY Zenon
    <3> QED
      BY <1>job, <3>1, <3>2, <3>3, PullAndInstallType, Zenon
  <2> QED
    BY Zenon, <1>14, <2>1 DEF RollbackInstall, ProcTypeOK, TypeOK, disk, apps, bounds
<1>15. CASE DownloadOk
  <2>1. ProcTypeOK'
    BY ZenonT(30), <1>15, ReturnType DEF DownloadOk, ProcTypeOK, TypeOK, Pcs, Results
  <2> QED
    BY ZenonT(30), <1>15, <2>1 DEF DownloadOk, ProcTypeOK, TypeOK, disk, bounds
<1>16. ASSUME DownloadFails, store' \in SUBSET Uri
       PROVE  TypeOK'
  <2>1. ProcTypeOK' /\ failures' \in [AllFailures -> Nat]
    BY Zenon, <1>16, ReturnType, FaultType DEF DownloadFails, Results
  <2> QED
    BY ZenonT(30), <1>16, <2>1 DEF DownloadFails, ProcTypeOK, TypeOK, disk
<1>17. CASE PullFails
  BY ZenonT(60), <1>16, <1>17 DEF PullFails, TypeOK
<1>18. CASE FetchFails
  BY ZenonT(60), <1>16, <1>18 DEF FetchFails, TypeOK
<1>19. CASE VerifyFails
  <2>1. ProcTypeOK' /\ AppsTypeOK'
    BY ZenonT(30), <1>19, InstallReturnsType DEF VerifyFails, Results
  <2> QED
    BY ZenonT(30), <1>19, <2>1 DEF VerifyFails, ProcTypeOK, AppsTypeOK, TypeOK, disk, bounds
<1>20. CASE StopApps
  BY Zenon, <1>20 DEF StopApps, TypeOK, Pcs, disk, bounds
<1>21. CASE Deploy
  <2>1. staged' \in Hash \cup {NoHash}
    BY ZenonT(30), <1>21, <1>job, TargetFields DEF Deploy, TypeOK
  <2> QED
    BY ZenonT(60), <1>21, <2>1 DEF Deploy, TypeOK, Pcs, Codes, apps, bounds
<1>22. CASE DeployFails
  <2>1. failures' \in [AllFailures -> Nat]
    BY ZenonT(30), <1>22, FaultType DEF DeployFails
  <2> QED
    BY ZenonT(60), <1>22, <2>1 DEF DeployFails, TypeOK, Pcs, Codes, apps
<1>23. CASE InstallApp
  BY ZenonT(30), <1>23, AppStepTypes DEF InstallApp, TypeOK, disk, bounds
<1>24. CASE InstallAppFails
  <2>1. failures' \in [AllFailures -> Nat]
    BY ZenonT(30), <1>24, FaultType DEF InstallAppFails
  <2>2. rc' \in Codes /\ installed' \in SUBSET Uri /\ running' \in SUBSET Uri
    BY ZenonT(30), <1>24, AppStepTypes DEF InstallAppFails, TypeOK, Codes
  <2> QED
    BY ZenonT(30), <1>24, <2>1, <2>2 DEF InstallAppFails, TypeOK, disk
<1>25. CASE AppsDone
  <2>1. /\ store' \in SUBSET Uri /\ installed' \in SUBSET Uri
        /\ running' \in SUBSET Uri
    BY ZenonT(30), <1>25, HandleRemovedType DEF AppsDone, CleanUp, TypeOK, apps
  <2> QED
    BY ZenonT(30), <1>25, <2>1 DEF AppsDone, TypeOK, Pcs, disk, bounds
<1>26. CASE SaveResult
  <2>1. log' \in Seq(Rows(Target))
    BY ZenonT(30), <1>26, <1>job, <1>save DEF SaveResult, SavedLog, TypeOK
  <2> QED
    BY ZenonT(30), <1>26, <2>1 DEF SaveResult, TypeOK, Pcs, apps, bounds
<1>27. CASE InstallEnd
  <2>1. ProcTypeOK' /\ AppsTypeOK'
    BY ZenonT(30), <1>27, InstallReturnsType, InstallStatusType DEF InstallEnd
  <2>2. curFile' \in UnknownName .. MaxVersion
    BY ZenonT(30), <1>27, <1>job, <1>name DEF InstallEnd, TypeOK
  <2> QED
    BY ZenonT(30), <1>27, <2>1, <2>2
    DEF InstallEnd, ProcTypeOK, AppsTypeOK, TypeOK, disk, bounds
<1>28. CASE Reboot
  BY ZenonT(30), <1>28, BootTypes, ProcessGoneType DEF Reboot, ProcTypeOK, TypeOK, apps
<1>29. CASE StartCommand
  <2>0. commands \in 0 .. MaxCommands
    BY Zenon DEF TypeOK
  <2>1. commands' \in 0 .. MaxCommands
    BY SMTT(60), <1>29, <2>0, BoundTypes DEF StartCommand
  <2>2. PICK c \in AllCommands : StartProcess(c)
    BY ZenonT(30), <1>29, ConstantsAssumption DEF StartCommand
  <2> QED
    BY ZenonT(60), <1>29, <2>1, <2>2, StartProcessType
    DEF StartCommand, StartProcess, TypeOK, ProcTypeOK, apps
<1>30. CASE StopDaemon
  BY ZenonT(30), <1>30 DEF StopDaemon, TypeOK, Pcs, disk, apps, bounds
<1>31. CASE OperatorReboot
  BY ZenonT(30), <1>31, BootTypes, ProcessGoneType
  DEF OperatorReboot, ProcTypeOK, TypeOK, apps
<1>32. CASE PowerCut
  <2>0. crashes \in 0 .. MaxCrashes
    BY Zenon DEF TypeOK
  <2>1. crashes' \in 0 .. MaxCrashes
    BY SMTT(60), <1>32, <2>0, BoundTypes DEF PowerCut
  <2> QED
    BY ZenonT(30), <1>32, <2>1, BootTypes, ProcessGoneType
    DEF PowerCut, ProcTypeOK, TypeOK, apps
<1>33. CASE Kill
  <2>0. crashes \in 0 .. MaxCrashes
    BY Zenon DEF TypeOK
  <2>1. crashes' \in 0 .. MaxCrashes
    BY <1>33, <2>0, BoundTypes DEF Kill
  <2> QED
    BY ZenonT(30), <1>33, <2>1, ProcessGoneType DEF Kill, ProcTypeOK, TypeOK, disk, apps
<1>36. CASE CheckCommand
  <2> DEFINE choice == GetTargetToInstall(published, -1, FALSE, FALSE, FALSE)
             status == IF choice.tgt = UnknownTarget THEN choice.status ELSE "Ok"
  <2>1. /\ choice.check \in Target
        /\ choice.tgt = UnknownTarget => choice.status \in Results
    BY ZenonT(60), ChoiceType DEF TypeOK
  <2>2. AppsTypeOK'
    BY ZenonT(60), <1>36, <2>1, CheckAndSetType DEF CheckCommand, AppsTypeOK, TypeOK, apps
  <2>3. Return(status) /\ status \in Results
    BY ZenonT(60), <1>36, <2>1 DEF CheckCommand, Results
  <2>4. ProcTypeOK'
    <3> HIDE DEF status
    <3> QED
      BY ZenonT(30), <2>3, ReturnType
  <2> QED
    BY ZenonT(60), <1>36, <2>2, <2>4
    DEF CheckCommand, ProcTypeOK, AppsTypeOK, TypeOK, disk, bounds
<1>34. CASE Publish
  <2>1. publishes' \in 0 .. MaxPublish /\ published' \in 0 .. MaxVersion
    <3>1. publishes \in 0 .. MaxPublish /\ published \in 0 .. MaxVersion
      BY ZenonT(30) DEF TypeOK
    <3> QED
      BY SMTT(60), <1>34, <3>1, BoundTypes DEF Publish
  <2> QED
    BY ZenonT(30), <1>34, <2>1 DEF Publish, TypeOK, disk, apps, proc
<1>35. CASE UNCHANGED vars
  BY Zenon, <1>35 DEF vars, TypeOK, disk, apps, proc, bounds
<1> QED
  BY ZenonT(30), <1>1, <1>2, <1>3, <1>4, <1>5, <1>6, <1>7, <1>8, <1>9, <1>10, <1>11,
     <1>12, <1>13, <1>14, <1>15, <1>17, <1>18, <1>19, <1>20, <1>21, <1>22,
     <1>23, <1>24, <1>25, <1>26, <1>27, <1>28, <1>29, <1>30, <1>31, <1>32,
     <1>33, <1>34, <1>35, <1>36
  DEF Next, Progress, Finalize, Update, Install

\* The types hold initially.
LEMMA TypeOKInit ==
  ASSUME Init
  PROVE  TypeOK
<1>1. << >> \in Seq(Rows(Target))
  OBVIOUS
<1>2. UnknownName \in UnknownName .. MaxVersion /\ 0 \in 0 .. MaxVersion
  BY BoundTypes DEF UnknownName
<1>3. published \in 0 .. MaxVersion
  BY BoundTypes DEF Init
<1>4. /\ 0 \in 0 .. MaxFailures /\ 0 \in 0 .. MaxCrashes
      /\ 0 \in 0 .. MaxPublish /\ 0 \in 0 .. MaxCommands
  BY BoundTypes
<1>5. /\ FactoryHash \in Hash /\ FactoryApps \in SUBSET Uri /\ NoJob \in Job
  BY Zenon, ConstantsAssumption, JobTypes
<1> QED
  BY ZenonT(60), <1>1, <1>2, <1>3, <1>4, <1>5 DEF Init, TypeOK, Pcs, Codes, Results

\* Every value the client keeps, on disk or in memory, has its type in every
\* reachable state, whatever fails, crashes or is published.
THEOREM TypeCorrectness == Spec => []TypeOK
<1>1. Init => TypeOK
  BY Zenon, TypeOKInit
<1>2. TypeOK /\ [Next]_vars => TypeOK'
  BY Zenon, TypeOKStep
<1> QED
  BY <1>1, <1>2, PTL DEF Spec

-----------------------------------------------------------------------------
(* The flags of the table. *)

\* The table changes by saves only.
LEMMA LogSteps ==
  ASSUME TypeOK, [Next]_vars
  PROVE  \/ log' = log
         \/ \E t \in Target, mode \in {"None", "Pending", "Current"} :
              log' = SaveInstalledVersion(log, t, mode)
         \/ \E t \in Target : log' = SaveBadTarget(log, t)
<1>job. job.tgt \in Target
  BY Zenon, JobTypes DEF TypeOK
<1>pend. PendingTarget(log) \in Target /\ CurrentTarget(log, booted) \in Target
  BY Zenon, QueryFacts, CurrentTargetFacts
<1>1. ASSUME NEW s, StartProcess(s)
      PROVE  \/ log' = log
             \/ \E t \in Target :
                  log' = SaveInstalledVersion(log, t, "Current")
  <2>1. InitialTarget \in Target
    BY Zenon, InitialTargetType
  <2> QED
    BY Zenon, <1>1, <2>1 DEF StartProcess
<1>2. CASE StartDaemon \/ StartCommand
  BY Zenon, <1>1, <1>2 DEF StartDaemon, StartCommand
<1>3. CASE FinalizeSave
  BY Zenon, <1>3, <1>job DEF FinalizeSave, FinalizedLog
<1>4. CASE RollbackMark
  BY Zenon, <1>4, <1>pend DEF RollbackMark
<1>5. CASE RollbackUnmark
  BY Zenon, <1>5, <1>pend DEF RollbackUnmark
<1>6. CASE SaveResult
  BY ZenonT(30), <1>6, <1>job DEF SaveResult, SavedLog
<1>7. CASE \/ FinalizeNotBooted \/ FinalizeRolledBack \/ FinalizeBooted
           \/ FinalizeApp \/ FinalizeAppFails \/ FinalizeAppsDone \/ FinalizeEnd
  BY Zenon, <1>7
  DEF FinalizeNotBooted, FinalizeRolledBack, FinalizeBooted, FinalizeApp,
      FinalizeAppFails, FinalizeAppsDone, FinalizeEnd, disk
<1>8. CASE \/ DaemonCycle \/ CheckCommand \/ UpdateCommand \/ RollbackInstall
           \/ DownloadOk \/ PullFails \/ FetchFails
  BY ZenonT(60), <1>8
  DEF DaemonCycle, CheckCommand, UpdateCommand, RollbackInstall, DownloadOk,
      PullFails, FetchFails, DownloadFails, disk
<1>9. CASE \/ VerifyFails \/ StopApps \/ Deploy \/ DeployFails
           \/ InstallApp \/ InstallAppFails \/ AppsDone \/ InstallEnd
  <2>1. CASE VerifyFails \/ InstallEnd
    BY ZenonT(60), <2>1 DEF VerifyFails, InstallEnd, disk
  <2>2. CASE StopApps \/ DeployFails
    BY ZenonT(60), <2>2 DEF StopApps, DeployFails, disk
  <2>3. CASE Deploy
    BY ZenonT(60), <2>3 DEF Deploy
  <2>4. CASE InstallApp \/ InstallAppFails \/ AppsDone
    BY ZenonT(60), <2>4 DEF InstallApp, InstallAppFails, AppsDone, disk
  <2> QED
    BY Zenon, <1>9, <2>1, <2>2, <2>3, <2>4
<1>10. CASE \/ Reboot \/ StopDaemon \/ OperatorReboot \/ PowerCut \/ Kill
            \/ Publish \/ UNCHANGED vars
  BY Zenon, <1>10
  DEF Reboot, StopDaemon, OperatorReboot, PowerCut, Kill, Publish, vars, disk
<1> QED
  BY ZenonT(30), <1>2, <1>3, <1>4, <1>5, <1>6, <1>7, <1>8, <1>9, <1>10
  DEF Next, Progress, Finalize, Update, Install

\* Every step keeps the pending and the current row unique.
LEMMA OneOfAKindStep ==
  ASSUME TypeOK, OneOfAKind, [Next]_vars
  PROVE  OneOfAKind'
<1>1. log \in Seq(Rows(Target)) /\ UniqueFlags(log)
  BY Zenon DEF TypeOK, OneOfAKind, UniqueFlags
<1>2. UniqueFlags(log')
  BY Zenon, <1>1, LogSteps, SaveUnique, SaveBadUnique
<1> QED
  BY Zenon, <1>2 DEF OneOfAKind, UniqueFlags

\* The installed-versions table never has two pending or two current rows,
\* whatever the sequence of saves by the daemon and the commands.
THEOREM FlagsAreUnique == Spec => []OneOfAKind
<1>1. Init => OneOfAKind
  BY DEF Init, OneOfAKind, PendingRows, CurrentRows
<1>2. TypeOK /\ OneOfAKind /\ [Next]_vars => OneOfAKind'
  BY ZenonT(30), OneOfAKindStep
<1> QED
  BY <1>1, <1>2, TypeCorrectness, PTL DEF Spec

-----------------------------------------------------------------------------
(* The Target of a rollback. *)

\* No step returns the result for a failing rollback Target.
LEMMA RollbackTargetIsGoodStep ==
  ASSUME TypeOK, RollbackTargetIsGood, [Next]_vars
  PROVE  RollbackTargetIsGood'
<1> USE DEF RollbackTargetIsGood
<1>ret. \A r : Return(r) => result' = r
  BY Zenon DEF Return
<1>inst. ASSUME NEW status, status # "BadRollbackTarget",
                InstallReturns(status)
         PROVE  result' # "BadRollbackTarget"
  BY ZenonT(60), <1>ret, <1>inst DEF InstallReturns, Revert
<1>pull. ASSUME NEW t, NEW latest, NEW mode, NEW pull, NEW inst, NEW inTuf,
                PullAndInstall(t, latest, mode, pull, inst, inTuf)
         PROVE  result' # "BadRollbackTarget"
  BY Zenon, <1>ret, <1>pull DEF PullAndInstall
<1>1. CASE StartDaemon \/ StartCommand
  BY Zenon, <1>1 DEF StartDaemon, StartCommand, StartProcess
<1>2. CASE FinalizeNotBooted
  BY Zenon, <1>2 DEF FinalizeNotBooted
<1>3. CASE FinalizeEnd
  BY Zenon, <1>3, <1>ret
  DEF FinalizeEnd, SyncAfterBootRollback, RollbackAfterAppFailure, CompleteWith
<1>4. CASE DaemonCycle
  <2> DEFINE choice == GetTargetToInstall(published, -1, FALSE, FALSE, FALSE)
             inTuf  == choice.status = "UpdateNewVersion"
  <2>1. choice.tgt = UnknownTarget => choice.status # "BadRollbackTarget"
    BY Zenon, ChoiceType DEF TypeOK
  <2>2. IF choice.tgt = UnknownTarget
          THEN Return(choice.status)
          ELSE PullAndInstall(choice.tgt, published, "All", TRUE, TRUE, inTuf)
    BY Zenon, <1>4 DEF DaemonCycle
  <2> HIDE DEF choice, inTuf
  <2> QED
    BY Zenon, <1>ret, <1>pull, <2>1, <2>2
<1>5. CASE UpdateCommand
  <2>1. PICK v \in {-1} \cup 1 .. MaxVersion, mode \in {"All", "OstreeOnly"} :
          LET choice == GetTargetToInstall(tuf', v, TRUE, TRUE, TRUE)
          IN  IF IsPending(log) THEN Return("InstallationInProgress")
              ELSE IF choice.tgt = UnknownTarget THEN Return(choice.status)
              ELSE PullAndInstall(choice.tgt, tuf', mode,
                     session # "install", session # "pull",
                     choice.status = "UpdateNewVersion")
    BY ZenonT(60), <1>5 DEF UpdateCommand
  <2> DEFINE latest == tuf'
             choice == GetTargetToInstall(latest, v, TRUE, TRUE, TRUE)
             pull   == session # "install"
             inst   == session # "pull"
             inTuf  == choice.status = "UpdateNewVersion"
  <2>2. latest \in 0 .. MaxVersion
    BY Zenon, <1>5 DEF UpdateCommand, TypeOK
  <2>3. choice.tgt = UnknownTarget => choice.status # "BadRollbackTarget"
    BY Zenon, <2>1, <2>2, ChoiceType
  <2>4. \/ Return("InstallationInProgress")
        \/ choice.tgt = UnknownTarget /\ Return(choice.status)
        \/ PullAndInstall(choice.tgt, latest, mode, pull, inst, inTuf)
    BY Zenon, <2>1
  <2> HIDE DEF latest, choice, pull, inst, inTuf
  <2> QED
    BY Zenon, <1>ret, <1>pull, <2>3, <2>4
<1>6. CASE RollbackMark
  BY Zenon, <1>6, <1>ret DEF RollbackMark
<1>7. CASE RollbackInstall
  <2> DEFINE pull == job.pull
  <2>1. PullAndInstall(job.tgt, tuf, "All", pull, TRUE, pull)
    BY Zenon, <1>7 DEF RollbackInstall
  <2> HIDE DEF pull
  <2> QED
    BY Zenon, <1>pull, <2>1
<1>8. CASE DownloadOk \/ PullFails \/ FetchFails
  BY Zenon, <1>8, <1>ret DEF DownloadOk, PullFails, FetchFails, DownloadFails
<1>9. CASE VerifyFails
  BY Zenon, <1>9, <1>inst DEF VerifyFails
<1>10. CASE InstallEnd
  <2>1. InstallStatus # "BadRollbackTarget"
    BY Zenon DEF InstallStatus
  <2> QED
    BY Zenon, <1>10, <1>inst, <2>1 DEF InstallEnd
<1>11. CASE Reboot \/ OperatorReboot \/ PowerCut \/ Kill
  BY Zenon, <1>11 DEF Reboot, OperatorReboot, PowerCut, Kill, ProcessGone
<1>13. CASE CheckCommand
  <2> DEFINE choice == GetTargetToInstall(published, -1, FALSE, FALSE, FALSE)
  <2>1. choice.tgt = UnknownTarget => choice.status # "BadRollbackTarget"
    BY Zenon, ChoiceType DEF TypeOK
  <2>2. Return(IF choice.tgt = UnknownTarget THEN choice.status ELSE "Ok")
    BY ZenonT(60), <1>13 DEF CheckCommand
  <2> HIDE DEF choice
  <2> QED
    BY ZenonT(30), <1>ret, <2>1, <2>2
<1>12. CASE \/ FinalizeRolledBack \/ FinalizeBooted \/ FinalizeApp
            \/ FinalizeAppFails \/ FinalizeAppsDone \/ FinalizeSave
            \/ RollbackUnmark \/ StopApps \/ Deploy \/ DeployFails \/ InstallApp
            \/ InstallAppFails \/ AppsDone \/ SaveResult \/ StopDaemon
            \/ Publish \/ UNCHANGED vars
  BY ZenonT(60), <1>12
  DEF FinalizeRolledBack, FinalizeBooted, FinalizeApp, FinalizeAppFails,
      FinalizeAppsDone, FinalizeSave, RollbackUnmark, StopApps, Deploy,
      DeployFails, InstallApp, InstallAppFails, AppsDone, SaveResult,
      StopDaemon, Publish, vars, proc
<1> QED
  BY ZenonT(30), <1>1, <1>2, <1>3, <1>4, <1>5, <1>6, <1>7, <1>8, <1>9, <1>10, <1>11, <1>12,
     <1>13
  DEF Next, Progress, Finalize, Update, Install

\* GetTargetToInstall never reaches its branch "We should never get here": a
\* Target that getRollbackTarget returns is not a failing one.
THEOREM RollbackNeverPicksFailing == Spec => []RollbackTargetIsGood
<1>1. Init => RollbackTargetIsGood
  BY ZenonT(30) DEF Init, RollbackTargetIsGood
<1>2. TypeOK /\ RollbackTargetIsGood /\ [Next]_vars => RollbackTargetIsGood'
  BY Zenon, RollbackTargetIsGoodStep
<1> QED
  BY <1>1, <1>2, TypeCorrectness, PTL DEF Spec

-----------------------------------------------------------------------------
(* The pending Target and the deployment that waits for a reboot.          *)
(*                                                                         *)
(* PendingCanComplete is not inductive.  A pending Target that is not      *)
(* booted is either deployed, and then its row is the last one, so that a  *)
(* failed finalization clears it; or its deployment is gone for good (the  *)
(* device booted back) and the row could not be cleared.  An installation  *)
(* is under way beside a pending Target only if the run command rolls back *)
(* to another Target, and then the pending one is booted or its deployment *)
(* is gone.                                                                *)

\* The saves of the device's table: as pending,
LEMMA SavedAsPending ==
  ASSUME log \in Seq(Rows(Target)), UniqueFlags(log), NEW t \in Target,
         log' = SaveInstalledVersion(log, t, "Pending")
  PROVE  /\ PendingTarget(log').hash = t.hash
         /\ log'[Len(log')].pend
BY ZenonT(30), SavePending

\* as current,
LEMMA SavedAsCurrent ==
  ASSUME log \in Seq(Rows(Target)), NEW t \in Target,
         log' = SaveInstalledVersion(log, t, "Current")
  PROVE  ~IsPending(log')
BY ZenonT(30), SaveCurrent

\* as neither,
LEMMA SavedAsNone ==
  ASSUME log \in Seq(Rows(Target)), UniqueFlags(log), NEW t \in Target,
         log' = SaveInstalledVersion(log, t, "None")
  PROVE  /\ IsPending(log') => IsPending(log) /\ PendingTarget(log') = PendingTarget(log)
         /\ IsPending(log) /\ log[Len(log)].pend /\ t = PendingTarget(log)
              => ~IsPending(log')
BY ZenonT(30), SaveNone

\* and as anything: there is a last row, of that Target,
LEMMA SavedIsLast ==
  ASSUME log \in Seq(Rows(Target)), NEW t \in Target, NEW mode,
         log' = SaveInstalledVersion(log, t, mode)
  PROVE  /\ Len(log') >= 1
         /\ log'[Len(log')].target.hash = t.hash
<1>1. /\ Len(SaveInstalledVersion(log, t, mode)) >= 1
      /\ SaveInstalledVersion(log, t, mode)[Len(SaveInstalledVersion(log, t, mode))].target.hash
           = t.hash
  BY SaveLast
<1> QED
  BY Zenon, <1>1

\* and only a save as current changes what is current.
LEMMA SavedSetsCurrent ==
  ASSUME log \in Seq(Rows(Target)), UniqueFlags(log), booted # NoHash,
         NEW t \in Target, NEW mode, log' = SaveInstalledVersion(log, t, mode)
  PROVE  /\ mode = "Current" /\ t.hash = booted
              => CurrentTarget(log', booted).name = t.name
         /\ mode # "Current" /\ RecordedHash(log') = booted
              => /\ RecordedHash(log) = booted
                 /\ CurrentTarget(log', booted) = CurrentTarget(log, booted)
<1> DEFINE new == SaveInstalledVersion(log, t, mode)
<1>1. /\ mode = "Current" /\ t.hash = booted
           => CurrentTarget(new, booted).name = t.name
      /\ mode # "Current" /\ RecordedHash(new) = booted
           => /\ RecordedHash(log) = booted
              /\ CurrentTarget(new, booted) = CurrentTarget(log, booted)
  BY SaveSetsCurrent
<1> QED
  BY Zenon, <1>1

PendingIsDeployed == staged = PendingTarget(log).hash /\ log[Len(log)].pend

PendingIsGone == staged = NoHash /\ ~needReboot

PendingInv ==
  /\ IsPending(log) /\ booted # PendingTarget(log).hash
       => PendingIsDeployed \/ PendingIsGone
  /\ pc \in {"download", "install", "deploy", "apps", "save"} /\ IsPending(log)
       => /\ job.phase = "complete" /\ job.mode = "All"
          /\ \/ booted = PendingTarget(log).hash
             \/ PendingIsGone /\ booted = job.tgt.hash
  /\ pc \in {"apps", "save"} => (rc = "Ok" => booted = job.tgt.hash)
  /\ pc \in {"apps", "save"} => (rc = "NeedCompletion" => booted # job.tgt.hash)
  /\ pc = "finalize" => IsPending(log)
  /\ pc = "finalizeApps" =>
       /\ IsPending(log) /\ job.tgt = PendingTarget(log)
       /\ booted = PendingTarget(log).hash
  /\ pc = "finalizeSave" =>
       /\ IsPending(log) /\ job.tgt = PendingTarget(log)
       /\ booted # PendingTarget(log).hash => rc = "InstallFailed" /\ ~needReboot
  /\ pc = "finalizeFile" /\ rc # "Ok" /\ IsPending(log) =>
       /\ job.tgt.hash = PendingTarget(log).hash
       /\ booted # PendingTarget(log).hash => PendingIsGone
  /\ pc = "file" /\ job.phase # "complete" /\ IsPending(log)
       => rc \in {"Ok", "NeedCompletion"}

\* Every step keeps PendingInv.
LEMMA PendingInvStep ==
  ASSUME TypeOK, OneOfAKind, PendingInv, [Next]_vars
  PROVE  PendingInv'
<1> USE DEF PendingIsDeployed, PendingIsGone
<1>log. log \in Seq(Rows(Target)) /\ UniqueFlags(log)
  BY Zenon DEF TypeOK, OneOfAKind, UniqueFlags
<1>job. job.tgt \in Target
  BY Zenon, JobTypes DEF TypeOK
<1>pend. PendingTarget(log) \in Target
  BY Zenon, QueryFacts
<1>cur. CurrentTarget(log, booted).hash = booted
  BY Zenon, CurrentTargetFacts
<1>ret. \A r : Return(r) => pc' \in {"down", "reboot", "idle"}
  BY Zenon DEF Return
<1>nojob. /\ NoJob.mode = "All"
          /\ \A t : /\ [NoJob EXCEPT !.tgt = t].tgt = t
                    /\ [NoJob EXCEPT !.phase = "complete", !.tgt = t].tgt = t
                    /\ [NoJob EXCEPT !.phase = "complete", !.tgt = t].mode = "All"
                    /\ [NoJob EXCEPT !.phase = "complete", !.tgt = t].phase
                         = "complete"
  BY ZenonT(30) DEF NoJob
\* Nothing but the process has changed, and it is not installing.
<1>rest. ASSUME UNCHANGED <<log, booted, staged, needReboot>>,
                pc' \in {"down", "reboot", "idle", "unmark", "rollback"}
         PROVE  PendingInv'
  <2>1. IsPending(log) /\ booted # PendingTarget(log).hash
          => PendingIsDeployed \/ PendingIsGone
    BY Zenon DEF PendingInv
  <2>2. IsPending(log') /\ booted' # PendingTarget(log').hash
          => PendingIsDeployed' \/ PendingIsGone'
    BY Zenon, <1>rest, <2>1
  <2> QED
    BY Zenon, <1>rest, <2>2 DEF PendingInv
\* A new installation starts with nothing pending.
<1>none. ASSUME ~IsPending(log'),
                pc' \in {"down", "reboot", "idle", "download", "install",
                         "unmark", "rollback"}
         PROVE  PendingInv'
  BY Zenon, <1>none DEF PendingInv
<1>pull. ASSUME NEW t, NEW latest, NEW mode, NEW pull, NEW inst, NEW inTuf,
                PullAndInstall(t, latest, mode, pull, inst, inTuf),
                UNCHANGED disk
         PROVE  PendingInv'
  <2>1. CASE pc' \in {"down", "reboot", "idle"}
    BY Zenon, <1>pull, <1>rest, <2>1 DEF disk
  <2>2. CASE ~IsPending(log) /\ pc' \in {"download", "install"}
    BY Zenon, <1>pull, <1>none, <2>2 DEF disk
  <2> QED
    BY Zenon, <1>pull, <1>ret, <2>1, <2>2 DEF PullAndInstall
<1>inst. ASSUME NEW status, InstallReturns(status), UNCHANGED disk,
                status = "Failed" /\ job.phase = "update" => ~IsPending(log)
         PROVE  PendingInv'
  <2>1. CASE pc' \in {"down", "reboot", "idle"}
    BY Zenon, <1>inst, <1>rest, <2>1 DEF disk
  <2>2. CASE ~IsPending(log) /\ pc' = "install"
    BY ZenonT(30), <1>inst, <1>none, <2>2 DEF disk
  <2> QED
    BY ZenonT(60), <1>inst, <1>ret, <2>1, <2>2 DEF InstallReturns, Revert
<1>1. ASSUME NEW s, StartProcess(s)
      PROVE  PendingInv'
  <2>1. log' = log \/ ~IsPending(log')
    <3>1. InitialTarget \in Target
      BY Zenon, InitialTargetType
    <3> QED
      BY Zenon, <1>1, <1>log, <3>1, SaveCurrent DEF StartProcess
  <2> QED
    BY Zenon, <1>1, <2>1 DEF StartProcess, PendingInv
<1>2. CASE StartDaemon \/ StartCommand
  BY ZenonT(30), <1>1, <1>2 DEF StartDaemon, StartCommand
<1>3. CASE FinalizeNotBooted \/ StopDaemon \/ Kill
  BY Zenon, <1>3, <1>rest DEF FinalizeNotBooted, StopDaemon, Kill, ProcessGone, disk
<1>4. CASE FinalizeRolledBack
  BY Zenon, <1>4, <1>nojob DEF FinalizeRolledBack, PendingInv, disk
<1>5. CASE FinalizeBooted
  BY ZenonT(30), <1>5, <1>nojob DEF FinalizeBooted, PendingInv, disk
<1>6. CASE FinalizeApp \/ FinalizeAppFails \/ FinalizeAppsDone
  BY Zenon, <1>6
  DEF FinalizeApp, FinalizeAppFails, FinalizeAppsDone, PendingInv, disk
<1>7. CASE FinalizeSave
  <2>1. /\ IsPending(log) /\ job.tgt = PendingTarget(log)
        /\ booted # PendingTarget(log).hash => rc = "InstallFailed" /\ ~needReboot
    BY ZenonT(30), <1>7 DEF FinalizeSave, PendingInv
  <2>2. CASE rc = "Ok"
    <3>1. ~IsPending(log')
      BY ZenonT(30), <1>7, <1>log, <1>job, <2>2, SaveCurrent DEF FinalizeSave, FinalizedLog
    <3> QED
      BY Zenon, <1>7, <3>1 DEF FinalizeSave, PendingInv
  <2>3. CASE rc \in {"InstallFailed", "CustomError"}
    <3>1. log' = SaveInstalledVersion(log, job.tgt, "None")
      BY Zenon, <1>7, <2>3 DEF FinalizeSave, FinalizedLog
    <3>2. /\ IsPending(log') => PendingTarget(log') = PendingTarget(log)
          /\ log[Len(log)].pend => ~IsPending(log')
      BY Zenon, <1>log, <1>job, <2>1, <3>1, SavedAsNone
    <3> QED
      BY Zenon, <1>7, <2>1, <2>3, <3>2 DEF FinalizeSave, PendingInv
  <2>4. CASE rc \notin {"Ok", "InstallFailed", "CustomError"}
    BY Zenon, <1>7, <2>1, <2>4 DEF FinalizeSave, FinalizedLog, PendingInv
  <2> QED
    BY ZenonT(30), <2>2, <2>3, <2>4

<1>8. CASE FinalizeEnd
  <2>1. UNCHANGED <<log, booted, staged, needReboot>> /\ pc = "finalizeFile"
    BY Zenon, <1>8 DEF FinalizeEnd, disk
  <2>2. CASE session = "daemon" \/ rc = "Ok"
    BY ZenonT(30), <1>8, <1>ret, <1>rest, <2>1, <2>2 DEF FinalizeEnd
  <2>3. CASE ~(session = "daemon" \/ rc = "Ok")
    <3>1. CASE pc' \in {"down", "reboot", "idle"}
      BY Zenon, <1>rest, <2>1, <3>1
    <3>2. ASSUME NEW t, CompleteWith(t),
                 IsPending(log) => \/ booted = PendingTarget(log).hash
                                   \/ PendingIsGone /\ booted = t.hash
          PROVE  PendingInv'
      BY Zenon, <1>nojob, <2>1, <3>2 DEF CompleteWith, PendingInv
    <3>3. CASE booted # job.tgt.hash
      <4>1. SyncAfterBootRollback
        BY ZenonT(30), <1>8, <2>3, <3>3 DEF FinalizeEnd
      <4>2. IsPending(log) => PendingIsGone
        BY Zenon, <2>1, <2>3, <3>3 DEF PendingInv
      <4> QED
        BY ZenonT(60), <1>ret, <1>cur, <3>1, <3>2, <4>1, <4>2 DEF SyncAfterBootRollback
    <3>4. CASE booted = job.tgt.hash
      <4>1. RollbackAfterAppFailure
        BY ZenonT(30), <1>8, <2>3, <3>4 DEF FinalizeEnd
      <4>2. IsPending(log) => booted = PendingTarget(log).hash
        BY Zenon, <2>1, <2>3, <3>4 DEF PendingInv
      <4> QED
        BY ZenonT(60), <1>ret, <3>1, <3>2, <4>1, <4>2 DEF RollbackAfterAppFailure
    <3> QED
      BY Zenon, <3>3, <3>4
  <2> QED
    BY Zenon, <2>2, <2>3
<1>9. CASE DaemonCycle
  <2> DEFINE choice == GetTargetToInstall(published, -1, FALSE, FALSE, FALSE)
             inTuf  == choice.status = "UpdateNewVersion"
  <2>1. \/ Return(choice.status)
        \/ PullAndInstall(choice.tgt, published, "All", TRUE, TRUE, inTuf)
    BY ZenonT(60), <1>9 DEF DaemonCycle
  <2>2. UNCHANGED disk
    BY Zenon, <1>9 DEF DaemonCycle
  <2> HIDE DEF choice, inTuf
  <2> QED
    BY ZenonT(60), <1>ret, <1>rest, <1>pull, <2>1, <2>2 DEF disk
<1>10. CASE UpdateCommand
  <2>1. PICK v \in {-1} \cup 1 .. MaxVersion, mode \in {"All", "OstreeOnly"} :
          LET choice == GetTargetToInstall(tuf', v, TRUE, TRUE, TRUE)
          IN  IF IsPending(log) THEN Return("InstallationInProgress")
              ELSE IF choice.tgt = UnknownTarget THEN Return(choice.status)
              ELSE PullAndInstall(choice.tgt, tuf', mode,
                     session # "install", session # "pull",
                     choice.status = "UpdateNewVersion")
    BY Zenon, <1>10 DEF UpdateCommand
  <2> DEFINE latest == tuf'
             choice == GetTargetToInstall(latest, v, TRUE, TRUE, TRUE)
             pull   == session # "install"
             inst   == session # "pull"
             inTuf  == choice.status = "UpdateNewVersion"
  <2>2. \/ \E r : Return(r)
        \/ PullAndInstall(choice.tgt, latest, mode, pull, inst, inTuf)
    BY ZenonT(60), <2>1
  <2>3. UNCHANGED disk
    BY Zenon, <1>10 DEF UpdateCommand
  <2> HIDE DEF latest, choice, pull, inst, inTuf
  <2> QED
    BY ZenonT(30), <1>ret, <1>rest, <1>pull, <2>2, <2>3 DEF disk
<1>11. CASE RollbackMark
  <2>1. PICK t : log' = SaveBadTarget(log, t)
    BY ZenonT(30), <1>11 DEF RollbackMark
  <2>2. /\ IsPending(log') <=> IsPending(log)
        /\ IsPending(log) => PendingTarget(log') = PendingTarget(log)
        /\ IsPending(log) => (log'[Len(log')].pend <=> log[Len(log)].pend)
    BY Zenon, <1>log, <2>1, SaveBadPending
  <2>3. pc' \in {"down", "reboot", "idle", "unmark", "rollback"}
    BY Zenon, <1>11, <1>ret DEF RollbackMark
  <2>4. UNCHANGED <<booted, staged, needReboot>>
    BY ZenonT(30), <1>11 DEF RollbackMark
  <2> QED
    BY Zenon, <2>2, <2>3, <2>4 DEF PendingInv
<1>12. CASE RollbackUnmark
  <2>1. log' = SaveInstalledVersion(log, PendingTarget(log), "None")
    BY Zenon, <1>12 DEF RollbackUnmark
  <2>2. /\ IsPending(log') =>
             IsPending(log) /\ PendingTarget(log') = PendingTarget(log)
        /\ IsPending(log) /\ log[Len(log)].pend => ~IsPending(log')
    BY Zenon, <1>log, <1>pend, <2>1, SavedAsNone
  <2> QED
    BY Zenon, <1>12, <2>2 DEF RollbackUnmark, PendingInv
<1>13. CASE RollbackInstall
  <2> DEFINE pull == job.pull
  <2>1. PullAndInstall(job.tgt, tuf, "All", pull, TRUE, pull) /\ UNCHANGED disk
    BY ZenonT(60), <1>13 DEF RollbackInstall
  <2> HIDE DEF pull
  <2> QED
    BY Zenon, <1>pull, <2>1
<1>14. CASE DownloadOk
  <2>1. CASE job.inst
    BY ZenonT(30), <1>14, <2>1 DEF DownloadOk, PendingInv, disk
  <2>2. CASE ~job.inst
    BY ZenonT(30), <1>14, <1>ret, <1>rest, <2>2 DEF DownloadOk, disk
  <2> QED
    BY ZenonT(30), <2>1, <2>2
<1>15. CASE PullFails \/ FetchFails
  BY Zenon, <1>15, <1>ret, <1>rest DEF PullFails, FetchFails, DownloadFails, disk
<1>16. CASE VerifyFails
  <2>1. InstallReturns("DownloadFailed") /\ UNCHANGED disk
    BY ZenonT(30), <1>16 DEF VerifyFails
  <2> QED
    BY Zenon, <1>inst, <2>1
<1>17. CASE StopApps
  <2>1. /\ UNCHANGED <<log, booted, staged, needReboot, job>>
        /\ pc = "install" /\ pc' = "deploy"
    BY Zenon, <1>17 DEF StopApps, disk
  <2> QED
    BY ZenonT(30), <2>1 DEF PendingInv
<1>18. CASE Deploy
  <2>1. IsPending(log) /\ booted # PendingTarget(log).hash => ~NeedsDeploy
    BY ZenonT(30), <1>18 DEF Deploy, NeedsDeploy, PendingInv
  <2> QED
    BY ZenonT(30), <1>18, <2>1 DEF Deploy, PendingInv
<1>19. CASE DeployFails
  BY ZenonT(30), <1>19 DEF DeployFails, PendingInv
<1>20. CASE InstallApp \/ InstallAppFails \/ AppsDone
  <2>1. UNCHANGED <<log, booted, staged, needReboot, job>> /\ pc = "apps"
    BY ZenonT(30), <1>20 DEF InstallApp, InstallAppFails, AppsDone, disk
  <2>2. pc' \in {"apps", "save"} /\ (rc' = rc \/ rc' \notin {"Ok", "NeedCompletion"})
    BY Zenon, <1>20 DEF InstallApp, InstallAppFails, AppsDone
  <2> QED
    BY ZenonT(30), <2>1, <2>2 DEF PendingInv
<1>21. CASE SaveResult
  <2>1. /\ rc = "Ok" => booted = job.tgt.hash
        /\ rc = "NeedCompletion" => booted # job.tgt.hash
        /\ IsPending(log) =>
             /\ job.phase = "complete" /\ job.mode = "All"
             /\ \/ booted = PendingTarget(log).hash
                \/ PendingIsGone /\ booted = job.tgt.hash
    BY Zenon, <1>21 DEF SaveResult, PendingInv
  <2>2. /\ UNCHANGED <<booted, staged, needReboot, job, rc>>
        /\ pc' = "file" /\ log' = SavedLog
    BY ZenonT(30), <1>21 DEF SaveResult
  <2>3. CASE log' = log
    BY ZenonT(30), <2>1, <2>2, <2>3 DEF PendingInv
  <2>4. CASE log' = SaveInstalledVersion(log, job.tgt, "Current")
    <3>1. ~IsPending(log')
      BY ZenonT(30), <1>log, <1>job, <2>4, SaveCurrent
    <3> QED
      BY Zenon, <2>2, <3>1 DEF PendingInv
  <2>5. CASE /\ rc \in {"Ok", "NeedCompletion"}
             /\ rc = "NeedCompletion" => job.tgt.hash = staged
             /\ log' = SaveInstalledVersion(log, job.tgt, "Pending")
    <3>1. PendingTarget(log').hash = job.tgt.hash /\ log'[Len(log')].pend
      BY Zenon, <1>log, <1>job, <2>5, SavedAsPending
    <3> QED
      <4>1. booted # job.tgt.hash => rc = "NeedCompletion" /\ job.tgt.hash = staged
        BY Zenon, <2>1, <2>5
      <4>2. booted' # PendingTarget(log').hash => PendingIsDeployed'
        BY Zenon, <2>2, <3>1, <4>1
      <4> QED
        BY Zenon, <2>2, <2>5, <4>2 DEF PendingInv
  <2>6. CASE log' = SaveInstalledVersion(log, job.tgt, "None")
    <3>1. IsPending(log') =>
            IsPending(log) /\ PendingTarget(log') = PendingTarget(log)
      BY Zenon, <1>log, <1>job, <2>6, SavedAsNone
    <3> QED
      BY ZenonT(30), <2>1, <2>2, <3>1 DEF PendingInv
  <2> QED
    BY ZenonT(30), <2>2, <2>3, <2>4, <2>5, <2>6 DEF SavedLog
<1>22. CASE InstallEnd
  <2>1. InstallReturns(InstallStatus) /\ UNCHANGED disk
    BY Zenon, <1>22 DEF InstallEnd
  <2>2. InstallStatus = "Failed" => rc \notin {"Ok", "NeedCompletion"}
    BY ZenonT(60), JobTypes DEF InstallStatus, TypeOK
  <2>3. InstallStatus = "Failed" /\ job.phase = "update" => ~IsPending(log)
    BY Zenon, <1>22, <2>2 DEF InstallEnd, PendingInv
  <2> QED
    BY Zenon, <1>inst, <2>1, <2>3
<1>23. ASSUME Boot, log' = log, pc' = "down"
       PROVE  PendingInv'
  BY ZenonT(60), <1>23 DEF Boot, PendingInv
<1>24. CASE Reboot \/ OperatorReboot \/ PowerCut
  BY Zenon, <1>23, <1>24 DEF Reboot, OperatorReboot, PowerCut, ProcessGone
<1>26. CASE CheckCommand
  <2>1. (\E r : Return(r)) /\ UNCHANGED disk
    BY ZenonT(60), <1>26 DEF CheckCommand
  <2> QED
    BY Zenon, <1>ret, <1>rest, <2>1 DEF disk
<1>25. CASE Publish \/ UNCHANGED vars
  <2>1. UNCHANGED <<log, booted, staged, needReboot, job, pc, rc>>
    BY Zenon, <1>25 DEF Publish, vars, disk, proc
  <2> QED
    BY ZenonT(30), <2>1 DEF PendingInv
<1> QED
  BY ZenonT(30), <1>2, <1>3, <1>4, <1>5, <1>6, <1>7, <1>8, <1>9, <1>10, <1>11, <1>12,
     <1>13, <1>14, <1>15, <1>16, <1>17, <1>18, <1>19, <1>20, <1>21, <1>22,
     <1>24, <1>25, <1>26
  DEF Next, Progress, Finalize, Update, Install

\* A pending Target that waits for its reboot is deployed: whatever reverts,
\* failed installations, rollback and run commands, kills and power cuts come
\* between, none of them replaces the deployment and leaves the record.
THEOREM PendingIsCompletable == Spec => []PendingCanComplete
<1>1. Init => PendingInv
  <2>1. Init => ~IsPending(log) /\ pc = "down"
    BY DEF Init, IsPending, PendingRows
  <2> QED
    BY Zenon, <2>1 DEF PendingInv
<1>2. TypeOK /\ OneOfAKind /\ PendingInv /\ [Next]_vars => PendingInv'
  BY Zenon, PendingInvStep
<1>3. PendingInv => PendingCanComplete
  BY Zenon DEF PendingInv, PendingIsDeployed, PendingIsGone, PendingCanComplete,
         AwaitsReboot
<1> QED
  BY <1>1, <1>2, <1>3, TypeCorrectness, FlagsAreUnique, PTL DEF Spec
==============================================================================
