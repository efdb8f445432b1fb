-------------------------- MODULE TargetLifecycle --------------------------
(***************************************************************************)
(* What the update cycle promises about the records it keeps, whatever     *)
(* Apps, downloads and commands are involved: which commit is recorded as  *)
(* the current and as the pending one, which commit is booted, and which   *)
(* one the bootloader is told to try next.  UpdateAgent implements it.     *)
(***************************************************************************)
CONSTANTS
  Hash,        \* ostree commits
  NoHash,      \* no commit
  Factory,     \* the commit the device was made with
  MayCancel    \* an operator may give up a pending Target

VARIABLES
  current,     \* the commit of the Target recorded as current
  pending,     \* the commit of the Target recorded as pending
  booted,      \* the commit that runs
  next,        \* the commit deployed and not booted
  fresh        \* it has been deployed since the last boot

lvars == <<current, pending, booted, next, fresh>>

\* The record says that a reboot into another commit is due.
Waiting == pending \notin {NoHash, booted}

Init ==
  /\ booted = Factory
  /\ current = NoHash /\ pending = NoHash /\ next = NoHash
  /\ fresh = FALSE

\* Nothing is deployed over a commit that a pending Target waits for.
Deploy(h) ==
  /\ ~Waiting
  /\ next' = h /\ fresh' = TRUE
  /\ UNCHANGED <<current, pending, booted>>

\* Only a commit that is there becomes the pending one; a Target whose Apps
\* are to be completed is pending again and no longer current.
Announce(h) ==
  /\ ~Waiting
  /\ h \in {booted, next}
  /\ pending' = h
  /\ current' \in {current, NoHash}
  /\ UNCHANGED <<booted, next, fresh>>

\* Only the booted commit becomes the current one, and it ends what was
\* pending; a Target that waits for its first reboot is not ended that way.
Record ==
  /\ ~(Waiting /\ fresh)
  /\ current' = booted /\ pending' = NoHash
  /\ UNCHANGED <<booted, next, fresh>>

\* A failure takes records back and makes none.  A Target that waits for its
\* first reboot is only given up by an operator.
Withdraw ==
  /\ current' \in {current, NoHash}
  /\ pending' \in {pending, NoHash}
  /\ Waiting /\ fresh /\ ~MayCancel => pending' = pending
  /\ UNCHANGED <<booted, next, fresh>>

\* The bootloader tries the deployed commit, or stays with the old one.
Boot ==
  /\ fresh' = FALSE
  /\ \/ UNCHANGED <<booted, next>>
     \/ next # NoHash /\ booted' = next /\ next' = NoHash
  /\ UNCHANGED <<current, pending>>

Next ==
  \/ \E h \in Hash : Deploy(h) \/ Announce(h)
  \/ Record \/ Withdraw \/ Boot

Spec == Init /\ [][Next]_lvars

\* A Target that waits for its first reboot is the one the bootloader tries.
AwaitedIsNext == Waiting /\ fresh => next = pending
=============================================================================
