--------------------------- MODULE MCUpdateAgent ---------------------------
(***************************************************************************)
(* Instances of UpdateAgent for TLC: two rootfs, two Apps, three versions. *)
(***************************************************************************)
EXTENDS UpdateAgent

CONSTANTS h0, h1, a1, a2, b1

\* Version 1 is the factory ostree commit with App a; version 2 updates
\* ostree and a and adds b; version 3 is version 2 with a as it was before.
MCHashOf == <<h0, h1, h1>>
MCAppsOf == <<{a1}, {a2, b1}, {a1, b1}>>
MCAppName == [u \in {a1, a2, b1} |-> IF u = b1 THEN "b" ELSE "a"]

\* The first two of them.
MCHashOf2 == <<h0, h1>>
MCAppsOf2 == <<{a1}, {a2, b1}>>
=============================================================================
