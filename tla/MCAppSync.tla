----------------------------- MODULE MCAppSync -----------------------------
(***************************************************************************)
(* An instance of AppSync for TLC: two Apps in two versions each, and      *)
(* three Targets, one of which shares an App with each of the others.      *)
(***************************************************************************)
EXTENDS AppSync

CONSTANTS a, b, a1, a2, b1, b2, t1, t2, t3

MCName == {a, b}
MCUri == {a1, a2, b1, b2}
MCNameOf == [u \in MCUri |-> IF u \in {b1, b2} THEN b ELSE a]
MCTarget == {t1, t2, t3}
MCAppsOf ==
  [t \in MCTarget |-> CASE t = t1 -> {a1, b1} [] t = t2 -> {a2, b2} [] t = t3 -> {a1, b2}]

MCBoth == [apps |-> {a, b}, reset |-> {}]
MCConfigs == {MCBoth, [apps |-> {a}, reset |-> {b}], [apps |-> {b}, reset |-> {}]}

MCBundles ==
  {[target |-> t2, shortlist |-> {a, b}, apps |-> {a2, b2}],
   [target |-> t2, shortlist |-> {a}, apps |-> {a2}],
   [target |-> t1, shortlist |-> {a, b}, apps |-> {a1}]}
=============================================================================
