------------------------------ MODULE MCAppStore ------------------------------
(* Two versions of an App, and another App that shares its image with the     *)
(* first of them.  The two images share a layer.                              *)
EXTENDS AppStore

CONSTANTS a1, a2, b1, nA, nB, i1, i2, m1, m2, c1, c2, l1, l2

MCUri == {a1, a2, b1}
MCName == {nA, nB}
MCImage == {i1, i2}
MCBlob == {m1, m2, c1, c2, l1, l2}
MCNameOf == [u \in MCUri |-> IF u = b1 THEN nB ELSE nA]
MCImagesOf == [u \in MCUri |-> IF u = a2 THEN {i2} ELSE {i1}]
MCManifestOf == [i \in MCImage |-> IF i = i1 THEN m1 ELSE m2]
MCConfigOf == [i \in MCImage |-> IF i = i1 THEN c1 ELSE c2]
MCLayersOf == [i \in MCImage |-> IF i = i1 THEN {l1} ELSE {l1, l2}]
MCTargets == {{a1}, {a2, b1}}
===============================================================================
