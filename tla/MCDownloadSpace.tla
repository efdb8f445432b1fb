--------------------------- MODULE MCDownloadSpace ---------------------------
(* One volume of 60 blocks, of which ostree keeps 3 and the Apps 12.  The     *)
(* first Target has one App, the second another version of it and a further   *)
(* App, the third an App whose layers are larger together than a 6-bit        *)
(* number tells, the fourth an App of which only the precise total is.        *)
EXTENDS DownloadSpace, TLC

CONSTANTS v1, t1, t2, t3, t4, h1, h2, h3, h4, a1, a2, b1, c1, d1, x, y, z, w, q

MCVolume == {v1}
MCSize == v1 :> 60
MCVolumeOf == "repo" :> v1 @@ "store" :> v1 @@ "docker" :> v1
MCOtherLevels == v1 :> {0, 14, 53}
MCTarget == {t1, t2, t3, t4}
MCHashOf == t1 :> h1 @@ t2 :> h2 @@ t3 :> h3 @@ t4 :> h4
MCAppsOf == t1 :> {a1} @@ t2 :> {a2, b1} @@ t3 :> {c1} @@ t4 :> {d1}
MCHash == {h1, h2, h3, h4}
MCCommitSize == h1 :> 3 @@ h2 :> 3 @@ h3 :> 3 @@ h4 :> 3
MCHasDelta == {h2}
MCApp == {a1, a2, b1, c1, d1}
MCArchive == a1 :> 1 @@ a2 :> 1 @@ b1 :> 1 @@ c1 :> 1 @@ d1 :> 1
MCBlob == {x, y, z, w, q}
MCLayersOf == a1 :> <<x>> @@ a2 :> <<x, y>> @@ b1 :> <<z>> @@ c1 :> <<y, w>> @@ d1 :> <<z, q>>
MCBlobSize == x :> 1 @@ y :> 6 @@ z :> 2 @@ w :> 8 @@ q :> 1
MCBlobUsage == x :> 3 @@ y :> 29 @@ z :> 6 @@ w :> 40 @@ q :> 60
MCMeta == a1 :> "layers" @@ a2 :> "precise" @@ b1 :> "none" @@ c1 :> "precise" @@ d1 :> "precise"
==============================================================================
