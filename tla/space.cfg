SPECIFICATION FairSpec
CONSTANTS
  v1 = v1
  t1 = t1
  t2 = t2
  t3 = t3
  t4 = t4
  h1 = h1
  h2 = h2
  h3 = h3
  h4 = h4
  a1 = a1
  a2 = a2
  b1 = b1
  c1 = c1
  d1 = d1
  x = x
  y = y
  z = z
  w = w
  q = q
  NoTarget = NoTarget
  NoApp = NoApp
  Volume <- MCVolume
  Size <- MCSize
  VolumeOf <- MCVolumeOf
  OtherLevels <- MCOtherLevels
  FreeSpacePercent = 5
  Watermark = 80
  HashOf <- MCHashOf
  AppsOf <- MCAppsOf
  Hash <- MCHash
  CommitSize <- MCCommitSize
  HasDelta <- MCHasDelta
  App <- MCApp
  Archive <- MCArchive
  Blob <- MCBlob
  LayersOf <- MCLayersOf
  BlobSize <- MCBlobSize
  BlobUsage <- MCBlobUsage
  Meta <- MCMeta
  Remotes = 2
  Target <- MCTarget
  Width = 6
  Failures = {"pull", "delta", "stat", "volume_id"}
  MaxFailures = 1
  MaxCrashes = 1
  MaxPublish = 1
  MaxOther = 1
INVARIANT TypeOK
PROPERTY CheckedAppFits
 
CHECK_DEADLOCK FALSE
