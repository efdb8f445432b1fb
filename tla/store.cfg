SPECIFICATION FairSpec
CONSTANTS
  a1 = a1
  a2 = a2
  b1 = b1
  nA = nA
  nB = nB
  i1 = i1
  i2 = i2
  m1 = m1
  m2 = m2
  c1 = c1
  c2 = c2
  l1 = l1
  l2 = l2
  NoUri = NoUri
  NoImage = NoImage
  Uri <- MCUri
  Name <- MCName
  Image <- MCImage
  Blob <- MCBlob
  NameOf <- MCNameOf
  ImagesOf <- MCImagesOf
  ManifestOf <- MCManifestOf
  ConfigOf <- MCConfigOf
  LayersOf <- MCLayersOf
  Targets <- MCTargets
  Breakable = {"manifest", "archive", "compose", "index", "image manifest", "config", "layer"}
  Failures = {"download", "compose", "docker"}
  MaxFailures = 2
  MaxCrashes = 1
  MaxPublish = 1
INVARIANT TypeOK
INVARIANT StoreIsExact
PROPERTY PruneKeepsTarget
PROPERTY StoreHeals
