SPECIFICATION FairSpec
CONSTANTS
  a = a b = b
  a1 = a1 a2 = a2 b1 = b1 b2 = b2
  t1 = t1 t2 = t2 t3 = t3
  Name <- MCName
  Uri <- MCUri
  NoUri = NoUri
  NameOf <- MCNameOf
  Target <- MCTarget
  AppsOf <- MCAppsOf
  Configs <- MCConfigs
  Bundles <- MCBundles
  NoBundle = NoBundle
  First = t1
  FirstConfig <- MCBoth
  Failures = {"download", "app", "docker", "stop", "store"}
  MaxFailures = 1
  MaxKills = 1
  MaxEdits = 1
  MaxPublish = 1
  MaxCommands = 1
INVARIANT TypeOK
INVARIANT InstalledIsStored
INVARIANT OfflineHasContent
PROPERTY AppsFollowConfig
