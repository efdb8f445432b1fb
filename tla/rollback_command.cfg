SPECIFICATION Spec
CONSTANTS
  NoHash = NoHash
  h0 = h0 h1 = h1
  a1 = a1 a2 = a2 b1 = b1
  Hash = {h0, h1}
  Uri = {a1, a2, b1}
  MaxVersion = 3
  HashOf <- MCHashOf
  AppsOf <- MCAppsOf
  AppName <- MCAppName
  FactoryHash = h0
  FactoryApps = {a1}
  AutoDowngrade = TRUE
  CreateContainersBeforeReboot = TRUE
  StopAppsBeforeUpdate = TRUE
  Commands = {"rollback"}
  Failures = {"download", "deploy", "boot", "app", "image"}
  MaxFailures = 0
  MaxCrashes = 0
  MaxPublish = 2
  MaxCommands = 1
INVARIANT RollbackOkRunsApps
CHECK_DEADLOCK TRUE
