SPECIFICATION Spec
CONSTANTS
  NoHash = NoHash
  h0 = h0 h1 = h1
  a1 = a1 a2 = a2 b1 = b1
  Hash = {h0, h1}
  Uri = {a1, a2, b1}
  MaxVersion = 2
  HashOf <- MCHashOf2
  AppsOf <- MCAppsOf2
  AppName <- MCAppName
  FactoryHash = h0
  FactoryApps = {a1}
  AutoDowngrade = FALSE
  CreateContainersBeforeReboot = FALSE
  StopAppsBeforeUpdate = FALSE
  Commands = {"check", "update", "pull", "install", "run", "rollback"}
  Failures = {"download", "deploy", "boot", "app", "image"}
  MaxFailures = 1
  MaxCrashes = 1
  MaxPublish = 1
  MaxCommands = 2
INVARIANT OkMeansAppsRun
INVARIANT RollbackOkUndeploys
CHECK_DEADLOCK TRUE
