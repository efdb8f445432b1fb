SPECIFICATION FairSpec
CONSTANTS
  NoHash = NoHash
  h0 = h0 h1 = h1
  a1 = a1 a2 = a2 b1 = b1
  Hash = {h0, h1}
  Uri = {a1, a2, b1}
  MaxVersion = 3
  HashOf <- MCHashOf
  AppsOf <- MCAppsOf
  AppName <- MCAppName
  FactoryHash = h0
  FactoryApps = {a1}
  AutoDowngrade = TRUE
  CreateContainersBeforeReboot = TRUE
  StopAppsBeforeUpdate = TRUE
  Commands = {}
  Failures = {"download", "deploy", "boot", "app", "image"}
  MaxFailures = 2
  MaxCrashes = 1
  MaxPublish = 2
  MaxCommands = 0
INVARIANT TypeOK
 
INVARIANT RollbackTargetIsGood
INVARIANT PendingCanComplete
INVARIANT OkMeansAppsRun
INVARIANT RollbackOkUndeploys
INVARIANT DaemonSkipsFailing
INVARIANT CurrentFileFollows
PROPERTY PreviousAppsAreKept
PROPERTY BootsPendingOnly
PROPERTY ImplementsLifecycle
PROPERTY Converges
CHECK_DEADLOCK TRUE
