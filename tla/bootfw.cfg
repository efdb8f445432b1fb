SPECIFICATION FairSpec
CONSTANTS
  h1 = h1
  h2 = h2
  h3 = h3
  Hash <- MCHash
  NoHash = NoHash
  FactoryHash = h1
  FwVersion = {1, 2}
  UpdateSupported = TRUE
  UpdateBlock = TRUE
  RollbackProtection = TRUE
  Failures = {"get_env", "set_env", "boot", "deploy"}
  MaxFailures = 2
  MaxCrashes = 1
  MaxPublish = 2
  MaxUndeploys = 1
INVARIANT TypeOK
INVARIANT BlockedTargetIsUntouched
PROPERTY NoDeployOnTrial
PROPERTY FirmwareNeverGoesBack
PROPERTY UpdateGetsThrough
CHECK_DEADLOCK FALSE
