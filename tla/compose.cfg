SPECIFICATION FairSpec
CONSTANTS
  a1 = a1
  a2 = a2
  Uri <- MCUri
  NoUri = NoUri
  Sessions = {"update", "pull", "install", "remove"}
  Failures = {"download", "compose", "inspect", "state_file", "other_app"}
  MaxFailures = 2
  MaxCrashes = 1
  MaxSessions = 3
INVARIANT TypeOK
INVARIANT RunOkMeansStarted
INVARIANT HealthyIsCurrent
PROPERTY CurrentAppComesBack
CHECK_DEADLOCK FALSE
