SPECIFICATION FairSpec
CONSTANTS
  d = d c = c
  t1 = t1 t2 = t2
  Proc <- MCProc
  Daemon = d
  MatchingOf <- MCMatchingOf
  Bundle <- MCBundle
  NoBundle = NoBundle
  Commands = {"check", "list", "install", "offline"}
  Failures = {"fetch"}
  MaxFailures = 1
  MaxKills = 1
  MaxRuns = 2
INVARIANT TypeOK
INVARIANT OneUpdater
 
INVARIANT OfflineOfferIsTrue
INVARIANT StoredMetaIsUsed
PROPERTY MetaCatchesUp
