SPECIFICATION FairSpec
CONSTANTS
  AdvRetryMax = 5
  Baselines = {b1, b2}
  NoBaseline = none
  Periodic = TRUE
INVARIANTS LifecycleTypeOK CountsFollowLink RestartHasConnection FlagCoversAdvertising
PROPERTIES PersistsBaseline ClientsInTurn ReachableAgain
