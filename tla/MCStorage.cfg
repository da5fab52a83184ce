SPECIFICATION FairSpec
CONSTANTS
  WhitelistEnabled = TRUE
  FloodEnabled = TRUE
  MaxInflight = 1
  MaxChanges = 2
  MaxFailures = 2
  MaxCrashes = 1
INVARIANTS TypeOK CleanMeansSaved NothingLostAtExit LoopsEndBeforeExit LitterIsFromFaults
PROPERTIES BundlesAreDurable OnlyLateChangesLost ChangesReachDisk ShutdownEnds
