SPECIFICATION Spec
CONSTANTS
  Probes = {p1, p2, p3}
  IPs = {a, b}
  NoIP = noip
  Settings <- OneOrTheOther
  Rules <- MCRules
  Period = 2
  Retention = 1
  MaxTime = 2
SYMMETRY Symmetry
INVARIANTS TypeOK BanJustified TiersFire GrantTracesToLogin AdmissionIsRecent
PROPERTIES PermanentBanStays BanWeakensOnlyToOlderCleanup BanMissedOnlyOnceReplaced CleanupKeepsWindows
