SPECIFICATION FairSpec
CONSTANTS
  Probes = {p1, p2}
  IPs = {a, b}
  NoIP = noip
  Settings <- StrictOnly
  Rules <- TempRules
  Period = 2
  Retention = 1
  MaxTime = 2
PROPERTIES ExpiredBanCollected OldFailureForgotten GatekeeperKept
