SPECIFICATION Spec
CONSTANTS
  Probes = {p1, p2, p3}
  IPs = {a}
  NoIP = noip
  Settings <- MCSettings
  Rules <- OneStrike
  Period = 1
  Retention = 1
  MaxTime = 1
PROPERTIES BannedStaysOut GatekeeperKept
