SPECIFICATION Spec
CONSTANTS
  Probes = {p1, p2, p3}
  IPs = {a}
  NoIP = noip
  Settings <- WhitelistOnly
  Rules <- TempRules
  Period = 3
  Retention = 1
  MaxTime = 2
SYMMETRY Symmetry
PROPERTIES RenewalKeepsCover
