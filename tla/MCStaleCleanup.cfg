SPECIFICATION Spec
CONSTANTS
  Probes = {p1, p2}
  IPs = {a}
  NoIP = noip
  Settings <- FloodOnly
  Rules <- TempRules
  Period = 2
  Retention = 1
  MaxTime = 2
SYMMETRY Symmetry
PROPERTIES OnlyExpiredBansRemoved
