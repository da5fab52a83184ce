SPECIFICATION Spec
CONSTANTS
  Probes = {p1, p2, p3}
  IPs = {a}
  NoIP = noip
  Settings <- StrictOnly
  Rules <- TempRules
  Period = 2
  Retention = 1
  MaxTime = 2
SYMMETRY Symmetry
INVARIANTS WhitelistedNotCharged
