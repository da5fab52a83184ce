SPECIFICATION Spec
CONSTANTS
  Probes = {p1, p2}
  IPs = {a}
  NoIP = noip
  Settings <- FloodOnly
  Rules <- LongWindow
  Period = 2
  Retention = 1
  MaxTime = 3
SYMMETRY Symmetry
INVARIANTS TiersFire
