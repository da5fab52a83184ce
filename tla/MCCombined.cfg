SPECIFICATION RecoverySpec
CONSTANTS
  Probes = {p1, p2}
  IPs = {a, b}
  NoIP = noip
  Settings <- MCSettings
  Rules <- MCRules
  Period = 1
  Retention = 1
  MaxTime = 1
  MaxFaults = 2
SYMMETRY Symmetry
INVARIANTS RecoveryTypeOK OnePerIP GrantTracesToLogin AdmissionIsRecent BanJustified LoggedTiersFire
PROPERTIES OnlyFaultsShow PermanentBanSurvives
