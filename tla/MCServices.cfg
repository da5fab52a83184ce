SPECIFICATION Spec
CONSTANTS
  x = x
  y = y
  yport = yport
  Star = star
  NoLabel = nolabel
  Label <- MCLabel
  PortLabel <- MCPortLabel
  Names = {1, 2}
  Globs <- MCGlobs
  Users = {u, v}
  NoUser = nouser
  Hosts <- MCHosts
  Origins <- MCOrigins
  NoOrigin = noorigin
  BadOrigin = badorigin
INVARIANTS TypeOK LoadIsOrderless OkIsForItsHost OverlapsWarned OverlapsExplained
CHECK_DEADLOCK FALSE
