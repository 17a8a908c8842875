SPECIFICATION Spec
CONSTANTS
  Cmds <- MCCmds
  Junk <- MCJunk
  LineMax = 16
  Block = 16
  MaxAppends = 3
  MaxKills = 1
  MaxCuts = 2
INVARIANTS
  TypeOK
  DamageIsLocal
  KillTearsOnlyLong
  OnlyDamageStopsBoot
PROPERTIES
  LogOnlyGrows
  RefinesCommandLog
CHECK_DEADLOCK FALSE
