SPECIFICATION Spec
CONSTANTS
  red = red
  ann = ann
  bob = bob
  pwn = pwn
  web = web
  a1 = a1
  a2 = a2
  b1 = b1
  NoTeam = NoTeam
  Teams = {red}
  Users = {ann, bob}
  Challenges = {pwn}
  Mode <- MCMode
  Shared <- MCShared
  DestroyOnFlag <- MCDestroy
  Asks = {a1, b1}
  Claims <- MCClaims
  MaxInstances = 3
PROPERTY LiveInstanceKept
CHECK_DEADLOCK FALSE
