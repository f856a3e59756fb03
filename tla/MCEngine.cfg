SPECIFICATION EngineSpec
CONSTANTS
  red = red
  ann = ann
  bob = bob
  pwn = pwn
  r1 = r1
  a1 = a1
  b1 = b1
  NoTeam = NoTeam
  Teams <- MCTeams
  Users <- MCUsers
  Challenges <- MCChallenges
  Mode <- MCMode
  Shared <- MCTogether
  DestroyOnFlag <- MCDestroy
  SchemeOf <- MCSchemeOf
  Asks = {a1, b1}
  Claims <- MCClaims
  Requests = {r1}
  Calls <- MCCalls
  MaxInstances = 2
INVARIANTS EngineTypeOK
PROPERTIES ImplementsSubmission SolvedInstanceReaped SolveAnnounced
CHECK_DEADLOCK FALSE
