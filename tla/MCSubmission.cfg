SPECIFICATION Spec
CONSTANTS
  red = red
  blue = blue
  ann = ann
  bob = bob
  eve = eve
  static = static
  dynamic = dynamic
  r1 = r1
  r2 = r2
  r3 = r3
  NoTeam = NoTeam
  Teams <- MCTeams
  Users <- MCUsers
  Challenges <- MCChallenges
  Mode <- MCMode
  Shared <- MCShared
  DestroyOnFlag <- MCDestroy
  SchemeOf <- MCSchemeOf
  Requests = {r1, r2}
  Calls <- MCCalls
  MaxInstances = 2
INVARIANTS TypeOK SolveBacked AnnouncedOnce PaidAnswerOnce NeverUnderpaid OwnInstanceOnly
PROPERTIES ImplementsLedger
SYMMETRY Symmetry
CHECK_DEADLOCK FALSE
CONSTRAINT NoExpiry
