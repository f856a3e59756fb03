SPECIFICATION CatalogSpec
CONSTANTS
  t1 = t1
  t2 = t2
  t3 = t3
  decaying = decaying
  flat = flat
  v1 = v1
  NoTeam = NoTeam
  Readers = {v1}
  TeamOf <- MCTeamOf
  Teams <- MCTeams
  Challenges <- MCChallenges
  SchemeOf <- MCSchemeOf
  NameOrder <- MCNameOrder
  CreatedAt <- MCCreatedAt
INVARIANTS RankingIsTotal ViewMakesSense
PROPERTIES SolveNeverDemotes
CHECK_DEADLOCK FALSE
CONSTRAINT FewSolves
