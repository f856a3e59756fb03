SPECIFICATION Spec
CONSTANTS
  r1 = r1
  r2 = r2
  ann = ann
  cat = cat
  good = good
  alone = alone
  handout = handout
  tag = tag
  b1 = b1
  b2 = b2
  d1 = d1
  d2 = d2
  Nothing = Nothing
  Requests = {r1, r2}
  Asks <- MCAsks
  ClaimsOf <- MCClaimsOf
  Files = {handout}
  Refs = {tag}
  Blobs = {b1, b2}
  Sha <- MCSha
  Digests = {d1, d2}
  TracingOn = TRUE
INVARIANTS TypeOK ServesWhatWasNamed LoggedAsAnswered
