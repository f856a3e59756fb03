SPECIFICATION Spec
CONSTANTS
  ann = ann
  bob = bob
  laptop = laptop
  phone = phone
  bobs = bobs
  a1 = a1
  a2 = a2
  b1 = b1
  red = red
  blue = blue
  NoTeam = NoTeam
  NoCookie = NoCookie
  Users = {ann, bob}
  Teams = {red, blue}
  Browsers = {laptop, phone, bobs}
  Tabs = {a1, a2, b1}
  PlayerOf <- MCPlayerOf
  BrowserOf <- MCTwoBrowsers
INVARIANTS TypeOK ClaimWasTrue TeamsAreFounded PlayersHaveTeams
PROPERTY OneTabStays
