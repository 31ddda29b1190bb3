SPECIFICATION OfficeSpec
CONSTANTS
  admin = admin boss = boss tina = tina super = super
  p0 = p0 p1 = p1 weak = weak
  k1 = k1 k2 = k2 c1 = c1 c2 = c2 g1 = g1 g2 = g2
  SuperAdmin = super
  SeededAdmin = admin
  SuperPassword = p0
  SeedPassword = p1
  Normal <- Normally
  Badges = {g1, g2}
  Usernames = {admin, boss, tina, super}
  Passwords = {p0, p1, weak}
  WeakPasswords = {weak}
  Collectors = {k1, k2}
  RawNames = {"name", "typed", "other"}
  Calls = {c1, c2}
  Starting <- Staff
  MaxEntries = 1
INVARIANTS CollectorsDiffer
PROPERTIES AdminRestored
CHECK_DEADLOCK FALSE
