SPECIFICATION ClientSpec
CONSTANTS
  b1 = b1 b2 = b2 b3 = b3 t1 = t1
  BetIds = {b1, b2, b3}
  Tellers = {t1}
  NoBet = NoBet
  Stakes = {10000}
  CashAmounts = {20000}
  Rates = {1000}
  MaxFights = 3
  MaxCashRows = 0
  Lists = {"bets", "fights"}
  Filters <- MCFilters
  Limits = {1, 2}
SYMMETRY Symmetry
INVARIANTS WalkIsComplete LiveFightIsShown
CHECK_DEADLOCK FALSE
