SPECIFICATION ReturningSpec
CONSTANTS
  b1 = b1 b2 = b2 t1 = t1 s1 = s1 s2 = s2
  BetIds = {b1}
  Tellers = {t1}
  NoBet = NoBet
  Stakes = {10000}
  CashAmounts = {10000}
  Rates = {1000}
  MaxFights = 1
  MaxCashRows = 0
  Sessions = {s1, s2}
SYMMETRY Symmetry
PROPERTIES RevertOnlyBeforeCash
CHECK_DEADLOCK FALSE
