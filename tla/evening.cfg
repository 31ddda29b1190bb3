SPECIFICATION EveningSpec
CONSTANTS
  b1 = b1 b2 = b2 t1 = t1 s1 = s1 s2 = s2
  NoBet = NoBet
  BetIds = {b1, b2}
  Tellers = {t1}
  Sessions = {s1, s2}
  Stakes = {10000}
  CashAmounts = {10000}
  Rates = {1000}
  MaxFights = 2
  MaxCashRows = 1
  MaxResets = 1
SYMMETRY Symmetry
INVARIANTS ResetTypeOK FightRowCoherent PaymentIsCurrent
PROPERTIES CarefulIsBook ClosedHouseLosesNothing
CHECK_DEADLOCK FALSE
