SPECIFICATION EveningSpec
CONSTANTS
  b1 = b1 b2 = b2 t1 = t1 t2 = t2
  BetIds = {b1, b2}
  Tellers = {t1, t2}
  NoBet = NoBet
  Stakes = {25033}
  CashAmounts = {50066}
  Rates = {1375}
  MaxFights = 2
  MaxCashRows = 1
  MaxAnswers = 2
SYMMETRY Symmetry
INVARIANTS TypeOK LedgerIsCash LedgerMatchesTickets PoolsMatchStakes
INVARIANTS KiosksInSync DashboardInSync LeaderboardInSync HalfIsWithheld
CHECK_DEADLOCK FALSE
