SPECIFICATION HouseSpec
CONSTANTS
  b1 = b1 b2 = b2 t1 = t1 t2 = t2
  BetIds = {b1, b2}
  Tellers = {t1}
  NoBet = NoBet
  Stakes = {10000, 25033}
  CashAmounts = {60000}
  Rates = {1}
  MaxFights = 2
  MaxCashRows = 1
SYMMETRY Symmetry
INVARIANTS TicketsFollowFight ResultCanBeDeclared FightSolvent OneUnfinishedUnlessReverted
PROPERTIES RevertOnlyBeforeCash CashedIsFinal
CHECK_DEADLOCK FALSE
