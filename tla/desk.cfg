SPECIFICATION DaySpec
CONSTANTS
  b1 = b1 b2 = b2 t1 = t1 h1 = h1 h2 = h2 c1 = c1 c2 = c2
  BetIds = {b1, b2}
  Tellers = {t1}
  NoBet = NoBet
  Stakes = {10000}
  CashAmounts = {10000}
  Rates = {1000}
  MaxFights = 1
  MaxCashRows = 1
  Handlers = {h1, h2}
  Request <- Requests
  Codes = {c1, c2}
  NamesColumns = {TRUE, FALSE}
INVARIANTS AnswersAreTrue LedgerMatchesTickets
PROPERTIES PaidIsReplayed DoneIsReplayed RetriesEnd
CHECK_DEADLOCK FALSE
