SPECIFICATION Spec
CONSTANTS
  Tickets = {t1, t2, t3}
  Stakes = {10000, 10001, 25033}
  Rates = {1, 1000}
INVARIANTS PayoutsWithinPool DeclarationIsMemoryless
