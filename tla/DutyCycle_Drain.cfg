CONSTANTS
  HistoryCap = 4
  Window = 4
  Budget = 3
  Toas = {1, 2}
  DrainLimit = 2
  ClockMod = 10
SPECIFICATION Spec
INVARIANTS BudgetKept
