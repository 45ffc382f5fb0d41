SPECIFICATION Spec
CONSTANTS
  Results <- WinsAndLosses
  InitialBalance = 10
  MaxConsecutiveLosses = 2
  DailyLoss = 2
  MaxTrades = 2
  MaxJournal = 3
CONSTRAINT FewMishaps
INVARIANTS
  BooksSurviveRestart
  SavedIsKept
