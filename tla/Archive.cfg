CONSTANTS
  Budgets <- MCBudgets
  Names = {"home"}
  MaxCopies = 2
  MaxFails = 2
SPECIFICATION Spec
\* once the bounds are spent, nothing is left to do
CHECK_DEADLOCK FALSE
INVARIANTS TypeOK SavedKept OneSessionPerFile MetaTrue LiveKept ArchiveOn
