SPECIFICATION FairSpec
CONSTANTS
  QueueDepth = 4
  Budgets <- MCBudgets
INVARIANTS
  TypeOK
  RadioExclusive
  ApShown
  ActivityShown
PROPERTIES
  ScreensEnd
  WebScanComesBack
  LearnEnds
  ApEnds
\* a failed scan leaves the screen in SCANNING, where nothing but a command on the console moves it
CHECK_DEADLOCK FALSE
