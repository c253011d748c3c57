----------------------------- MODULE MCAppModes -----------------------------
EXTENDS AppModes

MCEvery == Modes   \* every screen
MCFew == {"MAIN", "MENU", "DOWNLOAD_CONFIRM", "ENV_SUMMARY", "PUP", "LEARN_CONFIRM"}
MCLess == {"MAIN", "ENV_SUMMARY", "PUP", "LEARN_CONFIRM"}

Budget(screens, scans, requests, commands, failures, races, early) ==
  [screens |-> screens, scans |-> scans, requests |-> requests, commands |-> commands,
   failures |-> failures, races |-> races, early |-> early, spent |-> {}]

MCBudgets ==
  {Budget(MCEvery, 2, 1, 0, 0, 0, 0), Budget(MCLess, 2, 3, 0, 0, 0, 0), Budget(MCFew, 2, 1, 1, 0, 0, 0),
   Budget(MCLess, 2, 2, 0, 1, 0, 0), Budget(MCFew, 1, 2, 0, 0, 1, 0), Budget(MCFew, 1, 2, 0, 0, 0, 1)}
=============================================================================
