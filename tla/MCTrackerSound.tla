--------------------------- MODULE MCTrackerSound ---------------------------
\* Values for the constants of TrackerSound.
EXTENDS TrackerSound, TLC

CONSTANTS t1, t2, web, console

TwoTrackers == {t1, t2}
TwoCallers  == {web, console}
=============================================================================
