---------------------------- MODULE MCScanWindow ----------------------------
\* Values for the constants of ScanWindow.
EXTENDS ScanWindow

\* do_merge: for (int ai = 0; ai < 2; ai++).
FirstTwo == {a \in Arms : a < 2}

\* The same with a pool of one arm.
FirstOne == {0}

\* Every arm is powered on once; the first arm restarts once.
OneEach    == [a \in Arms |-> 1]
FirstTwice == [a \in Arms |-> IF a = 0 THEN 2 ELSE 1]
=============================================================================
