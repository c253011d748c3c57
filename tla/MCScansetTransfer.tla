------------------------- MODULE MCScansetTransfer -------------------------
\* Values for the constants of ScansetTransfer.
EXTENDS ScansetTransfer

\* Longer and shorter scansets in turn, some longer than the brain's buffer.
Lengths == [k \in 1 .. MaxScans |-> CASE k % 3 = 1 -> ArmBlocks [] k % 3 = 2 -> 1 [] OTHER -> Cap]
=============================================================================
