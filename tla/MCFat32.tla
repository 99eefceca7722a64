------------------------------ MODULE MCFat32 -------------------------------
EXTENDS Fat32

\* Names are only compared.
Renamings == Permutations(Names)

\* Nothing is claimed after a refused entry write that reached the disk: its
\* successors (a directory's entry that names a file's cluster) are not explored.
Untorn == "torn" \notin lapses

\* Two faults of either kind at most: the power fails twice, or once after or
\* before a refused write.
TwoFaults == crashes + errors <= 2
=============================================================================
