--------------------------- MODULE MCNodeDispatch ---------------------------
EXTENDS NodeDispatch, TLC

CONSTANTS r1, r2
Perms == Permutations(Requests)

=============================================================================
