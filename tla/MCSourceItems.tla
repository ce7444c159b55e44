--------------------------- MODULE MCSourceItems ---------------------------
\* SourceItems for TLC: one message of a labelled Gmail source, and one that
\* may be a paste.
EXTENDS SourceItems, TLC

CONSTANTS r1, r2, q1, q2, i1, i2

Symmetry == Permutations({r1, r2}) \cup Permutations({q1, q2})

=============================================================================
