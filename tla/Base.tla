-------------------------------- MODULE Base --------------------------------
\* What the service modules share: the absent value (a NULL column, a Python
\* None), and Python's sum of a sequence of numbers.
EXTENDS Integers, Sequences

CONSTANT None

Total(s) == LET sums[k \in 0..Len(s)] == IF k = 0 THEN 0 ELSE sums[k - 1] + s[k]
            IN  sums[Len(s)]

=============================================================================
