------------------------------- MODULE MCLaunch -------------------------------
\* Overlapping calls of any handlers; the calls are alike.
EXTENDS Launch, TLC

Symmetry == Permutations(Calls)

=============================================================================
