------------------------- MODULE MCDexscreenerOrder -------------------------
\* Three submissions of the dialog, with one header image or two.
EXTENDS DexscreenerOrder, TLC

Symmetry == Permutations(Visits) \cup Permutations(Images)

=============================================================================
