--------------------------- MODULE MCIdempotency ---------------------------
\* Four calls over two keys: enough for an author, a replay, a second author
\* and a call under the other key, with every policy on each key.
EXTENDS Idempotency, TLC

Symmetry == Permutations(Calls) \cup Permutations(Keys)

=============================================================================
