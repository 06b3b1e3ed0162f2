----------------------------- MODULE MCRebalance -----------------------------
\* Two executions and two slots.  A snapshot with scores is followed by one
\* without, so that a plan preserves the launch's weights, the merit plan's, or
\* what a rebalance that died left of both.
EXTENDS Rebalance, TLC

Launch == <<5, 5>>
Merits == {<<7, 3>>}

Symmetry == Permutations(Runs)

=============================================================================
