--------------------------- MODULE MCAdminAction ---------------------------
\* Four calls beside each other: a request and an approval, two approvals, an
\* approval that is resumed, or a request renewed while the row is executed.
EXTENDS AdminAction, TLC

Symmetry == Permutations(Calls)

=============================================================================
