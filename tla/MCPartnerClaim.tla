--------------------------- MODULE MCPartnerClaim ---------------------------
\* Three executions of two attempts: a retry beside a late first try, and the
\* console beside the cron job.
EXTENDS PartnerClaim, TLC

\* Bound: the second lamport is earned where one execution has not begun, so
\* that the claims which may both move fees are those of the other two.
Apart == claimed + unclaimed < MaxFees \/ \E r \in Runs : at[r] = "idle"

ApartSpec == Init /\ [][Next /\ Apart']_vars

Symmetry == Permutations(Runs) \cup Permutations(Keys)

=============================================================================
