---------------------------- MODULE MCLeaderboard ----------------------------
\* Two people and an agent; ann has a past before the window, the repository is
\* bob's.
EXTENDS Leaderboard

CONSTANTS ann, bob, agent

Past == [p \in People |-> IF p = ann THEN 2 ELSE 0]

\* Bound: the agent turns up only where no run fails and nobody refreshes.
Apart == upsets = 0 \/ Of(agent, activity) = {}

\* FairSpec with this bound, which stops no step that is fair.
ApartSpec ==
    /\ Init /\ [][Next /\ Apart']_vars
    /\ WF_vars(IndexStep)
    /\ \A k \in Computes : WF_vars(ComputeStep(k))

=============================================================================
