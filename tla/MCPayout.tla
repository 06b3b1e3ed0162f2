------------------------------- MODULE MCPayout -------------------------------
\* Three contributors and four slots: one by id, one by login, one by both, and
\* a wallet's.
EXTENDS Payout, TLC

CONSTANTS ann, bob, cal

Ids == <<ann, Nobody, cal, Nobody>>
Logins == <<Nobody, bob, cal, Nobody>>
Scores == {<<0, 0, 0>>, <<1, 1, 1>>, <<1, 2, 4>>, <<5, 0, 1>>, <<0, 3, 0>>}
Seen == {[p \in People |-> CASE p = ann -> s[1] [] p = bob -> s[2] [] p = cal -> s[3]] : s \in Scores}
Launched == <<0, 2000, 3000, 5000>>

Symmetry == Permutations(Takings)

=============================================================================
