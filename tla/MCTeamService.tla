--------------------------- MODULE MCTeamService ---------------------------
EXTENDS TeamService, TLC

\* Users are interchangeable, and so are the requests of a kind.
Symmetry ==
  Permutations(Users) \cup Permutations(CreateReqs)
    \cup Permutations(InviteReqs)

=============================================================================
