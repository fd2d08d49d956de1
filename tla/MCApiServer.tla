---------------------------- MODULE MCApiServer ----------------------------
\* Instances of ApiServer for TLC: who people are, and what they may do, makes no difference.
EXTENDS ApiServer, TLC

PeopleSymmetry == Permutations(UserIds) \cup Permutations(Subjects) \cup Permutations(Roles)
============================================================================
