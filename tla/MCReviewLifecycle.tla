-------------------------- MODULE MCReviewLifecycle --------------------------
EXTENDS ReviewLifecycle, TLC

Symmetry ==
  UNION {Permutations(S) : S \in {Sessions, TaskIds, Branches, Trees}}
=============================================================================
