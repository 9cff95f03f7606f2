\* Two processes and one call whose offer each of them may see twice; heartbeats that
\* lapse make the processes disagree, and the reconciler takes calls for abandoned.
CONSTANTS
  Runtimes = {r1, r2}
  Calls = {c1}
  NoOwner = NoOwner
  MaxOffers = 2
  Capacity = 1
  Faults = {"lapse", "reconcile"}
SYMMETRY RuntimeSymmetry
SPECIFICATION Spec
INVARIANT ExclusiveTask
INVARIANT ActivatedCallIsNotLeft
