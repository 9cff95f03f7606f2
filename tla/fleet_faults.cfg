\* Two processes and one call under every fault at once: crashes, shutdowns, raising
\* calls, refusals, denials, lapsing heartbeats and the reconciler.  The processes may
\* all be gone at the end.
CONSTANTS
  Runtimes = {r1, r2}
  Calls = {c1}
  NoOwner = NoOwner
  MaxOffers = 1
  Capacity = 1
  Faults = {"lapse", "error", "crash", "shutdown", "deny", "refuse", "reconcile"}
SYMMETRY RuntimeSymmetry
SPECIFICATION Spec
INVARIANT OwnershipInvariant
PROPERTY ImplementsOwnership
PROPERTY HostedCallsKeepContract
CHECK_DEADLOCK FALSE
