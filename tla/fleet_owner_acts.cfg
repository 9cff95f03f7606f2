\* Two processes that only disagree about each other's load.
CONSTANTS
  Runtimes = {r1, r2}
  Calls = {c1}
  NoOwner = NoOwner
  MaxOffers = 1
  Capacity = 1
  Faults = {}
SPECIFICATION Spec
INVARIANT OwnerActs
