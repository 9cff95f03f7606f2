\* One process with room for one call, whose offer is delivered three times: the
\* handlers are scheduled fairly, so the offer is settled.
CONSTANTS
  Runtimes = {r1}
  Calls = {c1}
  NoOwner = NoOwner
  MaxOffers = 3
  Capacity = 1
  Faults = {"deny"}
SPECIFICATION FairSpec
PROPERTY OfferedCallIsSettled
