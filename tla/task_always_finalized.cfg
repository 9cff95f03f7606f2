\* A shutdown, and nothing else, around one call task.  The task ends.
CONSTANTS
  Runtimes = {self}
  NoOwner = NoOwner
  Self = self
  Faults = {"shutdown"}
SPECIFICATION Spec
INVARIANT AlwaysFinalized
CHECK_DEADLOCK FALSE
