SPECIFICATION FairLinkSpec
CONSTANTS
  Commands = {c1, c2}
  MaxLinks = 2
  MaxRefusals = 0
  MaxEvents = 1
  EventRoom = 1
PROPERTY TornLinkIsReplaced
\* The runtime may close the link.
CHECK_DEADLOCK FALSE
