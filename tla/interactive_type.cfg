SPECIFICATION Spec
CONSTANTS
  Clients = {c1}
  LongValues <- MCLongValues
  ShortNames = {"", "s"}
  Details <- Interactive
INVARIANT DocumentedAccepted
