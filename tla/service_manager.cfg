SPECIFICATION Spec
CONSTANTS
  Clients = {c1, c2, c3}
  LongValues <- MCLongValues
  ShortNames = {"", "s"}
  Details <- MCDetails
SYMMETRY Symmetry
INVARIANTS
  TypeOK
  DeletedIsReleased
PROPERTY CreatedAsAsked
