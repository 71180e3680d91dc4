SPECIFICATION Spec
CONSTANTS
  Clients = {c1, c2}
  Names <- TwoNames
  Values <- OneOrEmpty
  MaxBytes = 12
SYMMETRY AnyClient
INVARIANTS
  TypeOK
  EntriesUncut
  NamesUnique
PROPERTY WriteUpdatesOne
