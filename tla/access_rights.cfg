SPECIFICATION Spec
CONSTANTS
  Clients = {c1, c2}
  Accounts <- MCAccounts
  LocalDomain = "PC"
  Names <- MCNames
  Masks <- MCMasks
  Default <- MCDefault
SYMMETRY Symmetry
INVARIANTS
  TypeOK
  OthersKept
  InfosTellTheList
PROPERTIES
  ListSpec
  ChangeIsExact
