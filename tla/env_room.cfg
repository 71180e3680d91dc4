SPECIFICATION Spec
CONSTANTS
  Clients = {c1}
  Names <- ThreeNames
  Values <- OneValue
  MaxBytes = 16
INVARIANT RoomIsEnough
