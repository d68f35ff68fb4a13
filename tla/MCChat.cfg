CONSTANTS
  c1 = c1
  c2 = c2
  c3 = c3
  ann = ann
  bob = bob
  Clients = {c1, c2, c3}
  NameOf <- MCNameOf
  All = All
  Mangled = bob
  Nobody = Nobody
  MAX_CLIENTS = 2
  BufSize = 2
  InRoom = 4
  OutRoom = 1
  Lines <- MCLines
  MaxTyped = 2
SPECIFICATION Spec
CHECK_DEADLOCK FALSE
SYMMETRY MCSymmetry
INVARIANTS
  TableOK
  FramingExact
  PrivateStaysPrivate
PROPERTIES
  RoundServesAll
