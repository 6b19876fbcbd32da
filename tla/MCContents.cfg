CONSTANTS
  a = a
  b = b
  Property <- Files3
  Name = {a, b}
  Data = {x, y}
  None = None
  MaxEdits = 3
  MaxFaults = 1
SPECIFICATION Spec
INVARIANTS
  TypeOK
  Startable
  Served
PROPERTIES
  ConfigMapSettles
  QuietIfComplete
