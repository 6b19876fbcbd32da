CONSTANTS
  a = a
  b = b
  Property <- Files3
  Name = {a, b}
  Data = {x, y}
  None = None
  MaxEdits = 1
  MaxFaults = 0
SPECIFICATION Spec
PROPERTIES
  RestartOnlyForEdits
