CONSTANTS
  Locators = {l1, l2}
  Arts = {g, h}
  Vintages <- Mixed
  Delay = 1
  MaxTime = 1
  MaxRows = 3
  MaxSnaps = 1
SPECIFICATION Spec
PROPERTIES
  PastReproduces
  QuarantineExcludes
SYMMETRY Symmetric
