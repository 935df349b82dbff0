SPECIFICATION Spec
CONSTANTS
  WordBits = 16
  HalfBits = 9
  Nil = Nil
  Garbage = {0, 8, 10, 122, 123, 125, 128, 255}
  MaxGarbage = 4
INVARIANTS SizeIsExact RoundTrip NoPartOfAField InBounds
PROPERTIES AlwaysAdvances
