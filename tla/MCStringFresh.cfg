\* Str8__scan into a Str8 that was used before.
CONSTANTS
  Names = {x, y}
  Texts <- MCTexts
  Formats <- MCFormats
  Room = 5
  U16 = 16
  MAXLEN = 3
  Dumps = {1, 16, 848, 849, 850, 2000}
  DUMP = 4096
  EOVERFLOW = TRUE
  Careless = {"fresh"}
SPECIFICATION Spec
INVARIANTS ViewsHold
SYMMETRY MCSymmetry
