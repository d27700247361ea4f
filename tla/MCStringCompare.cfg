\* Str8__cmp of a literal whose length nobody has worked out.
CONSTANTS
  Names = {x, y}
  Texts <- MCTexts
  Formats <- MCFormats
  Room = 5
  U16 = 16
  MAXLEN = 3
  Dumps = {1, 16, 848, 849, 850, 2000}
  DUMP = 4096
  EOVERFLOW = TRUE
  Careless = {"deferred"}
SPECIFICATION Spec
INVARIANTS TextLaws
SYMMETRY MCSymmetry
