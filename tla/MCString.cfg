\* Short paths and lines, an arena of five bytes, and a program that is careful.
CONSTANTS
  Names = {x, y}
  Texts <- MCTexts
  Formats <- MCFormats
  Room = 5
  U16 = 16
  MAXLEN = 3
  Dumps = {1, 16, 848, 849, 850, 2000}
  DUMP = 4096
  EOVERFLOW = TRUE
  Careless = {}
SPECIFICATION Spec
INVARIANTS ViewsHold CstrsHold TextLaws ScanMatches
SYMMETRY MCSymmetry
