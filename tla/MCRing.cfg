\* Arrays of one to five slots; two items tell any order of four from any other.
SPECIFICATION Spec
CONSTANTS
  Items = {a, b}
  None = none
  a = a
  b = b
  none = none
  MaxCap = 5
INVARIANT TypeOK
PROPERTY IsBoundedQueue
