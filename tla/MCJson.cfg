\* Every document of up to two words and many of three, in every order of calls.
SPECIFICATION JsonSpec
CONSTANTS
  Docs <- MCDocs
  Keys <- MCKeys
INVARIANTS TypeOK StaysInText
PROPERTY ReadsTokens
