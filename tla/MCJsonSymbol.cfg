\* Words that differ from a symbol in their last character.
SPECIFICATION JsonSpec
CONSTANTS
  Docs <- MCNearly
  Keys <- MCKeys
INVARIANT SymbolsMatch
