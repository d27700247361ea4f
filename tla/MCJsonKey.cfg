\* Keys that begin with the one that is asked for.
SPECIFICATION JsonSpec
CONSTANTS
  Docs <- MCObjects
  Keys <- MCKeys
INVARIANT KeyMatches
