CONSTANTS
  Collates <- LexLess
  KeySets <- MCKeySets
SPECIFICATION Spec
INVARIANTS NoKeyLost ScansInBounds KeepsPromise
PROPERTY Terminates
