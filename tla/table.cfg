CONSTANTS
  Keys <- MCKeys
  ValuesOf <- MCValues
  Hash <- MCHash
  ArraySizes = {3}
SPECIFICATION Spec
INVARIANTS Brent LengthIsBorder
PROPERTIES ImplementsDictionary Traverses
