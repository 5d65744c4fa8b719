\* From 2 buckets to 16 with six keys, two values.
SPECIFICATION Spec
CONSTANTS
  Keys = {"k1", "k2", "k3", "k4", "k5", "k6"}
  Values = {"u", "w"}
  NoValue = NoValue
  Hash <- MCHash
  InitialHmax = 2
INVARIANTS TypeOK TableConsistent
PROPERTIES NoNestedDoubling ImplementsDictionary
