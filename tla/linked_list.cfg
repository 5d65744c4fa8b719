\* Up to four nodes; every way of adding and removing.
SPECIFICATION Spec
CONSTANTS
  Addrs = {n1, n2, n3, n4}
  Null = Null
  Data = {"x", "y"}
INVARIANT ChainSound
PROPERTY ImplementsSequence
