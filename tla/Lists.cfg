CONSTANTS
  None = None
  a0 = a0
  b0 = b0
  a1 = a1
  a2 = a2
  Lists = {l1, l2}
  Elements = {a0, b0, a1}
  MoreElements = {a0, b0, a1, a2}
  Keys = {0, 1, 2}
  KeyOf <- MCKeyOf
  Nbuckets = 2
  Values = {v1, v2}
  Threads = {1, 2}
  Ptrs <- MCPtrs
  OwnerOf <- MCOwner
  InitSize = 2
  Num = 3
  Den = 2
  MaxItems = 6
SPECIFICATION SpecLists
SYMMETRY Symmetric
VIEW StructureLists
INVARIANTS
  ChainsSound
  BucketsSound
  CountsRight
PROPERTIES
  Deques
  KeepsOrder
  LastInFirstOut
