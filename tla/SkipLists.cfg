CONSTANTS
  one = one
  two = two
  v1 = v1
  v2 = v2
  None = None
SPECIFICATION SpecLists
SYMMETRY Symmetric
VIEW StructureLists
INVARIANTS
  Towers
  NoNodeLost
  Queries
  KeysOnce
  NoKeyLeaks
PROPERTIES
  Multimap
  ActsAsSet
