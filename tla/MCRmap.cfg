\* Eight units; at most two free runs fit the array, so that some get lost.
CONSTANTS
  N = 8
  MAPSIZ = 4
  Sizes = {1, 2, 3}
SPECIFICATION Spec
INVARIANTS
  MapCanonical
  WaitersBlocked
PROPERTIES
  PoolSpec
