SPECIFICATION Spec
CONSTANTS
  HeapSize = 14
  Granule = 2
  IntSize = 1
  Sizes <- SmallSizes
INVARIANTS
  TypeOK
  Tiled
  Coalesced
PROPERTIES
  Allocates
