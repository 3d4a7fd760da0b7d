SPECIFICATION Spec
CONSTANTS
  NbThreads = 3
  FifoSizeByCore = 5
  Sizes = {2, 3, 7}
INVARIANTS RingConsistent CountsReaders OldestWanted
PROPERTY ImplementsShared
