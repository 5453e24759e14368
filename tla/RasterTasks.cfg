SPECIFICATION FairSpec
CONSTANTS
  N = 3
  MaxFrame = 3
INVARIANTS FramesWhole
PROPERTIES CallsEnd ImplementsForkJoin
