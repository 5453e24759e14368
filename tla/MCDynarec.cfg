SPECIFICATION MCFairSpec
CONSTANTS
  Size = 8
  Step = 2
  Final = 4
  Values <- MCValues
  Program <- MCProgram
  Writes <- MCWrites
  Vector = 0
  Limit = 7
INVARIANTS CacheSound WordsAgree BlocksFaithful
PROPERTIES LookupEnds
\* a processor sent into a dropped block is lost
CHECK_DEADLOCK FALSE
