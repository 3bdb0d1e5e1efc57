CONSTANTS
  Headers <- MCHeaders
  Constants = {"w"}
  Variables = {"n"}
  Builds <- SmallAndLarge
  Here <- Three
  Values <- MCValues
  MaxLen = 4
  Width = 5
  Lanes = 2
  MaxOffset = 4
  Least = 2
SPECIFICATION FairSpec
INVARIANTS
  SameIndexes
PROPERTIES
  EmittedEnds
