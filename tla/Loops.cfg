CONSTANTS
  SliceNames = {"a", "b", "c"}
  TempNames = {"t"}
  AccNames = {"s", "r", "q"}
  NoSlice = NoSlice
  Fns <- MCFns
  FoldOps = {"add", "min"}
  MaxArity = 2
  MaxInt = 20
  NoLanes = NoLanes
  MinTrip = 3
  MinReduceVectors = 2
  MaxLanes = 4
  MaxSlices = 8
  FloatReassoc = TRUE
  ExtremeOps = {"min"}
  Lanes = 2
  MemSize = 24
  Zero = 0
  Value <- MCValue
  Mem0 <- MCMem0
  Acc0 <- MCAcc0
  Apply <- MCApply
  Holds <- MCHolds
  Fold <- MCFold
  Identity <- MCIdentity
  Jobs <- MCJobs
SPECIFICATION FairSpec
INVARIANTS
  TypeOK
  ShortSliceWritesNothing
  ScalarPrefix
  FoldedOnce
  OperandsApart
  HeldCurrent
PROPERTIES
  StoresInTrip
  KeepsContract
  Terminates
