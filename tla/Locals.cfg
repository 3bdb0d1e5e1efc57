CONSTANTS
  Loops <- MCLoops
  Lengths = {0, 3}
  Rounds = 2
  Lanes = 2
SPECIFICATION Spec
INVARIANT SameOutcome
