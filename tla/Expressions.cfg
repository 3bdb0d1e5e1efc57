CONSTANTS
  Bodies <- MCBodies
  ElemOf <- MCElemOf
  TypeOfVar <- MCTypeOfVar
  Temps = {"t"}
SPECIFICATION Spec
INVARIANTS
  SameValues
  Compiles
