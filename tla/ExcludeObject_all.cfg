\* Every command with the motion grid X, Z, E in {0, 1}: one object, whose
\* second definition reaches MAX_OBJECTS_NUM, and an overrun at the first
\* excluded END.
CONSTANTS
  Names = {a}
  None = None
  XPos <- MCBinary
  YPos <- MCOrigin
  ZPos <- MCBinary
  EPos <- MCBinary
  MAX_OBJECTS_NUM = 1
  OBJECT_START_DIFF = 0
  InitialExtrusionMoves = 1
  MaxOffset = 1
  MaxEndCount = 1
SPECIFICATION Spec
INVARIANT TypeOK
INVARIANT NoResidualOffset
INVARIANT ExcludedPersisted
