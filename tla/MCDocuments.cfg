CONSTANTS
  r1 = r1
  r2 = r2
  r3 = r3
  Requests <- MCRequests
  Kinds <- MCKinds
SPECIFICATION Spec
SYMMETRY Symmetry
INVARIANTS
  TypeOK
  UnderwayIsHeld
  OneComputation
PROPERTIES
  StatusChangeJustified
\* a document ends when it is deleted and no request is left
CHECK_DEADLOCK FALSE
