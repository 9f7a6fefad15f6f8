SPECIFICATION Spec
CONSTANT Area = 3
INVARIANTS
  HashIsOfPosition
  CountsAreOfCells
PROPERTIES
  ImplementsPositionStack
