SPECIFICATION Spec
CONSTANTS
  Boards <- TimelyBoards
INVARIANTS
  PllWithinSpec
