SPECIFICATION Spec
CONSTANTS
  Names = {x, y, z, f}
  NoName = NoName
  NumSym = 5
  MaxParams = 2
  Habits = {"forward"}
SYMMETRY MCSymmetry
INVARIANT IndexesDistinct
