SPECIFICATION Spec
CONSTANTS
  Names = {x, y, z, f}
  NoName = NoName
  NumSym = 5
  MaxParams = 2
  Habits = {"newest"}
SYMMETRY MCSymmetry
PROPERTY GlobalsStay
