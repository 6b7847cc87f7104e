SPECIFICATION Spec
CONSTANTS
  Names = {x, y, z, f}
  NoName = NoName
  NumSym = 5
  MaxParams = 2
  Habits = {}
SYMMETRY MCSymmetry
INVARIANTS TypeOK IndexesCounted IndexesDistinct FrameOK OneMeaning
PROPERTY GlobalsStay
