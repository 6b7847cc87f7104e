SPECIFICATION Spec
CONSTANTS
  s1 = s1
  s2 = s2
  Vars = {s1, s2}
  c1 = c1
  c2 = c2
  Chunks = {c1, c2}
  Chars = {"a"}
  MaxLen = 2
  Literals <- MCLiterals
  Made <- MCMade
  MaxOperands = 2
  MaxDepth = 1
  Habits = {"argument"}
SYMMETRY Renamings
PROPERTY Implements
