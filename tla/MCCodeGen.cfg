SPECIFICATION Spec
CONSTANTS
  f = f
  g = g
  Funcs = {f, g}
  MaxBreaks = 2
  MaxFwDecls = 2
  MaxCases = 3
  MaxTokens = 8
SYMMETRY Names
INVARIANTS
  TypeOK
  BreaksLeave
  BlocksMeant
  CallsArrive
  ReturnsUnwind
  RefusedForCause
