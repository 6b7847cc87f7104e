SPECIFICATION Spec
CONSTANTS
  f = f
  g = g
  Funcs = {f, g}
  MaxBreaks = 2
  MaxFwDecls = 2
  MaxCases = 3
  MaxTokens = 4
SYMMETRY Names
INVARIANT ElseBelongs
