SPECIFICATION Spec
CONSTANTS
  StackSize = 16
  ParamStackSize = 8
  MaxForLoops = 0
  Main = "main"
  Funcs = {"on_can"}
  Params <- EventParams
  Locals <- EventParams
  Valued = {}
  Handler = "on_can"
  XFuncs = {"fire_on_can"}
  XArgs <- EventXArgs
  XValued = {}
  Fire = "fire_on_can"
  Values = {0}
  Stale = Stale
  MaxTemps = 1
  MaxArgs = 4
  Habits = {"event"}
INVARIANT ParamsCounted
