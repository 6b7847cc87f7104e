SPECIFICATION Spec
CONSTANTS
  StackSize = 7
  ParamStackSize = 2
  MaxForLoops = 2
  Main = "main"
  Funcs = {"f", "on_can", "p"}
  Params <- MCParams
  Locals <- MCLocals
  Valued = {"f"}
  Handler = "on_can"
  XFuncs = {"fire_on_can", "get"}
  XArgs <- MCXArgs
  XValued = {"get"}
  Fire = "fire_on_can"
  Values = {0, 1}
  Stale = Stale
  MaxTemps = 2
  MaxArgs = 2
  Habits = {}
INVARIANTS TypeOK LoopsCounted ParamsCounted StackCounted
PROPERTY Implements
