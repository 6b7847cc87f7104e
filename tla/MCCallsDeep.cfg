SPECIFICATION Spec
CONSTANTS
  StackSize = 128
  ParamStackSize = 8
  MaxForLoops = 0
  Main = "main"
  Funcs = {"f", "on_can"}
  Params <- DeepParams
  Locals <- DeepLocals
  Valued = {"f"}
  Handler = "on_can"
  XFuncs = {"fire_on_can"}
  XArgs <- DeepXArgs
  XValued = {}
  Fire = "fire_on_can"
  Values = {0}
  Stale = Stale
  MaxTemps = 2
  MaxArgs = 0
  Habits = {"deep"}
PROPERTY Implements
