SPECIFICATION Spec
CONSTANTS
  StackSize = 16
  ParamStackSize = 8
  MaxForLoops = 0
  Main = "main"
  Funcs = {"f"}
  Params <- ArgsParams
  Locals <- ArgsLocals
  Valued = {"f"}
  Handler = "f"
  XFuncs = {"fire_on_can"}
  XArgs <- ArgsXArgs
  XValued = {}
  Fire = "fire_on_can"
  Values = {0}
  Stale = Stale
  MaxTemps = 1
  MaxArgs = 9
  Habits = {"args"}
PROPERTY Implements
