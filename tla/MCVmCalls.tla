----------------------------- MODULE MCVmCalls ------------------------------
(* A function with a parameter, an event handler with a local variable of  *)
(* its own, and a function without either for dispatch.                    *)
EXTENDS VmCalls

MCParams == [f |-> 1, on_can |-> 1, p |-> 0]
MCLocals == [f |-> 1, on_can |-> 2, p |-> 0]
MCXArgs  == [fire_on_can |-> 1, get |-> 1]

(* A function with 40 local variables, and a handler without any, on the   *)
(* stack of 128 cells; a function with eight parameters on the parameter   *)
(* stack of eight cells.                                                   *)
DeepParams == [f |-> 0, on_can |-> 0]
DeepLocals == [f |-> 40, on_can |-> 0]
DeepXArgs  == [fire_on_can |-> 0]
ArgsParams == [f |-> 8]
ArgsLocals == [f |-> 8]
ArgsXArgs  == [fire_on_can |-> 8]

(* The handler of README.md has three parameters, the host passes four.    *)
EventParams == [on_can |-> 3]
EventXArgs  == [fire_on_can |-> 4]

=============================================================================
