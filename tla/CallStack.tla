----------------------------- MODULE CallStack ------------------------------
(***************************************************************************)
(* What calls promise to a program: each activation of a function (or of   *)
(* the main program, or of an event handler) has values and pending        *)
(* arguments of its own.  Only the youngest activation runs.  A call hands *)
(* it some of the caller's arguments, in order; a return takes it away and *)
(* leaves the others as they were, but for the value the caller waits for. *)
(***************************************************************************)
EXTENDS Integers, Sequences, FiniteSets, SequencesExt

CONSTANTS
  Start,       \* the place in the code where the program begins
  Waits(_),    \* whether a place waits for the value of a call
  None         \* no value

VARIABLE frames

(* code: where the activation is; vals: its local variables, the values of *)
(* its loops and its temporaries, oldest first; args: the arguments it has *)
(* pushed, or not yet taken; got: the value that a call has returned to it *)
Begin == [code |-> Start, vals |-> <<>>, args |-> <<>>, got |-> None]

Init == frames = <<Begin>>

Callers == Front(frames)
Active  == Last(frames)

(* At most one of the values that remain is changed, and one is added.     *)
SmallStep(old, new) ==
  LET kept == (1 .. Len(old)) \cap (1 .. Len(new))
  IN  /\ Len(new) <= Len(old) + 1
      /\ Cardinality({i \in kept : new[i] # old[i]}) <= 1

(* Some arguments are taken from the end, and at most one is added.        *)
Stacked(old, new) ==
  IsPrefix(new, old) \/ (new # <<>> /\ IsPrefix(Front(new), old))

Run ==
  /\ Len(frames') = Len(frames)
  /\ Callers' = Callers
  /\ SmallStep(Active.vals, Active'.vals)
  /\ Stacked(Active.args, Active'.args)
  /\ Waits(Active.code) => \/ Active' = Active
                           \/ Active'.vals = Append(Active.vals, Active.got)

(* Local variables are entered with values of no interest.                 *)
Enter ==
  /\ Active.vals = <<>>
  /\ Callers' = Callers
  /\ Len(frames') = Len(frames)
  /\ Active'.args = Active.args

Call ==
  /\ Len(frames') = Len(frames) + 1
  /\ Front(Callers') = Callers
  /\ LET caller == Last(Callers') IN
       /\ caller.args \o Active'.args = Active.args
       /\ IsPrefix(caller.vals, Active.vals)
       /\ Len(caller.vals) + 1 >= Len(Active.vals)
       /\ caller.got = None
  /\ Active'.vals = <<>>

Resumed(caller, got) == frames' = Append(Front(Callers), [caller EXCEPT !.got = got])

Return ==
  /\ Len(frames) > 1
  /\ LET caller == Last(Callers) IN
       IF Waits(caller.code)
       THEN Active.vals # <<>> /\ Resumed(caller, Last(Active.vals))
       ELSE Resumed(caller, None)

Reset == frames' = <<Begin>>

Next == Run \/ Enter \/ Call \/ Return \/ Reset

Spec == Init /\ [][Next]_frames

=============================================================================
