SPECIFICATION LoopSpec
CONSTANT Half = 8
INVARIANT CountsRight
PROPERTY Terminates
CHECK_DEADLOCK FALSE
