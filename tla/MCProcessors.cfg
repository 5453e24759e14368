SPECIFICATION Spec
INVARIANTS InstructionsRight
CHECK_DEADLOCK FALSE
