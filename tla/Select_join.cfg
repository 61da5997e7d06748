SPECIFICATION Spec
CONSTANT Cases <- MCJoins
INVARIANTS JoinsAsWritten
CHECK_DEADLOCK FALSE
