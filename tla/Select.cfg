SPECIFICATION Spec
CONSTANT Cases <- MCCases
INVARIANTS JoinComplete AnswersAsAsked IndexLosesNoRow
CHECK_DEADLOCK FALSE
