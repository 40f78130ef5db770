SPECIFICATION Spec
CONSTANTS MaxPid = 2 MaxServer = 1 Fences = {TRUE}
INVARIANTS FencedEnd
PROPERTIES OperationEnds
