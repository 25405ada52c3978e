SPECIFICATION Spec
CONSTANTS
    Outer <- MCOuter
    Inputs <- MCInputs
    Outs <- MCOuts
    Written <- MCWritten
CHECK_DEADLOCK FALSE
INVARIANTS CodeIsSound ScannedAsWritten
PROPERTIES KeepsItsValue EndsWithAnExpression
