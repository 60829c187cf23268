CONSTANT Inputs <- SmallInputs
SPECIFICATION Spec
CHECK_DEADLOCK FALSE
INVARIANTS TypeOK CodesBack DistancesClose
PROPERTY Implements
