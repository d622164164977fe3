CONSTANTS
    r1 = r1  r2 = r2  r3 = r3  a = a  b = b  x = x  y = y
    Refs = {a, b}
    Keys = {x, y}
    Deliveries <- Crossed
    Runs = {r1, r2, r3}
    MaxTries = 2
SPECIFICATION Spec
SYMMETRY Alike
INVARIANTS SoleHolder RowsAreTrue ProcessedIsRecorded
PROPERTIES OnceSpec
CHECK_DEADLOCK FALSE
