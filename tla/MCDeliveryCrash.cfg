CONSTANTS
    r1 = r1  r2 = r2  r3 = r3  a = a  b = b  x = x  y = y
    Refs = {a, b}
    Keys = {x, y}
    Deliveries <- Single
    Runs = {r1, r2}
    MaxTries = 3
SPECIFICATION Spec
INVARIANT SurvivesCrashes
CHECK_DEADLOCK FALSE
