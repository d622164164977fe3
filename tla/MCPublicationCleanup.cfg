CONSTANTS
    s1 = s1  s2 = s2  Nobody = Nobody
    Artifacts = 2
    MaxAttempts = 2
    Sweeps = {s1, s2}
    MaxPublications = 2
SPECIFICATION Spec
SYMMETRY Alike
INVARIANTS CompletedWasCleared WithdrawnIsClean
PROPERTIES LeaseIsFence
CHECK_DEADLOCK FALSE
