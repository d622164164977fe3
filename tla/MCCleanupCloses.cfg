CONSTANTS
    s1 = s1  s2 = s2  Nobody = Nobody
    Artifacts = 2
    MaxAttempts = 2
    Sweeps = {s1, s2}
    MaxPublications = 1
SPECIFICATION FairSpec
PROPERTIES IntentsClose
CHECK_DEADLOCK FALSE
