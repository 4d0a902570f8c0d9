SPECIFICATION FairSpec
CONSTANTS
    Creds = {k1, k2}
    None = None
    MaxSecretEdits = 1
    MaxGrantEdits = 1
    MaxFaults = 1
INVARIANTS TypeOK AnnotatedAtRest
PROPERTIES NeverClaimsTooMuch AnnotationConverges
CHECK_DEADLOCK FALSE
