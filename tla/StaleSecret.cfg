SPECIFICATION Spec
CONSTANTS
    c1 = c1  cro = cro  r1 = r1  r2 = r2  ro = ro  n1 = n1  n2 = n2
    Workers = {w1}
    CRs = {c1}
    Refs = {r1, ro}
    Deletable = {c1}
    TargetsOf <- MCTargetsOf
    RORef = ro
    Namespaces = {n1}
    NamespaceOf <- MCNamespaceOf
    Policies = {p1}
    Users = {u1, u2}
    Keys = {k1, k2, k3, k4}
    InitRoots <- MintRoot
    EditedRoots <- MintRoot
    None = None
    SecretLag = TRUE
    Disturbances = {}
    MaxFaults = 0
    MaxGen = 1
    MaxHours = 1
SYMMETRY Symmetry
INVARIANTS SkippedSyncIsSound
