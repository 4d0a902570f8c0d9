SPECIFICATION Spec
CONSTANTS
    c1 = c1  cro = cro  r1 = r1  r2 = r2  ro = ro  n1 = n1  n2 = n2
    Workers = {w1}
    CRs = {c1}
    Refs = {r1, r2, ro}
    Deletable = {c1}
    TargetsOf <- MCTargetsOf
    RORef = ro
    Namespaces = {n1}
    NamespaceOf <- MCNamespaceOf
    Policies = {p1, p2}
    Users = {u1, u2}
    Keys = {k1, k2, k3}
    InitRoots <- MintRoot
    EditedRoots <- MintRoot
    None = None
    SecretLag = TRUE
    Disturbances = {"callFails", "responseLost", "sdkRetry", "crash"}
    MaxFaults = 1
    MaxGen = 2
    MaxHours = 1
CONSTRAINT FreshReads
SYMMETRY Symmetry
INVARIANTS SkippedSyncIsSound AbandonedSecretIsDead
PROPERTIES DeletedRequestLeavesNoSecret
