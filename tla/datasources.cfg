SPECIFICATION Spec
CONSTANTS
    d1 = d1
    d2 = d2
    r1 = r1
    r2 = r2
    r3 = r3
    h1 = h1
    h2 = h2
    b1 = b1
    s1 = s1
    s2 = s2
    Datasources = {d1}
    Requests = {r1, r2, r3}
    Hosts = {h1, h2}
    Bastions = {b1}
    Secrets = {s1, s2}
    Creations <- SomeCreations
    Updates <- SomeUpdates
    MaxCalls = 4
    None = None
SYMMETRY Symmetric
CHECK_DEADLOCK FALSE
INVARIANTS TypeOK NoLeftoverSecrets SavedWasTested 
