SPECIFICATION Spec
CONSTANTS
  i1 = i1
  i2 = i2
  k1 = k1
  r1 = r1
  r2 = r2
  w1 = w1
  w2 = w2
  j1 = j1
  j2 = j2
  j3 = j3
  Imports = {i1}
  Keys = {k1}
  Key <- SameKey
  Large = {i1}
  Requests = {r1, r2}
  Workers = {w1, w2}
  Jobs = {j1, j2, j3}
  Operations = {"create", "retry", "cancel"}
  MaxActiveJobs = 1
  MaxRetries = 2
  MaxFaults = 0
  None = None
SYMMETRY Symmetric
INVARIANT ImportedOnce
