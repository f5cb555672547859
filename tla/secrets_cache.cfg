\* Two callers, two keys of one secret, two rotations.
SPECIFICATION Spec
CONSTANTS
  c1 = c1
  c2 = c2
  k1 = k1
  k2 = k2
  BadKey = BadKey
  Callers = {c1, c2}
  Keys = {k1, k2}
  TTL = 1
  Timeout = 1
  MaxTime = 4
  MaxVersion = 2
INVARIANTS SecretsInv BoundedStaleness
