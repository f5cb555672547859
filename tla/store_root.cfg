\* Two callers and two models, which may be staged into the storage root itself.
CONSTANTS
  c1 = c1  c2 = c2  c3 = c3
  m1 = m1  m2 = m2
  away = away  root = root  default = default  none = none
  Clients = {c1, c2}
  Models = {m1, m2}
  Dests = {root}
  Outside = {}
  Root = root
  Default = default
  None = none
SPECIFICATION Spec
SYMMETRY Symmetry
INVARIANTS
  CoreInv
  NothingComesBack
PROPERTIES
  PathIsStable
