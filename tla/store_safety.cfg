\* The interleavings of two clients and two models, one destination outside the root.
CONSTANTS
  c1 = c1  c2 = c2  c3 = c3
  m1 = m1  m2 = m2
  away = away  root = root  default = default  none = none
  Clients = {c1, c2}
  Models = {m1, m2}
  Dests = {away}
  Outside = {away}
  Root = root
  Default = default
  None = none
SPECIFICATION Spec
SYMMETRY Symmetry
INVARIANTS
  MemoryMatchesDisk
  IndexedFilesPresent
  IInv
PROPERTIES
  FilesGoByDeleteOrSharer
  OutsideIsLeftAlone
