\* A Delete that stops half-way, by an error or a crash, before a Fetch.
CONSTANTS
  c1 = c1  c2 = c2  c3 = c3
  m1 = m1  m2 = m2
  away = away  root = root  default = default  none = none
  Clients = {c1, c2}
  Models = {m1}
  Dests = {}
  Outside = {}
  Root = root
  Default = default
  None = none
SPECIFICATION Spec
PROPERTIES
  FetchedIsOnDisk
