\* Two clients that use the same run ID, through restarts of the daemon.
SPECIFICATION FairSpec
CONSTANTS
  r1 = r1
  r2 = r2
  n1 = n1
  Nobody = Nobody
  Clients = {r1, r2}
  Names = {n1}
  TheName = n1
  RunName <- AllSame
INVARIANTS DaemonInv IdleNameIsClean OneRunPerName
PROPERTIES SignalEndsProcess
