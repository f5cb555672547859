\* A daemon told to stop while a run is in flight.
SPECIFICATION Spec
CONSTANTS
  r1 = r1
  r2 = r2
  n1 = n1
  Nobody = Nobody
  Clients = {r1}
  Names = {n1}
  TheName = n1
  RunName <- AllSame
INVARIANT StopLeavesNothing
