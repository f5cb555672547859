\* Detection, readers and subscribers over three detections.
SPECIFICATION FairSpec
CONSTANTS
  u1 = u1
  Users = {u1}
  MaxPolls = 3
INVARIANTS PollerInv SteadyIsReported NewsIsNew CalmInjectsReported
PROPERTIES NeverAhead CancelStopsPoller
