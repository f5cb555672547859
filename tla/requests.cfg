\* One request after every configuration, two services.
SPECIFICATION FairSpec
CHECK_DEADLOCK FALSE
CONSTANTS
  q1 = q1
  docker = docker
  other = other
  Requesters = {q1}
  Checkers = {docker, other}
  Docker = docker
INVARIANTS RequestsInv LoadIsFaithful LoggedIsSent HealthIsTruthful OnlyBearerServed
PROPERTIES GoneIsOver
