\* One run against a client that may leave: safety, its promise, and its end.
CONSTANTS
  Cap = 2
  LostReplies = TRUE
SPECIFICATION FairRunSpec
INVARIANTS
  RunInv
  NoLeak
  OutcomeReported
PROPERTIES
  KeepsPromise
  RunsAsInDaemon
  RunFinishes
  DisconnectFreesHandler
