\* Log streamers that outlive the run.
CONSTANTS
  Cap = 2
  LostReplies = FALSE
SPECIFICATION RunSpec
INVARIANTS
  NoSendOnClosed
