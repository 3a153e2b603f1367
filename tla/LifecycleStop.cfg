SPECIFICATION Spec
CONSTANTS
  Turn = {t1, t2}
  Prompt = {p1}
  Harness = {h1, h2}
  None = None
  MaxAttempts = 1
  Env = {"start", "continue", "mention", "enqueue", "stop", "end", "fail"}
CONSTRAINT Fits
SYMMETRY Symmetry
INVARIANTS StoppedStartupNeverPrompts WorktreeIsReclaimed
PROPERTIES StopWins
CHECK_DEADLOCK FALSE
