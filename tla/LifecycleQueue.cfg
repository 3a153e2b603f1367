SPECIFICATION Spec
CONSTANTS
  Turn = {t1, t2}
  Prompt = {p1, p2}
  Harness = {h1, h2, h3}
  None = None
  MaxAttempts = 1
  Env = {"continue", "enqueue", "remove", "drain", "crash", "fail", "error"}
SYMMETRY Symmetry
INVARIANTS
  TypeOK
  RunningHasDriver
  ClaimHasOwner
  NoPromptDropped
  RunHasDriver
CHECK_DEADLOCK FALSE
