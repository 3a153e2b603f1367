SPECIFICATION FairSpec
CONSTANTS
  Turn = {t1, t2}
  Prompt = {p1, p2}
  Harness = {h1, h2, h3}
  None = None
  MaxAttempts = 1
  Env = {"continue", "enqueue"}
PROPERTIES
  QueueDrains
CHECK_DEADLOCK FALSE
