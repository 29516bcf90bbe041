SPECIFICATION Spec
CONSTANTS
  Window = Window
  None = None
  Choices = {1, 2}
  Asked = 2
  Phones = {p1}
  HasWindow = TRUE
  By = "touch"
  NumSecrets = 1
  UnlockAttempts = 2
  Confirms = TRUE
  KeyRefused = TRUE
  MaxPrompts = 1
  MaxPicks = 0
  MaxPosts = 1
INVARIANT RequestInv
CHECK_DEADLOCK FALSE
