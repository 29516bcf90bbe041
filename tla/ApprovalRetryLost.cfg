SPECIFICATION Spec
CONSTANTS
  Window = Window
  None = None
  Choices = {1, 2}
  Asked = 2
  Phones = {p1}
  HasWindow = TRUE
  By = "touch"
  NumSecrets = 1
  UnlockAttempts = 3
  Confirms = FALSE
  KeyRefused = TRUE
  MaxPrompts = 1
  MaxPicks = 1
  MaxPosts = 1
INVARIANT RetryIsOffered
CHECK_DEADLOCK FALSE
