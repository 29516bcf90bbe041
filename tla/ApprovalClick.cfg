SPECIFICATION Spec
CONSTANTS
  Window = Window
  None = None
  Choices = {1, 2}
  Asked = 2
  Phones = {}
  HasWindow = TRUE
  By = "click"
  NumSecrets = 2
  UnlockAttempts = 3
  Confirms = FALSE
  KeyRefused = FALSE
  MaxPrompts = 1
  MaxPicks = 1
  MaxPosts = 0
INVARIANT EveryUnlockIsAskedFor
INVARIANT PressesAreFresh
CHECK_DEADLOCK FALSE
