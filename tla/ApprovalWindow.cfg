SPECIFICATION FairSpec
CONSTANTS
  Window = Window
  None = None
  Choices = {1, 2}
  Asked = 2
  Phones = {p1}
  HasWindow = TRUE
  By = "passphrase"
  NumSecrets = 2
  UnlockAttempts = 2
  Confirms = FALSE
  KeyRefused = FALSE
  MaxPrompts = 1
  MaxPicks = 1
  MaxPosts = 1
INVARIANT RetryIsOffered
INVARIANT GrantedAsShown
PROPERTY OutcomeSpec
PROPERTY NoEndsRequest
CHECK_DEADLOCK FALSE
