SPECIFICATION Spec
CONSTANTS
  Forms <- AllStatements
  Flags <- Runs
  Vaults <- Before
  MaxSize = 4
  MaxPieces = 2
INVARIANT StoredAsShell
INVARIANT DeletableIsSafe
CHECK_DEADLOCK FALSE
