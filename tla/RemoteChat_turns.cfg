SPECIFICATION ChatFairSpec
CONSTANTS
  r1 = r1
  r2 = r2
  codex = codex
  claude = claude
  Turns <- MCTurns
  Codex = codex
  Providers <- MCProviders
  Candidates <- MCCandidates
  Cancels <- MCCancels
  Deterministic = TRUE
  None = None
  MaxPieces = 1
  MaxMishaps = 2
INVARIANTS
  EndIsLast
  SavedIsStreamed

  
CHECK_DEADLOCK FALSE
