\* Two hedged calls and one hedge slot.
SPECIFICATION FairSpec
CONSTANTS
  r1 = r1
  r2 = r2
  Runs = {r1, r2}
  MaxHedges = 1
INVARIANTS
  TypeOK
  NothingLeftBehind
  WinReported
  LoserCancelled
PROPERTIES
  CallReturns
CHECK_DEADLOCK FALSE
