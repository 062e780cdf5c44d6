SPECIFICATION FairSpec
CONSTANTS
  Callers = {c1, c2}
  NoCaller = NoCaller
  Runs = {r1, r2}
  Zero = Zero
  NoRun = NoRun
  MaxPolls = 1
INVARIANTS
  TypeOK
  ActiveHasRun
  CancelledIsReal
PROPERTY CallsReturn
