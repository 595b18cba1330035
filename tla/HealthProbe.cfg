\* Two engines, each changing its credential up to three times.
CONSTANTS
  Engine = {claude, codex}
  None = None
  Unknown = Unknown
  MaxChanges = 3
SPECIFICATION FairHealthSpec
INVARIANT NoVerdictFromBefore
PROPERTY DriftIsNoticed
