\* Adapters that may still succeed after cancel(): the contract of
\* EngineAuthSession does not rule them out.
SPECIFICATION Spec
CONSTANTS
  Engine = {"claude"}
  Attempt = {a1, a2, a3}
  None = None
  FlowsOf <- MCFlows
  Injecting <- MCInjecting
  Trusted = TRUE
  LateResults = TRUE
SYMMETRY MCSymmetry
INVARIANTS
  OneLivePerEngine
PROPERTIES
  OnlySlotHolderStores
CHECK_DEADLOCK FALSE
