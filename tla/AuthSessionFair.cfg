\* The adapters of the tree under fair timers; both engines side by side.
SPECIFICATION FairSpec
CONSTANTS
  Engine = {"claude", "codex"}
  Attempt = {a1, a2}
  None = None
  FlowsOf <- MCFlows
  Injecting <- MCInjecting
  Trusted = TRUE
  LateResults = FALSE
INVARIANTS
  NoOrphanChild
  QuietWhenDown
PROPERTIES
  ImplementsEngineLogin
  LoginsConclude
  ShutdownCompletes
CHECK_DEADLOCK FALSE
