------------------------------ MODULE Engines ------------------------------
\* What the logins and the readiness cache share.
CONSTANTS
  Engine,  \* the registered engines (src/src/auth/registry.ts)
  None     \* the absent value (JavaScript's undefined or null)

ASSUME EnginesAssumption == Engine # {}
=============================================================================
