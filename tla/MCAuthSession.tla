--------------------------- MODULE MCAuthSession ---------------------------
\* Instances of AuthSession: the real engines with the flows the registry
\* lists for them (src/src/auth/registry.ts:98-149), attempts as model values.
EXTENDS AuthSession, TLC

\* claude's default flow holds a pty; codex keeps its own credential.
MCFlows ==
  [e \in Engine |-> IF e = "claude" THEN {"paste-code", "api-key"}
                    ELSE {"api-key", "device-code"}]
MCInjecting == Engine \cap {"claude"}

\* Attempts are interchangeable: no operator compares or orders them.
MCSymmetry == Permutations(Attempt)
=============================================================================
