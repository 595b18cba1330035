---------------------------- MODULE EngineLogin ----------------------------
(***************************************************************************)
(* What session-manager.ts promises its callers, without saying how: each  *)
(* engine is a lock that one login attempt at a time can hold, and only    *)
(* the holder can turn it into a credential and a manifest sync.           *)
(***************************************************************************)
CONSTANTS Engine, Attempt, None

VARIABLES
  engine,     \* the engine an attempt is for, None before it begins
  state,      \* "new", "open" (holds its engine), "won" or "lost"
  holder,     \* engine -> the open attempt, or None
  credential  \* engine -> the attempt whose credential is held, or None

vars == <<engine, state, holder, credential>>

Init ==
  /\ engine = [a \in Attempt |-> None]
  /\ state = [a \in Attempt |-> "new"]
  /\ holder = [e \in Engine |-> None]
  /\ credential = [e \in Engine |-> None]

\* A new attempt takes the engine from whoever holds it.
Open(a, e) ==
  /\ state[a] = "new"
  /\ engine' = [engine EXCEPT ![a] = e]
  /\ state' = [x \in Attempt |-> IF x = a THEN "open"
                                 ELSE IF x = holder[e] THEN "lost" ELSE state[x]]
  /\ holder' = [holder EXCEPT ![e] = a]
  /\ UNCHANGED credential

\* The holder of e is authorized; its secret is stored, or the CLI keeps it.
Win(a, e) ==
  /\ holder[e] = a
  /\ state[a] = "open"
  /\ state' = [state EXCEPT ![a] = "won"]
  /\ holder' = [holder EXCEPT ![e] = None]
  /\ credential' \in {credential, [credential EXCEPT ![e] = a]}
  /\ UNCHANGED engine

\* Open attempts fail, expire, or are cancelled; shutdown ends all at once.
Lose(A) ==
  /\ A # {}
  /\ \A a \in A : state[a] = "open"
  /\ state' = [a \in Attempt |-> IF a \in A THEN "lost" ELSE state[a]]
  /\ holder' = [e \in Engine |-> IF holder[e] \in A THEN None ELSE holder[e]]
  /\ UNCHANGED <<engine, credential>>

Forget(e) ==
  /\ credential' = [credential EXCEPT ![e] = None]
  /\ UNCHANGED <<engine, state, holder>>

Next ==
  \/ \E a \in Attempt, e \in Engine : Open(a, e) \/ Win(a, e)
  \/ \E A \in SUBSET Attempt : Lose(A)
  \/ \E e \in Engine : Forget(e)

Spec == Init /\ [][Next]_vars
=============================================================================
