--------------------------- MODULE SessionContract ---------------------------
(***************************************************************************)
(* What the refresh-token table promises, with no statements, locks or     *)
(* clocks: a sign-in opens a chain, the chain's one usable token is        *)
(* exchanged for a fresh one in a single step, and a token that has been   *)
(* given up never works again.                                             *)
(***************************************************************************)
CONSTANTS Tokens, NoToken

VARIABLES
    chain,  \* chain[t]: the sign-in t can still be exchanged for, or NoToken
    spent   \* tokens that will never be usable (again)

cvars == <<chain, spent>>

Usable == {t \in Tokens : chain[t] # NoToken}

CInit ==
    /\ chain = [t \in Tokens |-> NoToken]
    /\ spent = {}

\* A sign-in: a fresh token, the first of its own chain.
Open(t) ==
    /\ t \notin Usable \cup spent
    /\ \A s \in Tokens : chain[s] # t
    /\ chain' = [chain EXCEPT ![t] = t]
    /\ UNCHANGED spent

\* A refresh: the old token stops working in the step that makes the new one
\* work.
Exchange(s, t) ==
    /\ s \in Usable
    /\ t \notin Usable \cup spent
    /\ \A r \in Tokens : chain[r] # t
    /\ chain' = [chain EXCEPT ![s] = NoToken, ![t] = chain[s]]
    /\ spent' = spent \cup {s}

\* A logout, a revoke-all, a deleted account, a pruned row, or a token drawn
\* by a request that failed.
Retire(S) ==
    /\ chain' = [t \in Tokens |-> IF t \in S THEN NoToken ELSE chain[t]]
    /\ spent' = spent \cup S

CNext ==
    \/ \E t \in Tokens : Open(t)
    \/ \E s, t \in Tokens : Exchange(s, t)
    \/ \E S \in SUBSET Tokens : Retire(S)

CSpec == CInit /\ [][CNext]_cvars

=============================================================================
