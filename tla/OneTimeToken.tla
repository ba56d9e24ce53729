----------------------------- MODULE OneTimeToken -----------------------------
(***************************************************************************)
(* What a one-time token promises, whether it is a sign-in code or the     *)
(* link in a confirmation mail: it is drawn for one account, and honoured  *)
(* at most once, before it is superseded, expires, or goes with its        *)
(* account.                                                                *)
(***************************************************************************)
EXTENDS Naturals

CONSTANTS Tokens, Owners, NoOwner

VARIABLES
    bearer,     \* bearer[k]: the account k still works for, or NoOwner
    over,       \* tokens that will never work (again)
    honoured    \* honoured[k]: how often k has been accepted

ovars == <<bearer, over, honoured>>

OInit ==
    /\ bearer = [k \in Tokens |-> NoOwner]
    /\ over = {}
    /\ honoured = [k \in Tokens |-> 0]

\* What is retired in a step no longer works after it; a token may be drawn
\* in the same step.
Retired(S) == [k \in Tokens |-> IF k \in S THEN NoOwner ELSE bearer[k]]

Retire(S) ==
    /\ bearer' = Retired(S)
    /\ over' = over \cup S
    /\ UNCHANGED honoured

Draw(k, o, S) ==
    /\ bearer[k] = NoOwner
    /\ k \notin over \cup S
    /\ bearer' = [Retired(S) EXCEPT ![k] = o]
    /\ over' = over \cup S
    /\ UNCHANGED honoured

Honour(k) ==
    /\ bearer[k] # NoOwner
    /\ bearer' = [bearer EXCEPT ![k] = NoOwner]
    /\ over' = over \cup {k}
    /\ honoured' = [honoured EXCEPT ![k] = @ + 1]

ONext ==
    \/ \E S \in SUBSET Tokens : Retire(S)
    \/ \E k \in Tokens, o \in Owners, S \in SUBSET Tokens : Draw(k, o, S)
    \/ \E k \in Tokens : Honour(k)

OSpec == OInit /\ [][ONext]_ovars

=============================================================================
