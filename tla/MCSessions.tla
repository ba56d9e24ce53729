----------------------------- MODULE MCSessions -----------------------------
(* Finite instances of Sessions.                                           *)
EXTENDS Sessions, TLC

\* Two states that Spec reaches before anyone has signed in: a password
\* change was given up halfway, and time passes; or time has passed, and
\* passwords change.
StartedInit ==
    /\ row = [t \in Tokens |-> NoRow] /\ drawn = {} /\ doomed = {}
    /\ req = [p \in Procs |-> Idle]
    /\ promised = [u \in Users |-> 0]
    /\ \E late \in BOOLEAN :
          /\ now = IF late THEN MaxTime ELSE 0
          /\ users = [u \in Users |-> [exists |-> TRUE, pwd |-> IF late THEN 0 ELSE MaxPwd]]

StartedSpec == StartedInit /\ [][Next]_vars

\* Interchangeable identities; used only where no liveness property is
\* checked.
Symmetry == Permutations(Users) \cup Permutations(Tokens) \cup Permutations(Procs)
=============================================================================
