----------------------------- MODULE MCAccounts -----------------------------
(* Finite instances of Accounts: a Google profile whose address is vouched *)
(* for, a Facebook profile with the same address that is not, and one that *)
(* withholds its address.                                                  *)
EXTENDS Accounts, TLC

CONSTANTS google, facebook, hidden, mail

MCProfiles == {google, facebook, hidden}
MCProvider == [a \in MCProfiles |-> IF a = google THEN google ELSE facebook]
MCMailOf == [a \in MCProfiles |-> IF a = hidden THEN NoMail ELSE mail]
MCVouches == [a \in MCProfiles |-> a = google]

AccountsSymmetry ==
    Permutations(Users) \cup Permutations(Codes) \cup Permutations(Links) \cup Permutations(Requests)
=============================================================================
