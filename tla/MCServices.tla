------------------------------ MODULE MCServices ------------------------------
(* Finite instances of the accounts of the identity service, explored as in  *)
(* MCAccounts, and of the three record-keeping modules of the football       *)
(* service, as in MCRecords.  They share no state, so one run explores each  *)
(* of them while the others stay in their initial states.                    *)
EXTENDS MCRecords, MCAccounts

accountVars == vars

ServicesInit ==
    /\ part \in {"accounts", "transfers", "valuations", "spells"}
    /\ Init
    /\ TransferInit /\ ValuationInit /\ SpellInit

ServicesNext ==
    IF part = "accounts" THEN Next /\ UNCHANGED allVars ELSE RecordsNext /\ UNCHANGED accountVars

ServicesSpec == ServicesInit /\ [][ServicesNext]_<<allVars, accountVars>>

\* Bounds: profiles sign in while there is one confirmation link, and more links
\* are drawn while none does; once the club is gone, appointments are recorded
\* one at a time; and of the spells that are entered with their end, none names
\* a club: the coach's club follows the open ones.
ServicesBounds ==
    /\ \/ Cardinality({k \in Links : ~Fresh(k)}) <= 1
       \/ \A p \in Requests : request[p].profile = NoProfile
    /\ teamsHere # Employers => Cardinality({p \in Procs : filing[p].pc # "idle"}) <= 1
    /\ \A p \in Procs : filing[p].spell.end # NoDay => filing[p].spell.team = NoTeam

Symmetry == RecordsSymmetry \cup AccountsSymmetry

\* The type invariants of the record-keeping modules.
RecordsTypeOK == TransferTypeOK /\ ValuationTypeOK /\ SpellTypeOK
===============================================================================
