------------------------------ MODULE MCRecords ------------------------------
(* Finite instances of the three record-keeping modules.  They share no      *)
(* state, so one run explores each of them while the others stay in their   *)
(* initial states: `part` says which.                                       *)
EXTENDS Transfers, Valuations, CoachSpells, TLC

VARIABLE part

allVars == <<part, transferVars, valuationVars, spellVars>>

RecordsInit ==
    /\ part \in {"transfers", "valuations", "spells"}
    /\ TransferInit /\ ValuationInit /\ SpellInit

RecordsNext ==
    /\ UNCHANGED part
    /\ \/ part = "transfers" /\ TransferNext /\ UNCHANGED <<valuationVars, spellVars>>
       \/ part = "valuations" /\ ValuationNext /\ UNCHANGED <<transferVars, spellVars>>
       \/ part = "spells" /\ SpellNext /\ UNCHANGED <<transferVars, valuationVars>>

RecordsSpec == RecordsInit /\ [][RecordsNext]_allVars

\* Clubs, requests and row identifiers are interchangeable.
RecordsSymmetry ==
    Permutations(Teams) \cup Permutations(Procs) \cup Permutations(MoveIds)
      \cup Permutations(SpellIds)
=============================================================================
