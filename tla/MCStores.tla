------------------------------- MODULE MCStores -------------------------------
(* The two stores that live and die with their page: the board of the        *)
(* tactics editor, explored as in MCEditor, and the game.                    *)
EXTENDS MCEditor, PlayedForBoth

CONSTANTS g1, g2, g3, n1        \* clubs of two leagues, and a country

\* One player went from club to club and abroad, one to the other league.
MCLeagueOf == [c \in GameClubs |-> IF c = g3 THEN "l2" ELSE "l1"]
MCCareers == {[at |-> {g1, g2, n1}, famous |-> TRUE], [at |-> {g2, g3}, famous |-> FALSE],
              [at |-> {n1}, famous |-> TRUE]}

StoresInit ==
    /\ GameInit
    /\ \/ EditorInit
       \/ part = "game" /\ BoardInit /\ doc = EmptyDoc

StoresNext ==
    IF part = "game" THEN GameNext /\ UNCHANGED <<part, boardVars>> ELSE EditorNext /\ UNCHANGED gameVars

StoresSpec == StoresInit /\ [][StoresNext]_<<part, boardVars, gameVars>>

\* Interval handles are interchangeable, too.
StoresSymmetry == Symmetry \cup Permutations(Intervals)

\* The type invariants of the two stores.
StoresTypeOK == BoardTypeOK /\ GameTypeOK
===============================================================================
