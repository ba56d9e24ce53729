------------------------------- MODULE MCEditor -------------------------------
(* A finite instance of EditorStore: a player, a team mate and a ball, two   *)
(* places, a blank board and a drill of three steps.                         *)
EXTENDS EditorStore

CONSTANTS player, mate, ball, home, a, b

MCSideOf == [o \in Objects |-> IF o = ball THEN NoSide ELSE home]

At(p, q) == [pos |-> [o \in Objects |-> IF o = player THEN p ELSE IF o = ball THEN q ELSE Unset],
             drawings |-> {}]

\* The ball comes on in the second step, the player moves in the third.
Drill == [objects |-> {player, ball},
          steps |-> <<At(a, Unset), At(Unset, a), At(b, Unset)>>]

MCBoards == {EmptyDoc, Drill}

\* Explored three times: a session on a blank board that does not save, a shorter
\* one that does, and a shorter one, on either board, in which the mate comes on,
\* alone, as a copy of the player or in a formation with him.
VARIABLE part

EditorInit ==
    /\ BoardInit
    /\ \/ part = "a mate"
       \/ part \in {"editing", "saving"} /\ doc = EmptyDoc

EditorNext ==
    /\ BoardNext
    /\ UNCHANGED part
    /\ part = "saving" \/ UNCHANGED saves
    /\ part = "editing" \/ edits' < MaxEdits
    /\ part = "a mate" \/ mate \notin used'

EditorSpec == EditorInit /\ [][EditorNext]_<<part, boardVars>>

\* Drawings are interchangeable.
Symmetry == Permutations(Drawings)
=============================================================================
