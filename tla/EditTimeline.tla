----------------------------- MODULE EditTimeline -----------------------------
(***************************************************************************)
(* What undo and redo promise: the versions of a document stand on a line, *)
(* oldest first, and the document is the one the cursor is at.  An edit    *)
(* discards the versions after the cursor and no other, except the oldest  *)
(* when Limit edits can already be undone.                                 *)
(***************************************************************************)
EXTENDS Integers, Sequences

CONSTANT Limit

VARIABLES line, cursor

tvars == <<line, cursor>>

TimelineInit == Len(line) = 1 /\ cursor = 1

Open == Len(line') = 1 /\ cursor' = 1

\* The new version is the last one.
Edit ==
    LET oldest == IF cursor > Limit THEN cursor - Limit + 1 ELSE 1
    IN /\ cursor' = Len(line')
       /\ SubSeq(line', 1, cursor' - 1) = SubSeq(line, oldest, cursor)

\* A drag goes on: the version it made is replaced.
Amend ==
    /\ cursor = Len(line)
    /\ Len(line') = cursor
    /\ SubSeq(line', 1, cursor - 1) = SubSeq(line, 1, cursor - 1)
    /\ UNCHANGED cursor

Back == cursor > 1 /\ cursor' = cursor - 1 /\ UNCHANGED line

Forth == cursor < Len(line) /\ cursor' = cursor + 1 /\ UNCHANGED line

TimelineNext == Open \/ Edit \/ Amend \/ Back \/ Forth

TimelineSpec == TimelineInit /\ [][TimelineNext]_tvars

=============================================================================
