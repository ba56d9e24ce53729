------------------------------ MODULE EditorStore ------------------------------
(***************************************************************************)
(* The tactics editor: a board of several steps, what is selected, undo    *)
(* and redo, and saving.                                                   *)
(*                                                                         *)
(* A step stores only what moved in it; an object missing from a step      *)
(* stands where it stood before.  A drag is several changes and one undo   *)
(* entry.  Saving is asynchronous, and the board can be edited meanwhile.  *)
(*                                                                         *)
(* Coordinates are members of a small set.  What an object, a drawing or a *)
(* step looks like, curves, spotlights, kits and the pitch are left out,   *)
(* and so are the changes to them, which pass through the same Apply; the  *)
(* member is signed in and the board has been saved before.                *)
(***************************************************************************)
EXTENDS SequencesExt, Integers

CONSTANTS
    Objects, Drawings,  \* ids (random, never drawn twice)
    Boards,             \* what may be opened first
    Sides, SideOf,      \* SideOf[o]: the team of the player o, or NoSide
    NoSide,
    Places, Unset,      \* Unset: a step says nothing of an object
    HistoryLimit,
    Saves,              \* saves in flight at once (a bound)
    MaxSteps, MaxEdits, \* steps of a board, edits of a session (bounds)
    Nothing

ASSUME EditorAssumption ==
    /\ SideOf \in [Objects -> Sides \cup {NoSide}]
    /\ Unset \notin Places
    /\ Objects \cap Drawings = {}
    /\ Nothing \notin Objects \cup Drawings
    /\ HistoryLimit \in Nat \ {0, 1}
    /\ MaxSteps \in Nat \ {0}
    /\ MaxEdits \in Nat

VARIABLES
    doc, stepIndex, selection,
    undoStack, redoStack,
    gestureOpen,    \* a drag's undo entry has been made and more may follow
    drag, moved,    \* the engine's gesture: the object under the pointer, and
                    \*  whether the pointer has moved
    dirty,
    saves,          \* saves[s]: a request to store the board
    stored,         \* the service's copy
    used,           \* ids drawn so far
    edits,          \* history: changes made
    touched         \* history: this page's board changed while a save
                    \*  was in flight

historyVars == <<undoStack, redoStack, gestureOpen>>
dragVars == <<drag, moved>>
saveVars == <<saves, stored>>
boardVars == <<doc, stepIndex, selection, historyVars, dragVars, dirty, saveVars, used, edits, touched>>

Step == [pos: [Objects -> Places \cup {Unset}], drawings: SUBSET Drawings]

Doc == [objects: SUBSET Objects, steps: Seq(Step)]

NewStep == [pos |-> [o \in Objects |-> Unset], drawings |-> {}]

EmptyDoc == [objects |-> {}, steps |-> <<NewStep>>]

Save == [pc: {"idle", "sent", "answered"}, ours: BOOLEAN, content: Doc]

NoSave == [pc |-> "idle", ours |-> FALSE, content |-> EmptyDoc]

ASSUME BoardsAssumption == \A d \in Boards : d \in Doc /\ d.steps # <<>>

BoardTypeOK ==
    /\ doc \in Doc /\ doc.steps # <<>>
    /\ stepIndex \in DOMAIN doc.steps
    /\ selection \in Objects \cup Drawings \cup {Nothing}
    /\ undoStack \in Seq(Doc) /\ redoStack \in Seq(Doc)
    /\ \A h \in ToSet(undoStack) \cup ToSet(redoStack) : h.steps # <<>>
    /\ gestureOpen \in BOOLEAN /\ dirty \in BOOLEAN /\ touched \in BOOLEAN
    /\ drag \in Objects \cup {Nothing} /\ moved \in BOOLEAN
    /\ saves \in [Saves -> Save]
    /\ \A s \in Saves : saves[s].content.steps # <<>>
    /\ stored \in Doc /\ stored.steps # <<>>
    /\ used \subseteq Objects \cup Drawings
    /\ edits \in 0 .. MaxEdits

BoardInit ==
    /\ doc \in Boards /\ stored = doc
    /\ stepIndex = 1
    /\ selection = Nothing /\ drag = Nothing /\ moved = FALSE
    /\ undoStack = <<>> /\ redoStack = <<>>
    /\ gestureOpen = FALSE /\ dirty = FALSE /\ touched = FALSE
    /\ saves = [s \in Saves |-> NoSave]
    /\ used = doc.objects \cup UNION {s.drawings : s \in ToSet(doc.steps)}
    /\ edits = 0

-----------------------------------------------------------------------------
\* positionAt: where o stands at step i.
Where(d, i, o) ==
    LET j == SelectLastInSubSeq(d.steps, 1, i, LAMBDA s : s.pos[o] # Unset)
    IN IF j = 0 THEN Unset ELSE d.steps[j].pos[o]

WithStep(d, i, s) == [d EXCEPT !.steps[i] = s]

Here == doc.steps[stepIndex]

SelectedDrawing == selection \in Drawings

DropDrawing == selection' = IF SelectedDrawing THEN Nothing ELSE selection

SavePending == \E s \in Saves : saves[s].pc # "idle"

-----------------------------------------------------------------------------
(***************************************************************************)
(* History.                                                                *)
(***************************************************************************)
\* slice(-HISTORY_LIMIT + 1).  Mutant: slice(-HISTORY_LIMIT).
KeptOneMore(s) == IF Len(s) > HistoryLimit THEN SubSeq(s, Len(s) - HistoryLimit + 1, Len(s)) ELSE s
Kept(s) == IF Len(s) >= HistoryLimit THEN SubSeq(s, Len(s) - HistoryLimit + 2, Len(s)) ELSE s

Apply(next, phase) ==
    /\ edits < MaxEdits
    /\ edits' = edits + 1
    /\ IF gestureOpen
       THEN UNCHANGED <<undoStack, redoStack>>
       ELSE undoStack' = Append(Kept(undoStack), doc) /\ redoStack' = <<>>
    /\ gestureOpen' = (phase = "move")
    /\ doc' = next
    /\ dirty' = TRUE
    /\ touched' = (touched \/ SavePending)
    /\ UNCHANGED saveVars

\* Mutant: undoing keeps what is selected.
StillThereKept(d, i) == selection
StillThere(d, i) ==
    IF selection \in d.objects \cup d.steps[i].drawings THEN selection ELSE Nothing

AfterHistory(d) ==
    LET i == IF stepIndex > Len(d.steps) THEN Len(d.steps) ELSE stepIndex
    IN /\ doc' = d
       /\ stepIndex' = i
       /\ selection' = StillThere(d, i)
       /\ gestureOpen' = FALSE
       /\ dirty' = TRUE
       /\ touched' = (touched \/ SavePending)
       /\ UNCHANGED <<dragVars, saveVars, used, edits>>

Undo ==
    /\ undoStack # <<>>
    /\ redoStack' = Append(redoStack, doc)
    /\ undoStack' = Front(undoStack)
    /\ AfterHistory(Last(undoStack))

Redo ==
    /\ redoStack # <<>>
    /\ undoStack' = Append(undoStack, doc)
    /\ redoStack' = Front(redoStack)
    /\ AfterHistory(Last(redoStack))

-----------------------------------------------------------------------------
(***************************************************************************)
(* Objects and drawings.                                                   *)
(***************************************************************************)
\* New objects, put where at says in the current step.
Added(S, at) ==
    [WithStep(doc, stepIndex, [Here EXCEPT !.pos = [o \in Objects |-> IF o \in S THEN at[o] ELSE @[o]]])
       EXCEPT !.objects = @ \cup S]

\* With another tool than the one that grabs, as in Stroke: taking it up
\* cancels a drag.
Place(o, x) ==
    /\ drag = Nothing
    /\ o \notin used
    /\ Apply(Added({o}, [i \in {o} |-> x]), "once")
    /\ selection' = o
    /\ used' = used \cup {o}
    /\ UNCHANGED <<stepIndex, dragVars>>

\* A copy stands beside its original.
DuplicateSelection(o, x) ==
    /\ selection \in doc.objects
    /\ Where(doc, stepIndex, selection) # Unset
    /\ o \notin used /\ SideOf[o] = SideOf[selection]
    /\ Apply(Added({o}, [i \in {o} |-> x]), "once")
    /\ selection' = o
    /\ used' = used \cup {o}
    /\ UNCHANGED <<stepIndex, dragVars>>

AddFormation(side, S, at) ==
    /\ S # {} /\ S \cap used = {}
    /\ \A o \in S : SideOf[o] = side
    /\ Apply(Added(S, at), "once")
    /\ used' = used \cup S
    /\ UNCHANGED <<stepIndex, selection, dragVars>>

Without(S) ==
    [objects |-> doc.objects \ S,
     steps |-> [i \in DOMAIN doc.steps |->
                  [doc.steps[i] EXCEPT !.pos = [o \in Objects |-> IF o \in S THEN Unset ELSE @[o]]]]]

DeleteSelection ==
    /\ selection # Nothing
    /\ Apply(IF SelectedDrawing
             THEN WithStep(doc, stepIndex, [Here EXCEPT !.drawings = @ \ {selection}])
             ELSE Without({selection}), "once")
    /\ selection' = Nothing
    /\ UNCHANGED <<stepIndex, dragVars, used>>

RemoveTeam(side) ==
    LET gone == {o \in doc.objects : SideOf[o] = side}
    IN /\ gone # {}
       /\ Apply(Without(gone), "once")
       /\ selection' = Nothing
       /\ UNCHANGED <<stepIndex, dragVars, used>>

\* A pointer goes down on an object, or on a drawing.
Grab(o) ==
    /\ o \in doc.objects /\ Where(doc, stepIndex, o) # Unset
    /\ drag' = o /\ moved' = FALSE
    /\ selection' = o
    /\ UNCHANGED <<doc, stepIndex, historyVars, dirty, saveVars, used, edits, touched>>

SelectDrawing(d) ==
    /\ d \in Here.drawings
    /\ selection' = d
    /\ drag' = Nothing /\ moved' = FALSE
    /\ UNCHANGED <<doc, stepIndex, historyVars, dirty, saveVars, used, edits, touched>>

Deselect ==
    /\ selection # Nothing
    /\ selection' = Nothing
    /\ UNCHANGED <<doc, stepIndex, historyVars, dragVars, dirty, saveVars, used, edits, touched>>

\* The engine knows the object by its id, and the editor does not ask whether
\* it is still on the board.
MoveObject(x, done) ==
    /\ drag # Nothing
    /\ done => moved
    /\ Apply(WithStep(doc, stepIndex, [Here EXCEPT !.pos[drag] = x]), IF done THEN "end" ELSE "move")
    /\ drag' = IF done THEN Nothing ELSE drag
    /\ moved' = ~done
    /\ UNCHANGED <<stepIndex, selection, used>>

\* cancelGesture, a click, or a pointer that comes up where there is no ground.
LetGo ==
    /\ drag # Nothing
    /\ drag' = Nothing /\ moved' = FALSE
    /\ UNCHANGED <<doc, stepIndex, selection, historyVars, dirty, saveVars, used, edits, touched>>

Stroke(d) ==
    /\ drag = Nothing
    /\ d \notin used
    /\ Apply(WithStep(doc, stepIndex, [Here EXCEPT !.drawings = @ \cup {d}]), "once")
    /\ selection' = d
    /\ used' = used \cup {d}
    /\ UNCHANGED <<stepIndex, dragVars>>

-----------------------------------------------------------------------------
(***************************************************************************)
(* Steps.                                                                  *)
(***************************************************************************)
GoToStep(i) ==
    /\ i \in DOMAIN doc.steps \ {stepIndex}
    /\ stepIndex' = i
    /\ DropDrawing
    /\ UNCHANGED <<doc, historyVars, dragVars, dirty, saveVars, used, edits, touched>>

InsertStep(s) ==
    /\ Len(doc.steps) < MaxSteps
    /\ Apply([doc EXCEPT !.steps = InsertAt(@, stepIndex + 1, s)], "once")
    /\ stepIndex' = stepIndex + 1
    /\ DropDrawing
    /\ UNCHANGED dragVars

AddStep == InsertStep(NewStep) /\ UNCHANGED used

\* The drawings are copied under ids of their own.
DuplicateStep(D) ==
    /\ D \cap used = {} /\ Cardinality(D) = Cardinality(Here.drawings)
    /\ InsertStep([NewStep EXCEPT !.drawings = D])
    /\ used' = used \cup D

\* The step from is taken out and put back as the step to.
Order(n, from, to) == InsertAt(RemoveAt([i \in 1 .. n |-> i], from), to, from)

\* What has to be stored in the step now played after q, for it to look as
\* the step p did.  Mutant: the difference is taken from the old order.
DifferenceInOldOrder(d, q, p) ==
    [o \in Objects |-> IF o \in d.objects /\ Where(d, p, o) # Where(d, p - 1, o)
                       THEN Where(d, p, o) ELSE Unset]
Difference(d, q, p) ==
    [o \in Objects |-> IF o \in d.objects /\ Where(d, p, o) # Where(d, q, o)
                       THEN Where(d, p, o) ELSE Unset]

MoveStep(from, to) ==
    LET order == Order(Len(doc.steps), from, to)
        before(k) == IF k = 1 THEN 0 ELSE order[k - 1]
        resettled(k) == [doc.steps[order[k]] EXCEPT !.pos = Difference(doc, before(k), order[k])]
    IN /\ from # to
       /\ stepIndex' = to
       /\ DropDrawing
       /\ Apply([doc EXCEPT !.steps = [k \in DOMAIN @ |-> resettled(k)]], "once")
       /\ UNCHANGED <<dragVars, used>>

\* What a deleted step moved is moved in the next one, unless that moves it
\* itself.  Mutant: the deleted step wins.
CarriedOver(removed, next) == [o \in Objects |-> IF removed[o] # Unset THEN removed[o] ELSE next[o]]
Carried(removed, next) == [o \in Objects |-> IF next[o] # Unset THEN next[o] ELSE removed[o]]

\* The step shown when i is deleted and n are left.  Mutant: not clamped.
StepLeftUnclamped(i, n) == i
StepLeft(i, n) == IF i > n THEN n ELSE i

DeleteStep ==
    LET i == stepIndex
        rest == RemoveAt(doc.steps, i)
    IN /\ Len(doc.steps) > 1
       /\ stepIndex' = StepLeft(i, Len(rest))
       /\ selection' = Nothing
       /\ Apply([doc EXCEPT !.steps = IF i > Len(rest) THEN rest
                                      ELSE [rest EXCEPT ![i].pos = Carried(Here.pos, @)]], "once")
       /\ UNCHANGED <<dragVars, used>>

ClearBoard ==
    /\ Apply(EmptyDoc, "once")
    /\ stepIndex' = 1
    /\ selection' = Nothing
    /\ UNCHANGED <<dragVars, used>>

-----------------------------------------------------------------------------
(***************************************************************************)
(* Saving.                                                                 *)
(***************************************************************************)
SendSave(s) ==
    /\ saves[s].pc = "idle"
    /\ saves' = [saves EXCEPT ![s] = [pc |-> "sent", ours |-> TRUE, content |-> doc]]
    /\ UNCHANGED <<doc, stepIndex, selection, historyVars, dragVars, dirty, stored, used, edits, touched>>

Store(s) ==
    /\ saves[s].pc = "sent"
    /\ stored' = saves[s].content
    /\ saves' = [saves EXCEPT ![s].pc = "answered"]
    /\ UNCHANGED <<doc, stepIndex, selection, historyVars, dragVars, dirty, used, edits, touched>>

\* Only the answer says the board is saved.  Mutant: so does an error.
CleanAlways(ok) == FALSE
Clean(ok) == dirty /\ ~ok

SaveEnds(s, ok) ==
    /\ saves[s].pc # "idle"
    /\ ok => saves[s].pc = "answered"
    /\ dirty' = IF saves[s].ours THEN Clean(ok) ELSE dirty
    /\ saves' = [saves EXCEPT ![s] = NoSave]
    /\ UNCHANGED <<doc, stepIndex, selection, historyVars, dragVars, stored, used, edits, touched>>

\* The page is left, and the board opened again: a new store.
Reopen ==
    /\ doc' = stored
    /\ stepIndex' = 1
    /\ selection' = Nothing /\ drag' = Nothing /\ moved' = FALSE
    /\ undoStack' = <<>> /\ redoStack' = <<>>
    /\ gestureOpen' = FALSE /\ dirty' = FALSE
    /\ saves' = [s \in Saves |-> [saves[s] EXCEPT !.ours = FALSE]]
    /\ touched' = SavePending
    /\ UNCHANGED <<stored, used, edits>>

-----------------------------------------------------------------------------
BoardNext ==
    \/ Undo \/ Redo
    \/ \E o \in Objects, x \in Places : Place(o, x) \/ DuplicateSelection(o, x)
    \/ \E side \in Sides, S \in SUBSET Objects : \E at \in [S -> Places] : AddFormation(side, S, at)
    \/ DeleteSelection
    \/ \E side \in Sides : RemoveTeam(side)
    \/ \E o \in Objects : Grab(o)
    \/ \E d \in Drawings : SelectDrawing(d) \/ Stroke(d)
    \/ Deselect
    \/ \E x \in Places, done \in BOOLEAN : MoveObject(x, done)
    \/ LetGo
    \/ \E i \in DOMAIN doc.steps : GoToStep(i)
    \/ AddStep
    \/ \E D \in SUBSET Drawings : DuplicateStep(D)
    \/ \E from, to \in DOMAIN doc.steps : MoveStep(from, to)
    \/ DeleteStep
    \/ ClearBoard
    \/ \E s \in Saves : SendSave(s) \/ Store(s) \/ (\E ok \in BOOLEAN : SaveEnds(s, ok))
    \/ Reopen

BoardSpec == BoardInit /\ [][BoardNext]_boardVars

-----------------------------------------------------------------------------
\* Whatever is undone, deleted, reordered or reopened, what is selected is on
\* the board, a drawing in the step on screen.
SelectionIsOnBoard ==
    selection # Nothing => selection \in doc.objects \cup Here.drawings

\* The two stacks are one line of versions with a cursor (apply, undo, redo):
\* no version is lost, repeated or out of order, and there are never more
\* than HISTORY_LIMIT edits to undo.
Timeline ==
    INSTANCE EditTimeline WITH
        Limit  <- HistoryLimit,
        line   <- undoStack \o <<doc>> \o Reverse(redoStack),
        cursor <- Len(undoStack) + 1

StacksAreTimeline == Timeline!TimelineSpec

\* deleteStep: "Positions set in it are carried into the next step, so
\* everything after it stays where it was rather than jumping back."
DeletionMovesNothing ==
    [][DeleteStep =>
         \A k \in DOMAIN doc'.steps, o \in Objects :
            Where(doc', k, o) = Where(doc, IF k < stepIndex THEN k ELSE k + 1, o)]_boardVars

\* moveStep: "Every step then looks the same as before; only the order they
\* play in has changed."
LooksTheSame(from, to, o) ==
    \A k \in DOMAIN doc.steps :
       Where(doc', k, o) = Where(doc, Order(Len(doc.steps), from, to)[k], o)

\* It holds for what is on the board from the first step on.
ReorderKeepsTheLook ==
    [][\A from, to \in DOMAIN doc.steps : MoveStep(from, to) =>
          \A o \in doc.objects : Where(doc, 1, o) # Unset => LooksTheSame(from, to, o)]_boardVars

ReorderKeepsEveryLook ==
    [][\A from, to \in DOMAIN doc.steps : MoveStep(from, to) =>
          \A o \in doc.objects : LooksTheSame(from, to, o)]_boardVars

\* "Changed since the last save or load": a board that is not dirty is the
\* stored one.  Not so when it was changed while a save was in flight, whose
\* answer marks it saved as it now is (save, markSaved).
CleanMeansStored == ~dirty /\ ~touched => doc = stored

=============================================================================
