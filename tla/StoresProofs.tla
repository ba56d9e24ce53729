---------------------------- MODULE StoresProofs ----------------------------
(***************************************************************************)
(* Proofs about the two stores that live and die with their page.          *)
(*                                                                         *)
(* The board of the tactics editor: for any set of objects and drawings,   *)
(* any boards, any limit on the history and any number of saves in flight. *)
(*                                                                         *)
(* Played for both: for any careers and any choice of timers.  No timer of *)
(* an earlier round reveals the pair on the board: the interval the page   *)
(* knows of is the only one, so whatever stops it, stops them all.  A pair *)
(* that is drawn is one that a player answers, or no allowed pair has an   *)
(* answer.                                                                 *)
(***************************************************************************)
EXTENDS MCStores, SequenceTheorems, FiniteSetTheorems, WellFoundedInduction, TLAPS

-----------------------------------------------------------------------------
(* Numbers.  Induction is by sets: S holds the numbers of which the claim  *)
(* is true.                                                                *)
LEMMA LeastElement ==
    ASSUME NEW T, T \subseteq Nat, T # {}
    PROVE  \E x \in T : \A y \in T : x <= y
  <1>1. PICK x \in T : \A y \in T : ~ (<<y, x>> \in OpToRel(<, Nat))
    BY NatLessThanWellFounded, WFMin
  <1>2. \A y \in T : y \in Nat /\ x \in Nat /\ ~(y < x)
    BY <1>1 DEF OpToRel
  <1> QED
    BY <1>2

LEMMA SetInduction ==
    ASSUME NEW S, 0 \in S, \A k \in Nat : k \in S => k + 1 \in S
    PROVE  \A k \in Nat : k \in S
  <1> SUFFICES ASSUME Nat \ S # {} PROVE FALSE
    OBVIOUS
  <1>1. PICK x \in Nat \ S : \A y \in Nat \ S : x <= y
    BY LeastElement
  <1>2. x - 1 \in Nat /\ ~(x <= x - 1)
    BY <1>1
  <1>3. x - 1 \in S
    BY <1>1, <1>2
  <1> QED
    BY <1>1, <1>2, <1>3

-----------------------------------------------------------------------------
(* Where an object stands.                                                 *)
LEMMA NowhereAtFirst ==
    ASSUME NEW d, NEW o
    PROVE  Where(d, 0, o) = Unset
  BY DEF Where, SelectLastInSubSeq

(* A step decides where an object stands, or leaves it where it stood.     *)
LEMMA WhereStep ==
    ASSUME NEW d, NEW o, NEW i \in Nat \ {0}
    PROVE  Where(d, i, o) = IF d.steps[i].pos[o] # Unset THEN d.steps[i].pos[o]
                            ELSE Where(d, i - 1, o)
  <1> DEFINE I(k) == {j \in 1 .. k : d.steps[j].pos[o] # Unset}
  <1>1. \A k : Where(d, k, o) = IF I(k) = {} THEN Unset
                                ELSE IF Max(I(k)) = 0 THEN Unset ELSE d.steps[Max(I(k))].pos[o]
    BY DEF Where, SelectLastInSubSeq
  <1>2. CASE d.steps[i].pos[o] # Unset
    <2>1. i \in I(i) /\ \A y \in I(i) : y \in Nat /\ i >= y
      BY <1>2
    <2>2. Max(I(i)) = i
      BY <2>1 DEF Max
    <2> QED
      BY <1>1, <1>2, <2>1, <2>2
  <1>3. CASE d.steps[i].pos[o] = Unset
    <2>1. I(i) = I(i - 1)
      BY <1>3
    <2> HIDE DEF I
    <2> QED
      BY <1>1, <1>3, <2>1
  <1> QED
    BY <1>2, <1>3

-----------------------------------------------------------------------------
(* Documents that are on the screen, in the history, or saved.             *)
Version == {d \in Doc : d.steps # <<>>}

LEMMA VersionFacts ==
    ASSUME NEW d \in Version
    PROVE  /\ d \in Doc
           /\ d.objects \subseteq Objects
           /\ d.steps \in Seq(Step) /\ d.steps # <<>>
           /\ Len(d.steps) \in Nat \ {0} /\ DOMAIN d.steps = 1 .. Len(d.steps)
           /\ \A i \in DOMAIN d.steps : /\ d.steps[i] \in Step
                                        /\ d.steps[i].pos \in [Objects -> Places \cup {Unset}]
                                        /\ d.steps[i].drawings \subseteq Drawings
  <1>1. d \in Doc /\ d.objects \subseteq Objects /\ d.steps \in Seq(Step) /\ d.steps # <<>>
    BY DEF Version, Doc
  <1>2. Len(d.steps) \in Nat \ {0} /\ DOMAIN d.steps = 1 .. Len(d.steps)
    BY <1>1
  <1>3. \A i \in DOMAIN d.steps : d.steps[i] \in Step
    BY <1>1
  <1>4. \A s \in Step : s.pos \in [Objects -> Places \cup {Unset}] /\ s.drawings \subseteq Drawings
    BY DEF Step
  <1> QED
    BY <1>1, <1>2, <1>3, <1>4

LEMMA IsVersion ==
    ASSUME NEW S \in SUBSET Objects, NEW q \in Seq(Step), q # <<>>
    PROVE  [objects |-> S, steps |-> q] \in Version
  BY DEF Version, Doc

LEMMA EmptyIsVersion ==
    /\ NewStep \in Step /\ EmptyDoc \in Version
    /\ EmptyDoc.objects = {} /\ Len(EmptyDoc.steps) = 1
  <1>1. NewStep \in Step
    BY DEF NewStep, Step
  <1>2. <<NewStep>> \in Seq(Step) /\ <<NewStep>> # <<>> /\ Len(<<NewStep>>) = 1
    BY <1>1
  <1> QED
    BY <1>1, <1>2, IsVersion DEF EmptyDoc

LEMMA WithStepFacts ==
    ASSUME NEW d \in Version, NEW i \in DOMAIN d.steps, NEW s \in Step
    PROVE  /\ WithStep(d, i, s) \in Version
           /\ WithStep(d, i, s).objects = d.objects
           /\ DOMAIN WithStep(d, i, s).steps = DOMAIN d.steps
           /\ WithStep(d, i, s).steps[i] = s
  <1> DEFINE q == [d.steps EXCEPT ![i] = s]
  <1>1. d.steps \in Seq(Step) /\ d.steps # <<>> /\ d.objects \subseteq Objects /\ d \in Doc
    BY VersionFacts
  <1>2. q \in Seq(Step) /\ DOMAIN q = DOMAIN d.steps /\ q # <<>> /\ q[i] = s
    BY <1>1
  <1>3. WithStep(d, i, s) = [objects |-> d.objects, steps |-> q]
    BY <1>1 DEF WithStep, Doc
  <1> HIDE DEF q
  <1> QED
    BY <1>1, <1>2, <1>3, IsVersion

-----------------------------------------------------------------------------
(* The invariant.                                                          *)
SaveJob == [pc: {"idle", "sent", "answered"}, ours: BOOLEAN, content: Version]

Typed ==
    /\ doc \in Version
    /\ stepIndex \in DOMAIN doc.steps
    /\ undoStack \in Seq(Version) /\ redoStack \in Seq(Version)
    /\ gestureOpen \in BOOLEAN /\ dirty \in BOOLEAN /\ touched \in BOOLEAN
    /\ drag \in Objects \cup {Nothing} /\ moved \in BOOLEAN
    /\ saves \in [Saves -> SaveJob]
    /\ stored \in Version
    /\ used \subseteq Objects \cup Drawings
    /\ edits \in 0 .. MaxEdits

(* A save that no change has crossed carries the board as it is, and has   *)
(* put it in the store once it is answered.                                *)
SavesUpToDate ==
    ~touched => \A s \in Saves : saves[s].pc # "idle"
                  => /\ saves[s].ours /\ saves[s].content = doc
                     /\ saves[s].pc = "answered" => stored = doc

(* A drag that goes on has nothing to redo.                                *)
GestureIsLatest == gestureOpen => redoStack = <<>>

BoardInv ==
    /\ Typed
    /\ SelectionIsOnBoard
    /\ SavesUpToDate
    /\ CleanMeansStored
    /\ GestureIsLatest

LEMMA InvImpliesType == BoardInv => BoardTypeOK
  <1> SUFFICES ASSUME BoardInv PROVE BoardTypeOK
    OBVIOUS
  <1> USE DEF BoardInv, Typed
  <1>1. \A d \in Version : d \in Doc /\ d.steps # <<>>
    BY DEF Version
  <1>2. selection \in Objects \cup Drawings \cup {Nothing}
    BY VersionFacts DEF SelectionIsOnBoard, Here
  <1>3. \A q \in Seq(Version) : q \in Seq(Doc) /\ \A h \in ToSet(q) : h.steps # <<>>
    BY <1>1 DEF ToSet
  <1>4. saves \in [Saves -> Save] /\ \A s \in Saves : saves[s].content.steps # <<>>
    <2>1. \A j \in SaveJob : j \in Save /\ j.content.steps # <<>>
      BY <1>1 DEF SaveJob, Save
    <2> QED
      BY <2>1
  <1> QED
    BY <1>1, <1>2, <1>3, <1>4 DEF BoardTypeOK

LEMMA BoardInvInit == BoardInit => BoardInv
  <1> SUFFICES ASSUME BoardInit PROVE BoardInv
    OBVIOUS
  <1> USE DEF BoardInit
  <1>1. doc \in Version /\ stored \in Version
    BY BoardsAssumption DEF Version
  <1>2. NoSave \in SaveJob /\ NoSave.pc = "idle"
    BY EmptyIsVersion DEF NoSave, SaveJob
  <1>3. used \subseteq Objects \cup Drawings
    BY <1>1, VersionFacts DEF ToSet
  <1>4. Typed
    <2>1. stepIndex \in DOMAIN doc.steps
      BY <1>1, VersionFacts
    <2>2. saves \in [Saves -> SaveJob]
      BY <1>2
    <2>3. edits \in 0 .. MaxEdits
      BY EditorAssumption
    <2>4. undoStack \in Seq(Version) /\ redoStack \in Seq(Version)
      OBVIOUS
    <2>5. gestureOpen \in BOOLEAN /\ dirty \in BOOLEAN /\ touched \in BOOLEAN /\ moved \in BOOLEAN
      OBVIOUS
    <2>6. drag \in Objects \cup {Nothing}
      OBVIOUS
    <2> HIDE DEF BoardInit
    <2> QED
      BY <1>1, <1>3, <2>1, <2>2, <2>3, <2>4, <2>5, <2>6 DEF Typed
  <1>5. SelectionIsOnBoard /\ SavesUpToDate /\ CleanMeansStored /\ GestureIsLatest
    BY <1>2 DEF SelectionIsOnBoard, SavesUpToDate, CleanMeansStored, GestureIsLatest
  <1> QED
    BY <1>4, <1>5 DEF BoardInv

-----------------------------------------------------------------------------
LEMMA KeptIsSeq ==
    ASSUME NEW S, NEW q \in Seq(S)
    PROVE  Kept(q) \in Seq(S)
  <1>1. CASE Len(q) >= HistoryLimit
    <2>1. Len(q) - HistoryLimit + 2 \in 1 .. Len(q) + 1
      BY <1>1, EditorAssumption
    <2>2. SubSeq(q, Len(q) - HistoryLimit + 2, Len(q)) \in Seq(S)
      BY <2>1, SubSeqProperties
    <2> QED
      BY <1>1, <2>2 DEF Kept
  <1>2. CASE ~(Len(q) >= HistoryLimit)
    BY <1>2 DEF Kept
  <1> QED
    BY <1>1, <1>2

(* Every edit passes through apply: what is left to show of one is that it *)
(* makes a version in which the step on screen and the selection exist.    *)
LEMMA ApplySafe ==
    ASSUME BoardInv, NEW next \in Version, NEW phase, Apply(next, phase),
           stepIndex' \in DOMAIN next.steps,
           selection' # Nothing
             => selection' \in next.objects \cup next.steps[stepIndex'].drawings,
           drag' \in Objects \cup {Nothing}, moved' \in BOOLEAN,
           used' \subseteq Objects \cup Drawings
    PROVE  BoardInv'
  <1> USE DEF BoardInv, Apply, saveVars
  <1>1. doc' = next /\ dirty' = TRUE /\ UNCHANGED <<saves, stored>>
        /\ touched' = (touched \/ SavePending)
    OBVIOUS
  <1>2. Append(Kept(undoStack), doc) \in Seq(Version)
    BY KeptIsSeq DEF Typed
  <1>3. undoStack' \in Seq(Version) /\ redoStack' \in Seq(Version)
    <2>1. CASE gestureOpen
      BY <2>1 DEF Typed
    <2>2. CASE ~gestureOpen
      <3>1. undoStack' = Append(Kept(undoStack), doc) /\ redoStack' = <<>>
        BY <2>2
      <3> HIDE DEF BoardInv, Apply
      <3> QED
        BY <1>2, <3>1
    <2> QED
      BY <2>1, <2>2
  <1>4. edits' \in 0 .. MaxEdits
    BY EditorAssumption DEF Typed
  <1>5. gestureOpen' \in BOOLEAN /\ touched' \in BOOLEAN
    BY DEF Typed, SavePending
  <1>6. Typed'
    BY <1>1, <1>3, <1>4, <1>5 DEF Typed
  <1>7. SelectionIsOnBoard'
    BY <1>1 DEF SelectionIsOnBoard, Here
  <1>8. SavesUpToDate' /\ CleanMeansStored'
    BY <1>1 DEF SavesUpToDate, CleanMeansStored, SavePending
  <1>9. GestureIsLatest'
    BY DEF GestureIsLatest
  <1> QED
    BY <1>6, <1>7, <1>8, <1>9

LEMMA AfterHistorySafe ==
    ASSUME BoardInv, NEW d \in Version, AfterHistory(d),
           undoStack' \in Seq(Version), redoStack' \in Seq(Version)
    PROVE  BoardInv'
  <1> USE DEF BoardInv
  <1> DEFINE i == IF stepIndex > Len(d.steps) THEN Len(d.steps) ELSE stepIndex
  <1>1. i \in DOMAIN d.steps
    BY VersionFacts DEF Typed
  <1>2. /\ doc' = d /\ stepIndex' = i /\ selection' = StillThere(d, i)
        /\ gestureOpen' = FALSE /\ dirty' = TRUE /\ touched' = (touched \/ SavePending)
        /\ UNCHANGED <<drag, moved, saves, stored, used, edits>>
    BY DEF AfterHistory, dragVars, saveVars
  <1> HIDE DEF i
  <1>3. touched' \in BOOLEAN
    BY <1>2 DEF Typed, SavePending
  <1>4. Typed'
    BY <1>1, <1>2, <1>3 DEF Typed
  <1>5. SelectionIsOnBoard'
    BY <1>2 DEF SelectionIsOnBoard, Here, StillThere
  <1>6. SavesUpToDate' /\ CleanMeansStored' /\ GestureIsLatest'
    BY <1>2 DEF SavesUpToDate, CleanMeansStored, SavePending, GestureIsLatest
  <1> QED
    BY <1>4, <1>5, <1>6

LEMMA UndoSafe == BoardInv /\ Undo => BoardInv'
  <1> SUFFICES ASSUME BoardInv, Undo PROVE BoardInv'
    OBVIOUS
  <1>1. undoStack \in Seq(Version) /\ undoStack # <<>> /\ redoStack \in Seq(Version) /\ doc \in Version
    BY DEF BoardInv, Typed, Undo
  <1>2. Last(undoStack) \in Version /\ Front(undoStack) \in Seq(Version)
    BY <1>1 DEF Last, Front
  <1>3. Append(redoStack, doc) \in Seq(Version)
    BY <1>1
  <1> QED
    BY <1>2, <1>3, AfterHistorySafe DEF Undo

LEMMA RedoSafe == BoardInv /\ Redo => BoardInv'
  <1> SUFFICES ASSUME BoardInv, Redo PROVE BoardInv'
    OBVIOUS
  <1>1. redoStack \in Seq(Version) /\ redoStack # <<>> /\ undoStack \in Seq(Version) /\ doc \in Version
    BY DEF BoardInv, Typed, Redo
  <1>2. Last(redoStack) \in Version /\ Front(redoStack) \in Seq(Version)
    BY <1>1 DEF Last, Front
  <1>3. Append(undoStack, doc) \in Seq(Version)
    BY <1>1
  <1> QED
    BY <1>2, <1>3, AfterHistorySafe DEF Redo

LEMMA BoardFacts ==
    ASSUME BoardInv
    PROVE  /\ doc \in Version /\ stepIndex \in DOMAIN doc.steps
           /\ Here \in Step /\ Here = doc.steps[stepIndex]
           /\ Here.pos \in [Objects -> Places \cup {Unset}] /\ Here.drawings \subseteq Drawings
           /\ doc.objects \subseteq Objects /\ DOMAIN doc.steps = 1 .. Len(doc.steps)
           /\ Len(doc.steps) \in Nat \ {0} /\ doc.steps \in Seq(Step)
           /\ used \subseteq Objects \cup Drawings
           /\ drag \in Objects \cup {Nothing} /\ moved \in BOOLEAN
           /\ selection # Nothing => selection \in doc.objects \cup Here.drawings
           /\ saves \in [Saves -> SaveJob] /\ stored \in Version
  BY VersionFacts DEF BoardInv, Typed, Here, SelectionIsOnBoard

(* A step whose positions are changed.                                     *)
LEMMA StepWithPos ==
    ASSUME NEW s \in Step, NEW f \in [Objects -> Places \cup {Unset}]
    PROVE  /\ [s EXCEPT !.pos = f] \in Step
           /\ [s EXCEPT !.pos = f].pos = f
           /\ [s EXCEPT !.pos = f].drawings = s.drawings
  BY DEF Step

LEMMA StepWithDrawings ==
    ASSUME NEW s \in Step, NEW D \in SUBSET Drawings
    PROVE  /\ [s EXCEPT !.drawings = D] \in Step
           /\ [s EXCEPT !.drawings = D].drawings = D
           /\ [s EXCEPT !.drawings = D].pos = s.pos
  BY DEF Step

LEMMA AddedFacts ==
    ASSUME BoardInv, NEW S \in SUBSET Objects, NEW at \in [S -> Places]
    PROVE  /\ Added(S, at) \in Version
           /\ Added(S, at).objects = doc.objects \cup S
           /\ DOMAIN Added(S, at).steps = DOMAIN doc.steps
           /\ Added(S, at).steps[stepIndex].drawings = Here.drawings
  <1> DEFINE f == [o \in Objects |-> IF o \in S THEN at[o] ELSE Here.pos[o]]
             s == [Here EXCEPT !.pos = f]
             w == WithStep(doc, stepIndex, s)
  <1>1. f \in [Objects -> Places \cup {Unset}]
    BY BoardFacts
  <1>2. Added(S, at) = [w EXCEPT !.objects = w.objects \cup S]
    BY DEF Added
  <1> HIDE DEF f
  <1>3. s \in Step /\ s.drawings = Here.drawings
    BY <1>1, BoardFacts, StepWithPos
  <1> HIDE DEF s
  <1>4. /\ w \in Version /\ w.objects = doc.objects
        /\ DOMAIN w.steps = DOMAIN doc.steps /\ w.steps[stepIndex] = s
    BY <1>3, BoardFacts, WithStepFacts
  <1> HIDE DEF w
  <1>5. w \in Doc /\ w.steps \in Seq(Step) /\ w.steps # <<>> /\ w.objects \cup S \in SUBSET Objects
    BY <1>4, VersionFacts
  <1>6. Added(S, at) = [objects |-> w.objects \cup S, steps |-> w.steps]
    BY <1>2, <1>5 DEF Doc
  <1> QED
    BY <1>3, <1>4, <1>5, <1>6, IsVersion

LEMMA AddSafe ==
    ASSUME BoardInv, NEW S \in SUBSET Objects, NEW at \in [S -> Places],
           Apply(Added(S, at), "once"), used' = used \cup S,
           UNCHANGED <<stepIndex, drag, moved>>,
           selection' \in S \cup {selection}
    PROVE  BoardInv'
  <1> DEFINE next == Added(S, at)
  <1>1. /\ next \in Version /\ next.objects = doc.objects \cup S
        /\ DOMAIN next.steps = DOMAIN doc.steps
        /\ next.steps[stepIndex].drawings = Here.drawings
    BY AddedFacts
  <1> HIDE DEF next
  <1>2. selection' # Nothing => selection' \in next.objects \cup next.steps[stepIndex'].drawings
    BY <1>1, BoardFacts
  <1>3. stepIndex' \in DOMAIN next.steps /\ used' \subseteq Objects \cup Drawings
    BY <1>1, BoardFacts
  <1> QED
    BY <1>1, <1>2, <1>3, BoardFacts, ApplySafe DEF next

LEMMA PlaceSafe ==
    ASSUME BoardInv, NEW o \in Objects, NEW x \in Places,
           Place(o, x) \/ DuplicateSelection(o, x)
    PROVE  BoardInv'
  <1> DEFINE at == [i \in {o} |-> x]
  <1>1. /\ Apply(Added({o}, at), "once") /\ selection' = o /\ used' = used \cup {o}
        /\ UNCHANGED <<stepIndex, drag, moved>>
    BY DEF Place, DuplicateSelection, dragVars
  <1>2. {o} \in SUBSET Objects /\ at \in [{o} -> Places]
    OBVIOUS
  <1> HIDE DEF at
  <1> QED
    BY <1>1, <1>2, AddSafe

LEMMA AddFormationSafe ==
    ASSUME BoardInv, NEW side, NEW S \in SUBSET Objects, NEW at \in [S -> Places],
           AddFormation(side, S, at)
    PROVE  BoardInv'
  BY AddSafe DEF AddFormation, dragVars

LEMMA WithoutFacts ==
    ASSUME BoardInv, NEW S
    PROVE  Without(S) \in Version /\ DOMAIN Without(S).steps = DOMAIN doc.steps
  <1> DEFINE f(i) == [o \in Objects |-> IF o \in S THEN Unset ELSE doc.steps[i].pos[o]]
             q == [i \in DOMAIN doc.steps |-> [doc.steps[i] EXCEPT !.pos = f(i)]]
  <1>1. \A i \in DOMAIN doc.steps : f(i) \in [Objects -> Places \cup {Unset}]
    BY BoardFacts, VersionFacts
  <1>2. Without(S) = [objects |-> doc.objects \ S, steps |-> q]
    BY DEF Without
  <1> HIDE DEF f
  <1>3. \A i \in DOMAIN doc.steps : q[i] \in Step
    BY <1>1, BoardFacts, VersionFacts, StepWithPos
  <1>4. q \in Seq(Step) /\ q # <<>> /\ DOMAIN q = DOMAIN doc.steps
    <2> DEFINE n == Len(doc.steps)
    <2>1. n \in Nat \ {0} /\ DOMAIN doc.steps = 1 .. n
      BY BoardFacts
    <2> HIDE DEF n
    <2>2. q \in [1 .. n -> Step] /\ DOMAIN q = DOMAIN doc.steps
      BY <1>3, <2>1
    <2> HIDE DEF q
    <2> QED
      BY <2>1, <2>2
  <1>5. doc.objects \ S \in SUBSET Objects
    BY BoardFacts
  <1> HIDE DEF q
  <1> QED
    BY <1>2, <1>4, <1>5, IsVersion

LEMMA DeleteSelectionSafe == BoardInv /\ DeleteSelection => BoardInv'
  <1> SUFFICES ASSUME BoardInv, DeleteSelection PROVE BoardInv'
    OBVIOUS
  <1>1. /\ selection' = Nothing /\ UNCHANGED <<stepIndex, drag, moved, used>>
        /\ stepIndex \in DOMAIN doc.steps
    BY BoardFacts DEF DeleteSelection, dragVars
  <1>2. CASE SelectedDrawing
    <2> DEFINE s == [Here EXCEPT !.drawings = Here.drawings \ {selection}]
    <2>1. Apply(WithStep(doc, stepIndex, s), "once")
      BY <1>2 DEF DeleteSelection
    <2>2. s \in Step
      BY BoardFacts, StepWithDrawings
    <2> HIDE DEF s
    <2>3. WithStep(doc, stepIndex, s) \in Version
          /\ DOMAIN WithStep(doc, stepIndex, s).steps = DOMAIN doc.steps
      BY <2>2, BoardFacts, WithStepFacts
    <2> QED
      BY <1>1, <2>1, <2>3, BoardFacts, ApplySafe
  <1>3. CASE ~SelectedDrawing
    <2>1. Apply(Without({selection}), "once")
      BY <1>3 DEF DeleteSelection
    <2> QED
      BY <1>1, <2>1, BoardFacts, WithoutFacts, ApplySafe
  <1> QED
    BY <1>2, <1>3

LEMMA RemoveTeamSafe ==
    ASSUME BoardInv, NEW side, RemoveTeam(side)
    PROVE  BoardInv'
  <1> DEFINE gone == {o \in doc.objects : SideOf[o] = side}
  <1>1. /\ Apply(Without(gone), "once") /\ selection' = Nothing
        /\ UNCHANGED <<stepIndex, drag, moved, used>>
    BY DEF RemoveTeam, dragVars
  <1> HIDE DEF gone
  <1> QED
    BY <1>1, BoardFacts, WithoutFacts, ApplySafe

LEMMA MoveObjectSafe ==
    ASSUME BoardInv, NEW x \in Places, NEW done \in BOOLEAN, MoveObject(x, done)
    PROVE  BoardInv'
  <1> DEFINE f == [Here.pos EXCEPT ![drag] = x]
             s == [Here EXCEPT !.pos = f]
             next == WithStep(doc, stepIndex, s)
  <1>1. /\ Apply(WithStep(doc, stepIndex, [Here EXCEPT !.pos[drag] = x]),
                 IF done THEN "end" ELSE "move")
        /\ drag' = (IF done THEN Nothing ELSE drag) /\ moved' = ~done
        /\ UNCHANGED <<stepIndex, selection, used>>
    BY DEF MoveObject
  <1>2. f \in [Objects -> Places \cup {Unset}]
    BY BoardFacts
  <1>3. [Here EXCEPT !.pos[drag] = x] = s
    BY BoardFacts DEF Step
  <1> HIDE DEF f
  <1>4. s \in Step /\ s.drawings = Here.drawings
    BY <1>2, BoardFacts, StepWithPos
  <1> HIDE DEF s
  <1>5. /\ next \in Version /\ next.objects = doc.objects
        /\ DOMAIN next.steps = DOMAIN doc.steps /\ next.steps[stepIndex] = s
    BY <1>4, BoardFacts, WithStepFacts
  <1>6. Apply(next, IF done THEN "end" ELSE "move")
    BY <1>1, <1>3
  <1> HIDE DEF next
  <1>7. selection' # Nothing => selection' \in next.objects \cup next.steps[stepIndex'].drawings
    BY <1>1, <1>4, <1>5, BoardFacts
  <1>8. drag' \in Objects \cup {Nothing} /\ moved' \in BOOLEAN
        /\ stepIndex' \in DOMAIN next.steps /\ used' \subseteq Objects \cup Drawings
    BY <1>1, <1>5, BoardFacts
  <1> QED
    BY <1>5, <1>6, <1>7, <1>8, ApplySafe

LEMMA StrokeSafe ==
    ASSUME BoardInv, NEW d \in Drawings, Stroke(d)
    PROVE  BoardInv'
  <1> DEFINE s == [Here EXCEPT !.drawings = Here.drawings \cup {d}]
             next == WithStep(doc, stepIndex, s)
  <1>1. /\ Apply(next, "once") /\ selection' = d /\ used' = used \cup {d}
        /\ UNCHANGED <<stepIndex, drag, moved>>
    BY DEF Stroke, dragVars
  <1>2. s \in Step /\ d \in s.drawings
    <2>1. Here \in Step /\ Here.drawings \cup {d} \in SUBSET Drawings
      BY BoardFacts
    <2> QED
      BY <2>1, StepWithDrawings
  <1> HIDE DEF s
  <1>3. /\ next \in Version /\ DOMAIN next.steps = DOMAIN doc.steps
        /\ next.steps[stepIndex] = s
    BY <1>2, BoardFacts, WithStepFacts
  <1> HIDE DEF next
  <1>4. stepIndex' \in DOMAIN next.steps /\ used' \subseteq Objects \cup Drawings
        /\ selection' \in next.objects \cup next.steps[stepIndex'].drawings
    BY <1>1, <1>2, <1>3, BoardFacts
  <1> QED
    BY <1>1, <1>3, <1>4, BoardFacts, ApplySafe

-----------------------------------------------------------------------------
(* Steps.                                                                  *)
LEMMA RemoveAtFacts ==
    ASSUME NEW S, NEW q \in Seq(S), NEW i \in 1 .. Len(q)
    PROVE  /\ RemoveAt(q, i) \in Seq(S)
           /\ Len(RemoveAt(q, i)) = Len(q) - 1
           /\ \A k \in 1 .. Len(q) - 1 : RemoveAt(q, i)[k] = IF k < i THEN q[k] ELSE q[k + 1]
  <1> DEFINE front == SubSeq(q, 1, i - 1)
             rest == SubSeq(q, i + 1, Len(q))
  <1>1. /\ front \in Seq(S) /\ Len(front) = i - 1 /\ \A k \in 1 .. i - 1 : front[k] = q[k]
        /\ rest \in Seq(S) /\ Len(rest) = Len(q) - i /\ \A k \in 1 .. Len(q) - i : rest[k] = q[i + k]
    <2>1. i \in Nat /\ Len(q) \in Nat /\ 1 <= i /\ i <= Len(q)
      OBVIOUS
    <2> QED
      BY <2>1
  <1>2. RemoveAt(q, i) = front \o rest
    BY DEF RemoveAt
  <1> HIDE DEF front, rest
  <1>3. front \o rest \in Seq(S) /\ Len(front \o rest) = Len(q) - 1
    <2>1. front \o rest \in Seq(S) /\ Len(front \o rest) = Len(front) + Len(rest)
      BY <1>1, ConcatProperties
    <2>2. i \in Int /\ Len(q) \in Int
      OBVIOUS
    <2> QED
      BY <1>1, <2>1, <2>2
  <1>4. ASSUME NEW k \in 1 .. Len(q) - 1
        PROVE  (front \o rest)[k] = IF k < i THEN q[k] ELSE q[k + 1]
    <2>1. CASE k < i
      BY <1>1, <2>1
    <2>2. CASE ~(k < i)
      <3>1. (front \o rest)[k] = rest[k - Len(front)]
        BY <1>1, <2>2
      <3>2. k - Len(front) \in 1 .. Len(q) - i /\ i + (k - Len(front)) = k + 1
        BY <1>1, <2>2
      <3> QED
        BY <1>1, <2>2, <3>1, <3>2
    <2> QED
      BY <2>1, <2>2
  <1> QED
    BY <1>2, <1>3, <1>4

LEMMA InsertAtFacts ==
    ASSUME NEW S, NEW q \in Seq(S), NEW i \in 1 .. Len(q) + 1, NEW e \in S
    PROVE  /\ InsertAt(q, i, e) \in Seq(S)
           /\ Len(InsertAt(q, i, e)) = Len(q) + 1
           /\ \A k \in 1 .. Len(q) + 1 :
                InsertAt(q, i, e)[k] = IF k < i THEN q[k] ELSE IF k = i THEN e ELSE q[k - 1]
  <1> DEFINE front == SubSeq(q, 1, i - 1)
             rest == SubSeq(q, i, Len(q))
             c == front \o <<e>>
  <1>1. /\ front \in Seq(S) /\ Len(front) = i - 1 /\ \A k \in 1 .. i - 1 : front[k] = q[k]
        /\ rest \in Seq(S) /\ Len(rest) = Len(q) - i + 1
        /\ \A k \in 1 .. Len(q) - i + 1 : rest[k] = q[i - 1 + k]
    <2>1. i \in Nat /\ Len(q) \in Nat /\ 1 <= i /\ i <= Len(q) + 1
      OBVIOUS
    <2> QED
      BY <2>1
  <1>2. InsertAt(q, i, e) = c \o rest
    BY DEF InsertAt
  <1> HIDE DEF front, rest
  <1>3. c \in Seq(S) /\ Len(c) = i /\ c[i] = e /\ \A k \in 1 .. i - 1 : c[k] = q[k]
    <2>1. i \in Int /\ 1 <= i
      OBVIOUS
    <2>2. c = Append(front, e) /\ front \in Seq(S)
      BY <1>1, AppendIsConcat
    <2> HIDE DEF c
    <2>3. /\ c \in Seq(S) /\ Len(c) = Len(front) + 1
          /\ c[Len(front) + 1] = e /\ \A k \in 1 .. Len(front) : c[k] = front[k]
      BY <2>2, AppendProperties
    <2>4. Len(front) = i - 1 /\ Len(front) + 1 = i
      BY <1>1, <2>1
    <2>5. \A k \in 1 .. i - 1 : front[k] = q[k]
      BY <1>1
    <2> QED
      BY <2>3, <2>4, <2>5
  <1> HIDE DEF c
  <1>4. c \o rest \in Seq(S) /\ Len(c \o rest) = Len(q) + 1
    <2>1. c \o rest \in Seq(S) /\ Len(c \o rest) = Len(c) + Len(rest)
      BY <1>1, <1>3, ConcatProperties
    <2>2. i \in Int /\ Len(q) \in Int
      OBVIOUS
    <2> QED
      BY <1>1, <1>3, <2>1, <2>2
  <1>5. ASSUME NEW k \in 1 .. Len(q) + 1
        PROVE  (c \o rest)[k] = IF k < i THEN q[k] ELSE IF k = i THEN e ELSE q[k - 1]
    <2>1. CASE k <= i
      BY <1>1, <1>3, <2>1
    <2>2. CASE ~(k <= i)
      <3>1. (c \o rest)[k] = rest[k - i]
        BY <1>1, <1>3, <2>2
      <3>2. k - i \in 1 .. Len(q) - i + 1 /\ i - 1 + (k - i) = k - 1
        BY <2>2
      <3> QED
        BY <1>1, <2>2, <3>1, <3>2
    <2> QED
      BY <2>1, <2>2
  <1> QED
    BY <1>2, <1>4, <1>5

(* Leaving a step drops a drawing from the selection, never an object.     *)
LEMMA DropDrawingFacts ==
    ASSUME BoardInv, DropDrawing
    PROVE  selection' # Nothing => selection' \in doc.objects
  BY BoardFacts, EditorAssumption DEF DropDrawing, SelectedDrawing

(* Steps that change neither the board nor its history.                    *)
LEMMA QuietSafe ==
    ASSUME BoardInv,
           UNCHANGED <<doc, historyVars, dirty, saveVars, used, edits, touched>>,
           stepIndex' \in DOMAIN doc.steps,
           selection' # Nothing
             => selection' \in doc.objects \cup doc.steps[stepIndex'].drawings,
           drag' \in Objects \cup {Nothing}, moved' \in BOOLEAN
    PROVE  BoardInv'
  <1>1. UNCHANGED <<doc, undoStack, redoStack, gestureOpen, dirty, saves, stored, used, edits, touched>>
    BY DEF historyVars, saveVars
  <1>2. Typed'
    BY <1>1 DEF BoardInv, Typed
  <1>3. SelectionIsOnBoard'
    BY <1>1 DEF SelectionIsOnBoard, Here
  <1>4. SavesUpToDate' /\ CleanMeansStored' /\ GestureIsLatest'
    BY <1>1 DEF BoardInv, SavesUpToDate, CleanMeansStored, GestureIsLatest
  <1> QED
    BY <1>2, <1>3, <1>4 DEF BoardInv

LEMMA GrabSafe == ASSUME BoardInv, NEW o \in Objects, Grab(o) PROVE BoardInv'
  BY BoardFacts, QuietSafe DEF Grab

LEMMA SelectDrawingSafe == ASSUME BoardInv, NEW d \in Drawings, SelectDrawing(d) PROVE BoardInv'
  BY BoardFacts, QuietSafe DEF SelectDrawing

LEMMA DeselectSafe == BoardInv /\ Deselect => BoardInv'
  BY BoardFacts, QuietSafe DEF Deselect, dragVars

LEMMA LetGoSafe == BoardInv /\ LetGo => BoardInv'
  BY BoardFacts, QuietSafe DEF LetGo

LEMMA GoToStepSafe == ASSUME BoardInv, NEW i \in DOMAIN doc.steps, GoToStep(i) PROVE BoardInv'
  BY BoardFacts, DropDrawingFacts, QuietSafe DEF GoToStep, dragVars

LEMMA InsertStepSafe ==
    ASSUME BoardInv, NEW s \in Step, InsertStep(s), used' \subseteq Objects \cup Drawings
    PROVE  BoardInv'
  <1> DEFINE q == InsertAt(doc.steps, stepIndex + 1, s)
             next == [doc EXCEPT !.steps = q]
  <1>1. /\ Apply(next, "once") /\ stepIndex' = stepIndex + 1 /\ DropDrawing
        /\ UNCHANGED <<drag, moved>>
    BY DEF InsertStep, dragVars
  <1>2. doc.steps \in Seq(Step) /\ stepIndex + 1 \in 1 .. Len(doc.steps) + 1
    BY BoardFacts
  <1>3. q \in Seq(Step) /\ Len(q) = Len(doc.steps) + 1
    BY <1>2, InsertAtFacts
  <1> HIDE DEF q
  <1>4. q # <<>> /\ stepIndex + 1 \in DOMAIN q
    BY <1>2, <1>3, BoardFacts
  <1>5. next = [objects |-> doc.objects, steps |-> q]
    BY BoardFacts, VersionFacts DEF Doc
  <1>6. doc.objects \in SUBSET Objects
    BY BoardFacts
  <1> HIDE DEF next
  <1>7. next \in Version /\ next.objects = doc.objects /\ next.steps = q
    BY <1>3, <1>4, <1>5, <1>6, IsVersion
  <1>8. selection' # Nothing => selection' \in next.objects
    BY <1>1, <1>7, DropDrawingFacts
  <1> QED
    BY <1>1, <1>4, <1>7, <1>8, BoardFacts, ApplySafe

LEMMA AddStepSafe == BoardInv /\ AddStep => BoardInv'
  BY BoardFacts, EmptyIsVersion, InsertStepSafe DEF AddStep

LEMMA DuplicateStepSafe ==
    ASSUME BoardInv, NEW D \in SUBSET Drawings, DuplicateStep(D)
    PROVE  BoardInv'
  <1>1. [NewStep EXCEPT !.drawings = D] \in Step
    BY EmptyIsVersion, StepWithDrawings
  <1>2. used' \subseteq Objects \cup Drawings
    BY BoardFacts DEF DuplicateStep
  <1> QED
    BY <1>1, <1>2, InsertStepSafe DEF DuplicateStep

LEMMA ClearBoardSafe == BoardInv /\ ClearBoard => BoardInv'
  <1> SUFFICES ASSUME BoardInv, ClearBoard PROVE BoardInv'
    OBVIOUS
  <1>1. /\ Apply(EmptyDoc, "once") /\ stepIndex' = 1 /\ selection' = Nothing
        /\ UNCHANGED <<drag, moved, used>>
    BY DEF ClearBoard, dragVars
  <1>2. EmptyDoc \in Version /\ 1 \in DOMAIN EmptyDoc.steps
    BY EmptyIsVersion, VersionFacts
  <1> QED
    BY <1>1, <1>2, BoardFacts, ApplySafe

(* What a reordered or shortened board stores is a step again.             *)
LEMMA WhereType ==
    ASSUME NEW d \in Version, NEW o \in Objects
    PROVE  \A k \in 0 .. Len(d.steps) : Where(d, k, o) \in Places \cup {Unset}
  <1> DEFINE n == Len(d.steps)
             S == {k \in Nat : k <= n => Where(d, k, o) \in Places \cup {Unset}}
  <1>1. 0 \in S
    BY NowhereAtFirst
  <1>2. ASSUME NEW k \in Nat, k \in S PROVE k + 1 \in S
    <2>1. SUFFICES ASSUME k + 1 <= n PROVE Where(d, k + 1, o) \in Places \cup {Unset}
      OBVIOUS
    <2>2. n \in Nat /\ k + 1 \in DOMAIN d.steps
      BY <2>1, VersionFacts
    <2>3. d.steps[k + 1].pos[o] \in Places \cup {Unset}
      BY <2>2, VersionFacts
    <2>4. Where(d, k, o) \in Places \cup {Unset}
      BY <1>2, <2>1, <2>2
    <2>5. (k + 1) - 1 = k
      OBVIOUS
    <2> HIDE DEF S
    <2> QED
      BY <2>3, <2>4, <2>5, WhereStep
  <1> HIDE DEF S
  <1>3. \A k \in Nat : k \in S
    BY <1>1, <1>2, SetInduction
  <1> QED
    BY <1>3, VersionFacts DEF S

LEMMA OrderFacts ==
    ASSUME NEW n \in Nat, NEW from \in 1 .. n, NEW to \in 1 .. n
    PROVE  /\ Order(n, from, to) \in Seq(1 .. n) /\ Len(Order(n, from, to)) = n
           /\ \A k \in 1 .. n : Order(n, from, to)[k] \in 1 .. n
  <1> DEFINE id == [i \in 1 .. n |-> i]
             rest == RemoveAt(id, from)
  <1>1. id \in Seq(1 .. n) /\ Len(id) = n
    OBVIOUS
  <1> HIDE DEF id
  <1>2. rest \in Seq(1 .. n) /\ Len(rest) = n - 1
    BY <1>1, RemoveAtFacts
  <1>3. Order(n, from, to) = InsertAt(rest, to, from)
    BY DEF Order, id
  <1> HIDE DEF rest
  <1>4. InsertAt(rest, to, from) \in Seq(1 .. n) /\ Len(InsertAt(rest, to, from)) = n - 1 + 1
    BY <1>2, InsertAtFacts
  <1> QED
    BY <1>3, <1>4

LEMMA DifferenceType ==
    ASSUME NEW d \in Version, NEW q, NEW p \in DOMAIN d.steps
    PROVE  Difference(d, q, p) \in [Objects -> Places \cup {Unset}]
  <1>1. \A o \in Objects : Where(d, p, o) \in Places \cup {Unset}
    BY WhereType, VersionFacts
  <1> QED
    BY <1>1 DEF Difference

(* The board a reordering makes: the same steps, settled anew.             *)
Before(n, from, to, k) == IF k = 1 THEN 0 ELSE Order(n, from, to)[k - 1]

LEMMA MoveStepFacts ==
    ASSUME BoardInv, NEW from \in DOMAIN doc.steps, NEW to \in DOMAIN doc.steps,
           MoveStep(from, to)
    PROVE  LET n == Len(doc.steps)
               order == Order(n, from, to)
           IN /\ doc' \in Version /\ doc'.objects = doc.objects
              /\ DOMAIN doc'.steps = DOMAIN doc.steps
              /\ \A k \in 1 .. n :
                    /\ doc'.steps[k].pos = Difference(doc, Before(n, from, to, k), order[k])
                    /\ doc'.steps[k].drawings = doc.steps[order[k]].drawings
              /\ Apply(doc', "once")
  <1> DEFINE n == Len(doc.steps)
             order == Order(n, from, to)
             D(k) == Difference(doc, Before(n, from, to, k), order[k])
             q == [k \in DOMAIN doc.steps |-> [doc.steps[order[k]] EXCEPT !.pos = D(k)]]
             next == [doc EXCEPT !.steps = q]
  <1>1. Apply(next, "once")
    BY DEF MoveStep, Before
  <1>2. n \in Nat \ {0} /\ DOMAIN doc.steps = 1 .. n /\ from \in 1 .. n /\ to \in 1 .. n
        /\ doc \in Version
    BY BoardFacts
  <1>3. \A k \in 1 .. n : order[k] \in DOMAIN doc.steps
    BY <1>2, OrderFacts
  <1>4. \A k \in 1 .. n : D(k) \in [Objects -> Places \cup {Unset}]
    BY <1>2, <1>3, DifferenceType
  <1>5. \A k \in 1 .. n : doc.steps[order[k]] \in Step
    BY <1>2, <1>3, VersionFacts
  <1> HIDE DEF D, order
  <1>6. \A k \in 1 .. n : /\ q[k] \in Step /\ q[k].pos = D(k)
                          /\ q[k].drawings = doc.steps[order[k]].drawings
    BY <1>2, <1>4, <1>5, StepWithPos
  <1>7. q \in [1 .. n -> Step] /\ DOMAIN q = 1 .. n
    BY <1>2, <1>6
  <1> HIDE DEF q, n
  <1>8. q \in Seq(Step) /\ q # <<>>
    BY <1>2, <1>7
  <1>9. next = [objects |-> doc.objects, steps |-> q] /\ doc.objects \in SUBSET Objects
    BY <1>2, VersionFacts DEF Doc
  <1> HIDE DEF next
  <1>10. next \in Version /\ next.objects = doc.objects /\ next.steps = q
    BY <1>8, <1>9, IsVersion
  <1>11. doc' = next
    BY <1>1 DEF Apply
  <1> QED
    BY <1>1, <1>2, <1>6, <1>7, <1>10, <1>11 DEF n, order, D

LEMMA MoveStepSafe ==
    ASSUME BoardInv, NEW from \in DOMAIN doc.steps, NEW to \in DOMAIN doc.steps,
           MoveStep(from, to)
    PROVE  BoardInv'
  <1>1. stepIndex' = to /\ DropDrawing /\ UNCHANGED <<drag, moved, used>>
    BY DEF MoveStep, dragVars
  <1>2. /\ doc' \in Version /\ doc'.objects = doc.objects
        /\ DOMAIN doc'.steps = DOMAIN doc.steps /\ Apply(doc', "once")
    BY MoveStepFacts
  <1>3. selection' # Nothing => selection' \in doc'.objects
    BY <1>1, <1>2, DropDrawingFacts
  <1> QED
    BY <1>1, <1>2, <1>3, BoardFacts, ApplySafe

LEMMA CarriedType ==
    ASSUME NEW f \in [Objects -> Places \cup {Unset}], NEW g \in [Objects -> Places \cup {Unset}]
    PROVE  Carried(f, g) \in [Objects -> Places \cup {Unset}]
  BY DEF Carried

LEMMA DeleteStepFacts ==
    ASSUME BoardInv, DeleteStep
    PROVE  LET i == stepIndex
               n == Len(doc.steps)
           IN /\ doc' \in Version /\ Len(doc'.steps) = n - 1 /\ n > 1 /\ doc'.objects = doc.objects
              /\ \A k \in 1 .. n - 1 :
                    doc'.steps[k].pos =
                      IF k < i THEN doc.steps[k].pos
                      ELSE IF k = i THEN Carried(doc.steps[i].pos, doc.steps[i + 1].pos)
                      ELSE doc.steps[k + 1].pos
              /\ Apply(doc', "once")
  <1> DEFINE i == stepIndex
             n == Len(doc.steps)
             rest == RemoveAt(doc.steps, i)
             c == [rest EXCEPT ![i].pos = Carried(Here.pos, rest[i].pos)]
             q == IF i > Len(rest) THEN rest ELSE c
             next == [doc EXCEPT !.steps = q]
  <1>1. Apply(next, "once") /\ n > 1
    BY DEF DeleteStep
  <1>2. /\ n \in Nat \ {0} /\ DOMAIN doc.steps = 1 .. n /\ i \in 1 .. n /\ i \in Nat
        /\ doc \in Version /\ doc.steps \in Seq(Step) /\ Here = doc.steps[i]
    BY BoardFacts
  <1>3. /\ rest \in Seq(Step) /\ Len(rest) = n - 1
        /\ \A k \in 1 .. n - 1 : rest[k] = IF k < i THEN doc.steps[k] ELSE doc.steps[k + 1]
    BY <1>2, RemoveAtFacts
  <1>4. DOMAIN rest = 1 .. n - 1 /\ \A k \in 1 .. n - 1 : rest[k] \in Step
    BY <1>2, <1>3
  <1> HIDE DEF rest, n
  <1>5. q \in Seq(Step) /\ Len(q) = n - 1
        /\ \A k \in 1 .. n - 1 : q[k].pos = IF k = i THEN Carried(Here.pos, rest[i].pos)
                                            ELSE rest[k].pos
    <2>1. CASE i > Len(rest)
      BY <1>2, <1>3, <2>1
    <2>2. CASE ~(i > Len(rest))
      <3> DEFINE f == Carried(Here.pos, rest[i].pos)
      <3>1. i \in 1 .. n - 1
        BY <1>2, <1>3, <2>2
      <3>2. Here.pos \in [Objects -> Places \cup {Unset}]
            /\ rest[i].pos \in [Objects -> Places \cup {Unset}]
        BY <1>4, <3>1, BoardFacts DEF Step
      <3>3. f \in [Objects -> Places \cup {Unset}]
        BY <3>2, CarriedType
      <3>4. c = [rest EXCEPT ![i] = [rest[i] EXCEPT !.pos = f]]
        BY <1>3, <1>4, <3>1
      <3> HIDE DEF f
      <3>5. [rest[i] EXCEPT !.pos = f] \in Step /\ [rest[i] EXCEPT !.pos = f].pos = f
        BY <1>4, <3>1, <3>3, StepWithPos
      <3> DEFINE t == [rest[i] EXCEPT !.pos = f]
      <3>6. t \in Step /\ t.pos = f /\ c = [rest EXCEPT ![i] = t]
        BY <3>4, <3>5
      <3> HIDE DEF c, t
      <3>7. c \in Seq(Step) /\ Len(c) = n - 1
            /\ \A k \in 1 .. n - 1 : c[k] = IF k = i THEN t ELSE rest[k]
        BY <1>3, <1>4, <3>1, <3>6
      <3>8. \A k \in 1 .. n - 1 : c[k].pos = IF k = i THEN f ELSE rest[k].pos
        BY <3>6, <3>7
      <3> QED
        BY <2>2, <3>7, <3>8 DEF f
    <2> HIDE DEF q
    <2> QED
      BY <2>1, <2>2
  <1> HIDE DEF q
  <1>6. q # <<>>
    BY <1>1, <1>2, <1>5
  <1>7. next = [objects |-> doc.objects, steps |-> q] /\ doc.objects \in SUBSET Objects
    BY <1>2, VersionFacts DEF Doc
  <1> HIDE DEF next
  <1>8. next \in Version /\ next.objects = doc.objects /\ next.steps = q
    BY <1>5, <1>6, <1>7, IsVersion
  <1>9. doc' = next
    BY <1>1 DEF Apply
  <1>10. \A k \in 1 .. n - 1 :
            q[k].pos = IF k < i THEN doc.steps[k].pos
                       ELSE IF k = i THEN Carried(doc.steps[i].pos, doc.steps[i + 1].pos)
                       ELSE doc.steps[k + 1].pos
    <2> SUFFICES ASSUME NEW k \in 1 .. n - 1
                 PROVE  q[k].pos = IF k < i THEN doc.steps[k].pos
                                   ELSE IF k = i
                                   THEN Carried(doc.steps[i].pos, doc.steps[i + 1].pos)
                                   ELSE doc.steps[k + 1].pos
      OBVIOUS
    <2>1. rest[k] = IF k < i THEN doc.steps[k] ELSE doc.steps[k + 1]
      BY <1>3
    <2>2. q[k].pos = IF k = i THEN Carried(Here.pos, rest[i].pos) ELSE rest[k].pos
      BY <1>5
    <2>3. k \in Int /\ i \in Int
      BY <1>2
    <2> QED
      BY <1>2, <2>1, <2>2, <2>3
  <1> QED
    BY <1>1, <1>5, <1>8, <1>9, <1>10 DEF n

LEMMA DeleteStepSafe == BoardInv /\ DeleteStep => BoardInv'
  <1> SUFFICES ASSUME BoardInv, DeleteStep PROVE BoardInv'
    OBVIOUS
  <1>1. /\ selection' = Nothing /\ UNCHANGED <<drag, moved, used>>
        /\ stepIndex' = StepLeft(stepIndex, Len(RemoveAt(doc.steps, stepIndex)))
    BY DEF DeleteStep, dragVars
  <1>2. doc.steps \in Seq(Step) /\ stepIndex \in 1 .. Len(doc.steps)
    BY BoardFacts
  <1>3. /\ doc' \in Version /\ Len(doc'.steps) = Len(doc.steps) - 1
        /\ Len(doc.steps) > 1 /\ Apply(doc', "once")
    BY DeleteStepFacts
  <1>4. stepIndex' = IF stepIndex > Len(doc.steps) - 1 THEN Len(doc.steps) - 1 ELSE stepIndex
    BY <1>1, <1>2, RemoveAtFacts DEF StepLeft
  <1>5. stepIndex' \in 1 .. Len(doc'.steps)
    BY <1>2, <1>3, <1>4
  <1>6. stepIndex' \in DOMAIN doc'.steps
    BY <1>3, <1>5, VersionFacts
  <1> QED
    BY <1>1, <1>3, <1>6, BoardFacts, ApplySafe

-----------------------------------------------------------------------------
(* Saving.                                                                 *)
LEMMA SaveStep ==
    ASSUME BoardInv, NEW s \in Saves, NEW j \in SaveJob,
           saves' = [saves EXCEPT ![s] = j], stored' \in Version, dirty' \in BOOLEAN,
           UNCHANGED <<doc, stepIndex, selection, historyVars, dragVars, used, edits, touched>>,
           SavesUpToDate', CleanMeansStored'
    PROVE  BoardInv'
  <1>1. UNCHANGED <<doc, stepIndex, selection, undoStack, redoStack, gestureOpen, drag, moved,
                    used, edits, touched>>
    BY DEF historyVars, dragVars
  <1>2. Typed'
    BY <1>1 DEF BoardInv, Typed
  <1>3. SelectionIsOnBoard' /\ GestureIsLatest'
    BY <1>1 DEF BoardInv, SelectionIsOnBoard, Here, GestureIsLatest
  <1> QED
    BY <1>2, <1>3 DEF BoardInv

LEMMA SendSaveSafe == ASSUME BoardInv, NEW s \in Saves, SendSave(s) PROVE BoardInv'
  <1> DEFINE j == [pc |-> "sent", ours |-> TRUE, content |-> doc]
  <1>1. /\ saves' = [saves EXCEPT ![s] = j]
        /\ UNCHANGED <<doc, stepIndex, selection, historyVars, dragVars, dirty, stored, used,
                       edits, touched>>
    BY DEF SendSave
  <1>2. j \in SaveJob /\ j.pc = "sent" /\ j.ours /\ j.content = doc
    BY BoardFacts DEF SaveJob
  <1> HIDE DEF j
  <1>3. \A r \in Saves : saves'[r] = IF r = s THEN j ELSE saves[r]
    BY <1>1, BoardFacts
  <1>4. SavesUpToDate' /\ CleanMeansStored'
    BY <1>1, <1>2, <1>3 DEF BoardInv, SavesUpToDate, CleanMeansStored
  <1>5. stored' \in Version /\ dirty' \in BOOLEAN
    BY <1>1, BoardFacts DEF BoardInv, Typed
  <1> QED
    BY <1>1, <1>2, <1>4, <1>5, SaveStep

(* Another save may have stored the same content: it is the board's own.   *)
LEMMA StoreSafe == ASSUME BoardInv, NEW s \in Saves, Store(s) PROVE BoardInv'
  <1> DEFINE j == [saves[s] EXCEPT !.pc = "answered"]
  <1>1. /\ saves[s].pc = "sent" /\ stored' = saves[s].content
        /\ saves' = [saves EXCEPT ![s] = j]
        /\ UNCHANGED <<doc, stepIndex, selection, historyVars, dragVars, dirty, used, edits, touched>>
    BY DEF Store
  <1>2. saves[s] \in SaveJob
    BY BoardFacts
  <1>3. /\ j \in SaveJob /\ j.pc = "answered" /\ j.ours = saves[s].ours
        /\ j.content = saves[s].content /\ saves[s].content \in Version
    BY <1>2 DEF SaveJob
  <1> HIDE DEF j
  <1>4. \A r \in Saves : saves'[r] = IF r = s THEN j ELSE saves[r]
    BY <1>1, BoardFacts
  <1>5. ~touched => saves[s].ours /\ saves[s].content = doc
    BY <1>1 DEF BoardInv, SavesUpToDate
  <1>6. SavesUpToDate' /\ CleanMeansStored'
    BY <1>1, <1>3, <1>4, <1>5 DEF BoardInv, SavesUpToDate, CleanMeansStored
  <1>7. dirty' \in BOOLEAN
    BY <1>1 DEF BoardInv, Typed
  <1> QED
    BY <1>1, <1>3, <1>6, <1>7, SaveStep

LEMMA SaveEndsSafe ==
    ASSUME BoardInv, NEW s \in Saves, NEW ok \in BOOLEAN, SaveEnds(s, ok)
    PROVE  BoardInv'
  <1>1. /\ saves[s].pc # "idle" /\ (ok => saves[s].pc = "answered")
        /\ saves' = [saves EXCEPT ![s] = NoSave]
        /\ UNCHANGED <<doc, stepIndex, selection, historyVars, dragVars, stored, used, edits, touched>>
        /\ dirty' = IF saves[s].ours THEN Clean(ok) ELSE dirty
    BY DEF SaveEnds
  <1>2. NoSave \in SaveJob /\ NoSave.pc = "idle"
    BY EmptyIsVersion DEF NoSave, SaveJob
  <1>3. \A r \in Saves : saves'[r] = IF r = s THEN NoSave ELSE saves[r]
    BY <1>1, BoardFacts
  <1>4. dirty \in BOOLEAN /\ dirty' \in BOOLEAN
    <2>1. dirty \in BOOLEAN
      BY DEF BoardInv, Typed
    <2> QED
      BY <1>1, <2>1 DEF Clean
  <1>5. SavesUpToDate'
    BY <1>1, <1>2, <1>3 DEF BoardInv, SavesUpToDate
  <1>6. CleanMeansStored'
    <2>1. SUFFICES ASSUME ~dirty', ~touched PROVE doc = stored
      BY <1>1 DEF CleanMeansStored
    <2>2. CASE ~dirty
      BY <2>1, <2>2 DEF BoardInv, CleanMeansStored
    <2>3. CASE dirty
      <3>1. ok
        BY <1>1, <2>1, <2>3 DEF Clean
      <3> QED
        BY <1>1, <2>1, <3>1 DEF BoardInv, SavesUpToDate
    <2> QED
      BY <2>2, <2>3
  <1> QED
    BY <1>1, <1>2, <1>4, <1>5, <1>6, BoardFacts, SaveStep

LEMMA ReopenSafe == BoardInv /\ Reopen => BoardInv'
  <1> SUFFICES ASSUME BoardInv, Reopen PROVE BoardInv'
    OBVIOUS
  <1>1. /\ doc' = stored /\ stepIndex' = 1 /\ selection' = Nothing /\ drag' = Nothing
        /\ moved' = FALSE /\ undoStack' = <<>> /\ redoStack' = <<>> /\ gestureOpen' = FALSE
        /\ dirty' = FALSE /\ touched' = SavePending
        /\ saves' = [s \in Saves |-> [saves[s] EXCEPT !.ours = FALSE]]
        /\ UNCHANGED <<stored, used, edits>>
    BY DEF Reopen
  <1>2. stored \in Version /\ 1 \in DOMAIN stored.steps
    BY BoardFacts, VersionFacts
  <1>3. \A j \in SaveJob : /\ [j EXCEPT !.ours = FALSE] \in SaveJob
                           /\ [j EXCEPT !.ours = FALSE].pc = j.pc
    BY DEF SaveJob
  <1>4. saves' \in [Saves -> SaveJob] /\ \A s \in Saves : saves'[s].pc = saves[s].pc
    BY <1>1, <1>3, BoardFacts
  <1>5. touched' \in BOOLEAN
    BY <1>1 DEF SavePending
  <1>6. Typed'
    <2>1. used' \subseteq Objects \cup Drawings /\ edits' \in 0 .. MaxEdits
      BY <1>1 DEF BoardInv, Typed
    <2>2. undoStack' \in Seq(Version) /\ redoStack' \in Seq(Version)
      BY <1>1
    <2>3. doc' \in Version /\ stepIndex' \in DOMAIN doc'.steps /\ stored' \in Version
      BY <1>1, <1>2
    <2>4. drag' \in Objects \cup {Nothing} /\ moved' \in BOOLEAN /\ gestureOpen' \in BOOLEAN
          /\ dirty' \in BOOLEAN
      BY <1>1
    <2> QED
      BY <1>4, <1>5, <2>1, <2>2, <2>3, <2>4 DEF Typed
  <1>7. SelectionIsOnBoard' /\ CleanMeansStored' /\ GestureIsLatest'
    BY <1>1 DEF SelectionIsOnBoard, CleanMeansStored, GestureIsLatest
  <1>8. SavesUpToDate'
    BY <1>1, <1>4 DEF SavesUpToDate, SavePending
  <1> QED
    BY <1>6, <1>7, <1>8 DEF BoardInv

-----------------------------------------------------------------------------
LEMMA BoardInvStep == BoardInv /\ [BoardNext]_boardVars => BoardInv'
  <1> SUFFICES ASSUME BoardInv, [BoardNext]_boardVars PROVE BoardInv'
    OBVIOUS
  <1>1. CASE UNCHANGED boardVars
    <2>1. UNCHANGED <<doc, stepIndex, selection, historyVars, drag, moved, dirty, saveVars, used,
                      edits, touched>>
      BY <1>1 DEF boardVars, dragVars
    <2> QED
      BY <2>1, BoardFacts, QuietSafe
  <1>2. CASE BoardNext
    BY <1>2, UndoSafe, RedoSafe, PlaceSafe, AddFormationSafe, DeleteSelectionSafe, RemoveTeamSafe,
       GrabSafe, SelectDrawingSafe, StrokeSafe, DeselectSafe, MoveObjectSafe, LetGoSafe,
       GoToStepSafe, AddStepSafe, DuplicateStepSafe, MoveStepSafe, DeleteStepSafe, ClearBoardSafe,
       SendSaveSafe, StoreSafe, SaveEndsSafe, ReopenSafe DEF BoardNext
  <1> QED
    BY <1>1, <1>2

LEMMA BoardInductive == BoardSpec => []BoardInv
  BY BoardInvInit, BoardInvStep, PTL DEF BoardSpec

(* Every reachable state of EditorStore is well typed: no board, in the    *)
(* history, on its way to the service or in it, is without a step, and the *)
(* step on screen exists.                                                  *)
THEOREM BoardTypeCorrect == BoardSpec => []BoardTypeOK
  BY BoardInductive, InvImpliesType, PTL

(* Whatever is undone, redone, deleted, reordered, cleared or reopened     *)
(* under a selection, what is selected is on the board.                    *)
THEOREM SelectionCorrect == BoardSpec => []SelectionIsOnBoard
  <1>1. BoardInv => SelectionIsOnBoard
    BY DEF BoardInv
  <1> QED
    BY <1>1, BoardInductive, PTL

(* markSaved is right unless the board changed while a save was in flight: *)
(* a clean board is the one the service has, for any number of saves.      *)
THEOREM CleanCorrect == BoardSpec => []CleanMeansStored
  <1>1. BoardInv => CleanMeansStored
    BY DEF BoardInv
  <1> QED
    BY <1>1, BoardInductive, PTL

-----------------------------------------------------------------------------
(* Undo and redo.  Line(u, d, r) is the line of versions that EditTimeline *)
(* is told of.                                                             *)
Line(u, d, r) == u \o <<d>> \o Reverse(r)

IsLine(x, u, d, r) ==
    /\ x \in Seq(Version)
    /\ Len(x) = Len(u) + 1 + Len(r)
    /\ \A k \in 1 .. Len(u) : x[k] = u[k]
    /\ x[Len(u) + 1] = d
    /\ \A k \in 1 .. Len(r) : x[Len(u) + 1 + k] = r[Len(r) - k + 1]

LEMMA LineFacts ==
    ASSUME NEW u \in Seq(Version), NEW d \in Version, NEW r \in Seq(Version)
    PROVE  IsLine(Line(u, d, r), u, d, r)
  <1> DEFINE front == Append(u, d)
             rest == Reverse(r)
             n == Len(u)
             m == Len(r)
  <1>1. n \in Nat /\ m \in Nat
    OBVIOUS
  <1>2. /\ front \in Seq(Version) /\ Len(front) = n + 1 /\ front[n + 1] = d
        /\ \A k \in 1 .. n : front[k] = u[k]
    BY AppendProperties
  <1>3. rest \in Seq(Version) /\ Len(rest) = m /\ \A k \in 1 .. m : rest[k] = r[m - k + 1]
    <2>1. \A k \in 1 .. m : m - k + 1 \in 1 .. m
      BY <1>1
    <2>2. \A k \in 1 .. m : r[m - k + 1] \in Version
      BY <2>1
    <2>3. rest \in [1 .. m -> Version] /\ \A k \in 1 .. m : rest[k] = r[m - k + 1]
      BY <2>2 DEF Reverse
    <2> HIDE DEF rest
    <2> QED
      BY <1>1, <2>3
  <1>4. Line(u, d, r) = front \o rest
    BY AppendIsConcat DEF Line
  <1> HIDE DEF front, rest, n, m
  <1>5. /\ front \o rest \in Seq(Version) /\ Len(front \o rest) = n + 1 + m
        /\ \A i \in 1 .. n + 1 + m : (front \o rest)[i] = IF i <= n + 1 THEN front[i] ELSE rest[i - (n + 1)]
    <2>1. /\ front \o rest \in Seq(Version) /\ Len(front \o rest) = Len(front) + Len(rest)
          /\ \A i \in 1 .. Len(front) + Len(rest) :
               (front \o rest)[i] = IF i <= Len(front) THEN front[i] ELSE rest[i - Len(front)]
      BY <1>2, <1>3, ConcatProperties
    <2>2. Len(front) = n + 1 /\ Len(rest) = m
      BY <1>2, <1>3
    <2> QED
      BY <2>1, <2>2
  <1>6. ASSUME NEW k \in 1 .. n PROVE (front \o rest)[k] = u[k]
    <2>1. k \in 1 .. n + 1 + m /\ k <= n + 1
      BY <1>1
    <2> QED
      BY <1>2, <1>5, <2>1
  <1>7. (front \o rest)[n + 1] = d
    BY <1>1, <1>2, <1>5
  <1>8. ASSUME NEW k \in 1 .. m PROVE (front \o rest)[n + 1 + k] = r[m - k + 1]
    <2>1. n + 1 + k \in 1 .. n + 1 + m /\ ~(n + 1 + k <= n + 1) /\ (n + 1 + k) - (n + 1) = k
      BY <1>1
    <2>2. (front \o rest)[n + 1 + k] = rest[k]
      BY <1>5, <2>1
    <2> QED
      BY <1>3, <2>2
  <1> QED
    BY <1>4, <1>5, <1>6, <1>7, <1>8 DEF n, m, IsLine

LEMMA FrontLast ==
    ASSUME NEW S, NEW q \in Seq(S), q # <<>>
    PROVE  /\ Len(q) \in Nat \ {0}
           /\ Front(q) \in Seq(S) /\ Len(Front(q)) = Len(q) - 1
           /\ \A k \in 1 .. Len(q) - 1 : Front(q)[k] = q[k]
           /\ Last(q) \in S /\ Last(q) = q[Len(q)]
  <1> DEFINE n == Len(q)
  <1>1. n \in Nat \ {0}
    OBVIOUS
  <1>2. 1 \in 1 .. n + 1 /\ n - 1 \in 1 - 1 .. n /\ n - 1 \in Nat
    BY <1>1
  <1>3. Front(q) = SubSeq(q, 1, n - 1) /\ q[n] \in S
    BY <1>1 DEF Front
  <1> HIDE DEF n
  <1>4. SubSeq(q, 1, n - 1) \in Seq(S) /\ Len(SubSeq(q, 1, n - 1)) = n - 1
        /\ \A k \in 1 .. n - 1 : SubSeq(q, 1, n - 1)[k] = q[k]
    <2>1. \A k \in 1 .. n - 1 : q[k] \in S
      BY <1>1 DEF n
    <2> QED
      BY <1>1, <1>2, <2>1
  <1> QED
    BY <1>1, <1>3, <1>4 DEF n, Last

(* q is r with d at its end.                                               *)
Extends(q, r, d) ==
    /\ Len(q) = Len(r) + 1
    /\ \A k \in 1 .. Len(r) : q[k] = r[k]
    /\ q[Len(r) + 1] = d

LEMMA AppendExtends ==
    ASSUME NEW S, NEW q \in Seq(S), NEW e \in S
    PROVE  Extends(Append(q, e), q, e)
  BY AppendProperties DEF Extends

LEMMA FrontExtends ==
    ASSUME NEW S, NEW q \in Seq(S), q # <<>>
    PROVE  Extends(q, Front(q), Last(q))
  <1>1. PICK n : n = Len(q)
    OBVIOUS
  <1>2. /\ n \in Nat \ {0} /\ Len(Front(q)) = n - 1
        /\ \A k \in 1 .. n - 1 : Front(q)[k] = q[k]
        /\ Last(q) = q[n]
    BY <1>1, FrontLast
  <1>3. n - 1 + 1 = n
    BY <1>2
  <1> QED
    BY <1>1, <1>2, <1>3 DEF Extends

(* Lines that put the same versions in the same places.                    *)
LEMMA SameLine ==
    ASSUME NEW u \in Seq(Version), NEW d \in Version, NEW r \in Seq(Version),
           NEW v \in Seq(Version), NEW e \in Version, NEW q \in Seq(Version),
           Extends(u, v, e), Extends(q, r, d)
    PROVE  Line(v, e, q) = Line(u, d, r)
  <1>0. PICK n \in Nat \ {0}, m \in Nat :
           /\ Len(u) = n /\ Len(r) = m /\ Len(v) = n - 1 /\ Len(q) = m + 1
           /\ \A k \in 1 .. n - 1 : v[k] = u[k]
           /\ e = u[n]
           /\ \A k \in 1 .. m : q[k] = r[k]
           /\ q[m + 1] = d
    <2>1. PICK n, m : n = Len(v) + 1 /\ m = Len(r)
      OBVIOUS
    <2>2. n \in Nat \ {0} /\ m \in Nat /\ n - 1 = Len(v)
      BY <2>1
    <2> QED
      BY <2>1, <2>2 DEF Extends
  <1>1. PICK x : x = Line(v, e, q)
    OBVIOUS
  <1>2. PICK y : y = Line(u, d, r)
    OBVIOUS
  <1>3. IsLine(x, v, e, q)
    BY <1>1, LineFacts
  <1>4. IsLine(y, u, d, r)
    BY <1>2, LineFacts
  <1>5. n - 1 + 1 = n /\ n - 1 + 1 + (m + 1) = n + 1 + m
    OBVIOUS
  <1>6. /\ Len(x) = n + 1 + m
        /\ \A k \in 1 .. n - 1 : x[k] = v[k]
        /\ x[n] = e
        /\ \A k \in 1 .. m + 1 : x[n + k] = q[m + 1 - k + 1]
    BY <1>0, <1>3, <1>5 DEF IsLine
  <1>7. /\ Len(y) = n + 1 + m
        /\ \A k \in 1 .. n : y[k] = u[k]
        /\ y[n + 1] = d
        /\ \A k \in 1 .. m : y[n + 1 + k] = r[m - k + 1]
    BY <1>0, <1>4 DEF IsLine
  <1>8. ASSUME NEW i \in 1 .. n + 1 + m PROVE x[i] = y[i]
    <2>1. CASE i \in 1 .. n - 1
      BY <1>0, <1>6, <1>7, <2>1
    <2>2. CASE i = n
      BY <1>0, <1>6, <1>7, <2>2
    <2>3. CASE i = n + 1
      <3>1. 1 \in 1 .. m + 1 /\ m + 1 - 1 + 1 = m + 1
        OBVIOUS
      <3>2. x[n + 1] = q[m + 1]
        BY <1>6, <3>1
      <3> QED
        BY <1>0, <1>7, <2>3, <3>2
    <2>4. CASE i \in n + 2 .. n + 1 + m
      <3>1. PICK k \in Int : k = i - (n + 1)
        BY <2>4
      <3>2. /\ k \in 1 .. m /\ k + 1 \in 1 .. m + 1 /\ n + 1 + k = i /\ n + (k + 1) = i
            /\ m + 1 - (k + 1) + 1 = m - k + 1 /\ m - k + 1 \in 1 .. m
        BY <2>4, <3>1
      <3>3. x[n + (k + 1)] = q[m + 1 - (k + 1) + 1]
        BY <1>6, <3>2
      <3>4. y[n + 1 + k] = r[m - k + 1]
        BY <1>7, <3>2
      <3> QED
        BY <1>0, <3>2, <3>3, <3>4
    <2> QED
      BY <2>1, <2>2, <2>3, <2>4
  <1>9. x \in Seq(Version) /\ y \in Seq(Version) /\ Len(x) = n + 1 + m /\ Len(y) = n + 1 + m
    BY <1>3, <1>4, <1>6, <1>7 DEF IsLine
  <1>10. x = y
    BY <1>8, <1>9, SeqEqual
  <1> QED
    BY <1>1, <1>2, <1>10

(* Undo moves the cursor; the versions stay where they are.                *)
LEMMA LineBack ==
    ASSUME NEW u \in Seq(Version), u # <<>>, NEW d \in Version, NEW r \in Seq(Version)
    PROVE  Line(Front(u), Last(u), Append(r, d)) = Line(u, d, r)
  <1>1. Extends(u, Front(u), Last(u)) /\ Extends(Append(r, d), r, d)
    BY AppendExtends, FrontExtends
  <1>2. Front(u) \in Seq(Version) /\ Last(u) \in Version /\ Append(r, d) \in Seq(Version)
    BY AppendProperties, FrontLast
  <1>3. PICK v, e, q : v = Front(u) /\ e = Last(u) /\ q = Append(r, d)
    OBVIOUS
  <1>4. Line(v, e, q) = Line(u, d, r)
    <2>1. v \in Seq(Version) /\ e \in Version /\ q \in Seq(Version)
      BY <1>2, <1>3
    <2>2. Extends(u, v, e) /\ Extends(q, r, d)
      BY <1>1, <1>3
    <2> QED
      BY <2>1, <2>2, SameLine
  <1> QED
    BY <1>1, <1>2, <1>3, <1>4

(* Redo moves it the other way.                                            *)
LEMMA LineForth ==
    ASSUME NEW u \in Seq(Version), NEW d \in Version, NEW r \in Seq(Version), r # <<>>
    PROVE  Line(Append(u, d), Last(r), Front(r)) = Line(u, d, r)
  <1>1. Extends(r, Front(r), Last(r)) /\ Extends(Append(u, d), u, d)
    BY AppendExtends, FrontExtends
  <1>2. Front(r) \in Seq(Version) /\ Last(r) \in Version /\ Append(u, d) \in Seq(Version)
    BY AppendProperties, FrontLast
  <1>3. PICK v, e, q : v = Append(u, d) /\ e = Last(r) /\ q = Front(r)
    OBVIOUS
  <1>4. Line(u, d, r) = Line(v, e, q)
    <2>1. v \in Seq(Version) /\ e \in Version /\ q \in Seq(Version)
      BY <1>2, <1>3
    <2>2. Extends(v, u, d) /\ Extends(r, q, e)
      BY <1>1, <1>3
    <2> QED
      BY <2>1, <2>2, SameLine
  <1> QED
    BY <1>1, <1>2, <1>3, <1>4

(* What apply keeps of a full history is what EditTimeline lets it forget. *)
Oldest(n) == IF n + 1 > HistoryLimit THEN n + 1 - HistoryLimit + 1 ELSE 1

IsKept(v, q, o, p) ==
    /\ o \in 1 .. p
    /\ v \in Seq(Version) /\ Len(v) = p - o
    /\ \A k \in 1 .. p - o : v[k] = q[o + k - 1]

LEMMA KeptFacts ==
    ASSUME NEW q \in Seq(Version)
    PROVE  IsKept(Kept(q), q, Oldest(Len(q)), Len(q) + 1)
  <1>0. PICK n, o : n = Len(q) /\ o = Oldest(n)
    OBVIOUS
  <1>1. n \in Nat /\ HistoryLimit \in Nat /\ HistoryLimit >= 2
    BY <1>0, EditorAssumption
  <1>2. o \in 1 .. n + 1
    BY <1>0, <1>1 DEF Oldest
  <1>3. Kept(q) = SubSeq(q, o, n)
    <2>1. CASE n >= HistoryLimit
      <3>1. o = n - HistoryLimit + 2
        BY <1>0, <1>1, <2>1 DEF Oldest
      <3> QED
        BY <1>0, <2>1, <3>1 DEF Kept
    <2>2. CASE ~(n >= HistoryLimit)
      <3>1. o = 1
        BY <1>0, <1>1, <2>2 DEF Oldest
      <3>2. SubSeq(q, 1, n) = q
        BY <1>0
      <3> QED
        BY <1>0, <2>2, <3>1, <3>2 DEF Kept
    <2> QED
      BY <2>1, <2>2
  <1>4. \A i \in o .. n : q[i] \in Version
    BY <1>0, <1>1, <1>2
  <1>5. SubSeq(q, o, n) \in Seq(Version) /\ Len(SubSeq(q, o, n)) = n + 1 - o
        /\ \A k \in 1 .. n + 1 - o : SubSeq(q, o, n)[k] = q[o + k - 1]
    BY <1>0, <1>1, <1>2, <1>4
  <1> QED
    BY <1>0, <1>2, <1>3, <1>5 DEF IsKept

(* The versions from o to the cursor.                                      *)
IsTail(t, u, d, o, p) ==
    /\ t \in Seq(Version) /\ Len(t) = p - o + 1
    /\ \A k \in 1 .. p - o : t[k] = u[o + k - 1]
    /\ t[p - o + 1] = d

LEMMA LineTail ==
    ASSUME NEW u \in Seq(Version), NEW d \in Version, NEW r \in Seq(Version),
           NEW o \in 1 .. Len(u) + 1
    PROVE  IsTail(SubSeq(Line(u, d, r), o, Len(u) + 1), u, d, o, Len(u) + 1)
  <1>1. PICK x, m, n, p, t : /\ x = Line(u, d, r) /\ m = Len(r) /\ n = Len(u)
                          /\ p = n + 1 /\ t = SubSeq(x, o, p)
    OBVIOUS
  <1>2. IsLine(x, u, d, r)
    BY <1>1, LineFacts
  <1>3. /\ n \in Nat /\ m \in Nat /\ x \in Seq(Version) /\ Len(x) = n + 1 + m
        /\ \A k \in 1 .. n : x[k] = u[k]
        /\ x[n + 1] = d
    BY <1>1, <1>2 DEF IsLine
  <1>4. /\ p \in Nat /\ p <= Len(x) /\ o \in Nat /\ 1 <= o /\ o <= p /\ t = SubSeq(x, o, p)
        /\ \A k \in 1 .. p - 1 : x[k] = u[k]
        /\ x[p] = d
    BY <1>1, <1>3
  <1>5. /\ t \in Seq(Version) /\ Len(t) = p - o + 1
        /\ \A k \in 1 .. p - o + 1 : t[k] = x[o + k - 1]
    <2>1. \A i \in o .. p : x[i] \in Version
      BY <1>3, <1>4
    <2>2. o \in Int /\ p \in Int
      BY <1>4
    <2>3. /\ SubSeq(x, o, p) \in Seq(Version)
          /\ Len(SubSeq(x, o, p)) = IF o <= p THEN p - o + 1 ELSE 0
          /\ \A k \in 1 .. p - o + 1 : SubSeq(x, o, p)[k] = x[o + k - 1]
      BY ONLY <2>1, <2>2, SubSeqProperties
    <2> QED
      BY <1>4, <2>3
  <1>6. ASSUME NEW k \in 1 .. p - o PROVE t[k] = u[o + k - 1]
    <2>1. k \in 1 .. p - o + 1 /\ o + k - 1 \in 1 .. p - 1
      BY <1>4
    <2> QED
      BY <1>4, <1>5, <2>1
  <1>7. t[p - o + 1] = d
    <2>1. p - o + 1 \in 1 .. p - o + 1 /\ o + (p - o + 1) - 1 = p
      BY <1>4
    <2> QED
      BY <1>4, <1>5, <2>1
  <1>8. IsTail(t, u, d, o, p)
    BY <1>5, <1>6, <1>7 DEF IsTail
  <1> QED
    BY <1>1, <1>8

(* The versions before the cursor.                                         *)
LEMMA LineHead ==
    ASSUME NEW u \in Seq(Version), NEW d \in Version, NEW r \in Seq(Version)
    PROVE  SubSeq(Line(u, d, r), 1, Len(u)) = u
  <1>1. PICK x, n, m : x = Line(u, d, r) /\ n = Len(u) /\ m = Len(r)
    OBVIOUS
  <1>2. IsLine(x, u, d, r)
    BY <1>1, LineFacts
  <1>3. /\ n \in Nat /\ m \in Nat /\ x \in Seq(Version) /\ Len(x) = n + 1 + m
        /\ \A k \in 1 .. n : x[k] = u[k]
    BY <1>1, <1>2 DEF IsLine
  <1>4. PICK t : t = SubSeq(x, 1, n)
    OBVIOUS
  <1>5. t \in Seq(Version) /\ Len(t) = n /\ \A k \in 1 .. n : t[k] = x[k]
    <2>1. \A i \in 1 .. n : x[i] \in Version
      BY <1>3
    <2> QED
      BY <1>3, <1>4, <2>1
  <1>6. \A k \in 1 .. n : t[k] = u[k]
    BY <1>3, <1>5
  <1>7. t = u
    BY <1>1, <1>5, <1>6, SeqEqual
  <1> QED
    BY <1>1, <1>4, <1>7

(* An edit that makes an undo entry discards what could be redone, and of  *)
(* what could be undone the oldest when the history is full.               *)
IsEdited(w, next, u, d, r) ==
    /\ w \in Seq(Version)
    /\ Len(w) + 1 = Len(Line(w, next, <<>>))
    /\ SubSeq(Line(w, next, <<>>), 1, Len(w))
         = SubSeq(Line(u, d, r), Oldest(Len(u)), Len(u) + 1)

LEMMA EditLine ==
    ASSUME NEW u \in Seq(Version), NEW d \in Version, NEW r \in Seq(Version),
           NEW next \in Version
    PROVE  IsEdited(Append(Kept(u), d), next, u, d, r)
  <1>1. PICK n, o, l, t, v, p, w, z :
          /\ n = Len(u) /\ o = Oldest(n) /\ l = n + 1 /\ t = SubSeq(Line(u, d, r), o, l)
          /\ v = Kept(u) /\ p = l - o /\ w = Append(v, d) /\ z = <<>>
    OBVIOUS
  <1>2. /\ n \in Nat /\ o \in 1 .. n + 1
        /\ v \in Seq(Version) /\ Len(v) = p
        /\ \A k \in 1 .. p : v[k] = u[o + k - 1]
    <2>1. IsKept(v, u, o, l)
      BY <1>1, KeptFacts
    <2>2. /\ o \in 1 .. l /\ v \in Seq(Version) /\ Len(v) = l - o
          /\ \A k \in 1 .. l - o : v[k] = u[o + k - 1]
      BY <2>1 DEF IsKept
    <2>3. n \in Nat /\ l = n + 1 /\ l - o = p
      BY <1>1
    <2> QED
      BY <2>2, <2>3
  <1>3. w \in Seq(Version) /\ Extends(w, v, d)
    BY <1>1, <1>2, AppendExtends, AppendProperties
  <1>4. /\ p \in Nat /\ Len(w) = p + 1 /\ w[p + 1] = d
        /\ \A k \in 1 .. p : w[k] = u[o + k - 1]
    BY <1>2, <1>3 DEF Extends
  <1>5. IsTail(t, u, d, o, l)
    BY <1>1, <1>2, LineTail
  <1>6. /\ t \in Seq(Version) /\ Len(t) = p + 1 /\ t[p + 1] = d
        /\ \A k \in 1 .. p : t[k] = u[o + k - 1]
    <2>1. /\ t \in Seq(Version) /\ Len(t) = l - o + 1
          /\ \A k \in 1 .. l - o : t[k] = u[o + k - 1]
          /\ t[l - o + 1] = d
      BY <1>5 DEF IsTail
    <2>2. l - o = p
      BY <1>1
    <2> QED
      BY <2>1, <2>2
  <1>7. \A k \in 1 .. p + 1 : w[k] = t[k]
    BY <1>4, <1>6
  <1>8. w = t
    BY <1>3, <1>4, <1>6, <1>7, SeqEqual
  <1>9. z \in Seq(Version) /\ Len(z) = 0
    BY <1>1
  <1>10. SubSeq(Line(w, next, z), 1, Len(w)) = w
    BY <1>3, <1>9, LineHead
  <1>11. IsLine(Line(w, next, z), w, next, z)
    BY <1>3, <1>9, LineFacts
  <1>12. Len(Line(w, next, z)) = Len(w) + 1
    BY <1>4, <1>9, <1>11 DEF IsLine
  <1>13. /\ Len(w) + 1 = Len(Line(w, next, z))
         /\ SubSeq(Line(w, next, z), 1, Len(w)) = SubSeq(Line(u, d, r), Oldest(Len(u)), Len(u) + 1)
    BY <1>1, <1>8, <1>10, <1>12
  <1>14. w = Append(Kept(u), d) /\ z = <<>>
    BY <1>1
  <1> QED
    BY <1>3, <1>13, <1>14, Zenon DEF IsEdited

(* Each kind of step, told to EditTimeline.                                *)
LEMMA TimelineFacts ==
    ASSUME BoardInv
    PROVE  /\ undoStack \in Seq(Version) /\ doc \in Version /\ redoStack \in Seq(Version)
           /\ Len(undoStack) \in Nat
           /\ Len(Line(undoStack, doc, redoStack)) = Len(undoStack) + 1 + Len(redoStack)
  <1>1. undoStack \in Seq(Version) /\ doc \in Version /\ redoStack \in Seq(Version)
    BY DEF BoardInv, Typed
  <1> QED
    BY <1>1, LineFacts DEF IsLine

LEMMA UndoGoesBack == BoardInv /\ Undo => Timeline!Back
  <1> SUFFICES ASSUME BoardInv, Undo PROVE Timeline!Back
    OBVIOUS
  <1>1. /\ undoStack # <<>> /\ undoStack' = Front(undoStack) /\ doc' = Last(undoStack)
        /\ redoStack' = Append(redoStack, doc)
    BY DEF Undo, AfterHistory
  <1>2. Line(undoStack', doc', redoStack') = Line(undoStack, doc, redoStack)
    BY <1>1, TimelineFacts, LineBack
  <1>3. Len(undoStack) \in Nat \ {0} /\ Len(undoStack') = Len(undoStack) - 1
    BY <1>1, TimelineFacts, FrontLast
  <1> QED
    BY <1>2, <1>3 DEF Timeline!Back, Line

LEMMA RedoGoesForth == BoardInv /\ Redo => Timeline!Forth
  <1> SUFFICES ASSUME BoardInv, Redo PROVE Timeline!Forth
    OBVIOUS
  <1>1. /\ redoStack # <<>> /\ redoStack' = Front(redoStack) /\ doc' = Last(redoStack)
        /\ undoStack' = Append(undoStack, doc)
    BY DEF Redo, AfterHistory
  <1>2. Line(undoStack', doc', redoStack') = Line(undoStack, doc, redoStack)
    BY <1>1, TimelineFacts, LineForth
  <1>3. Len(undoStack') = Len(undoStack) + 1 /\ Len(undoStack) \in Nat
    BY <1>1, TimelineFacts, AppendProperties
  <1>4. Len(redoStack) \in Nat \ {0}
    BY <1>1, TimelineFacts, FrontLast
  <1>5. Len(undoStack) + 1 < Len(Line(undoStack, doc, redoStack))
    BY <1>3, <1>4, TimelineFacts
  <1> QED
    BY <1>2, <1>3, <1>5 DEF Timeline!Forth, Line

LEMMA ApplyEdits ==
    ASSUME BoardInv, BoardInv', NEW next, NEW phase, Apply(next, phase)
    PROVE  Timeline!Edit \/ Timeline!Amend
  <1>1. CASE gestureOpen
    <2>1. redoStack = <<>> /\ redoStack' = <<>> /\ undoStack' = undoStack
      BY <1>1 DEF Apply, BoardInv, GestureIsLatest
    <2>2. Len(Line(undoStack, doc, redoStack)) = Len(undoStack) + 1
          /\ Len(Line(undoStack', doc', redoStack')) = Len(undoStack) + 1
      <3>1. doc' \in Version /\ doc \in Version /\ undoStack \in Seq(Version) /\ Len(undoStack) \in Nat
        BY TimelineFacts DEF BoardInv, Typed
      <3>2. <<>> \in Seq(Version) /\ Len(<<>>) = 0
        OBVIOUS
      <3>3. IsLine(Line(undoStack, doc, <<>>), undoStack, doc, <<>>)
            /\ IsLine(Line(undoStack, doc', <<>>), undoStack, doc', <<>>)
        BY <3>1, <3>2, LineFacts
      <3> QED
        BY <2>1, <3>1, <3>2, <3>3 DEF IsLine
    <2>3. SubSeq(Line(undoStack', doc', redoStack'), 1, Len(undoStack))
            = SubSeq(Line(undoStack, doc, redoStack), 1, Len(undoStack))
      <3>1. doc' \in Version /\ redoStack' \in Seq(Version)
        BY DEF BoardInv, Typed
      <3>2. SubSeq(Line(undoStack, doc', redoStack'), 1, Len(undoStack)) = undoStack
        BY <3>1, TimelineFacts, LineHead
      <3>3. SubSeq(Line(undoStack, doc, redoStack), 1, Len(undoStack)) = undoStack
        BY TimelineFacts, LineHead
      <3> QED
        BY <2>1, <3>2, <3>3
    <2>4. Len(undoStack) + 1 - 1 = Len(undoStack)
      BY TimelineFacts
    <2> QED
      BY <2>1, <2>2, <2>3, <2>4 DEF Timeline!Amend, Line
  <1>2. CASE ~gestureOpen
    <2>1. undoStack' = Append(Kept(undoStack), doc) /\ redoStack' = <<>>
      BY <1>2 DEF Apply
    <2>2. doc' \in Version
      BY DEF BoardInv, Typed
    <2>3. IsEdited(undoStack', doc', undoStack, doc, redoStack)
      BY <2>1, <2>2, TimelineFacts, EditLine
    <2>4. /\ Len(undoStack') + 1 = Len(Line(undoStack', doc', redoStack'))
          /\ SubSeq(Line(undoStack', doc', redoStack'), 1, Len(undoStack'))
               = SubSeq(Line(undoStack, doc, redoStack), Oldest(Len(undoStack)), Len(undoStack) + 1)
          /\ undoStack' \in Seq(Version)
      BY <2>1, <2>3, Zenon DEF IsEdited
    <2>5. Len(undoStack') + 1 - 1 = Len(undoStack')
      BY <2>4
    <2>6. PICK now, then, n, m, o :
            /\ now = undoStack \o <<doc>> \o Reverse(redoStack)
            /\ then = (undoStack \o <<doc>> \o Reverse(redoStack))'
            /\ n = Len(undoStack) + 1
            /\ m = (Len(undoStack) + 1)'
            /\ o = IF n > HistoryLimit THEN n - HistoryLimit + 1 ELSE 1
      OBVIOUS
    <2>7. /\ now = Line(undoStack, doc, redoStack) /\ then = Line(undoStack', doc', redoStack')
          /\ m = Len(undoStack') + 1
      BY <2>6 DEF Line
    <2>8. m = Len(then) /\ SubSeq(then, 1, m - 1) = SubSeq(now, o, n)
      <3>1. n = Len(undoStack) + 1 /\ o = IF n > HistoryLimit THEN n - HistoryLimit + 1 ELSE 1
        BY <2>6, Zenon
      <3>2. m - 1 = Len(undoStack')
        BY <2>5, <2>7
      <3>3. Oldest(Len(undoStack)) = o
        <4>1. Len(undoStack) \in Nat /\ HistoryLimit \in Nat
          BY TimelineFacts, EditorAssumption
        <4> QED
          BY <3>1, <4>1 DEF Oldest
      <3>4. m = Len(then)
        BY <2>4, <2>7
      <3>5. SubSeq(then, 1, m - 1) = SubSeq(now, Oldest(Len(undoStack)), n)
        <4>1. /\ SubSeq(then, 1, m - 1) = SubSeq(then, 1, Len(undoStack'))
              /\ SubSeq(now, Oldest(Len(undoStack)), n)
                   = SubSeq(now, Oldest(Len(undoStack)), Len(undoStack) + 1)
          BY <3>1, <3>2, Zenon
        <4>2. SubSeq(then, 1, Len(undoStack'))
                = SubSeq(now, Oldest(Len(undoStack)), Len(undoStack) + 1)
          BY <2>4, <2>7, Zenon
        <4> QED
          BY <4>1, <4>2, Zenon
      <3> QED
        BY <3>3, <3>4, <3>5, Zenon
    <2>9. Timeline!Edit
      BY <2>6, <2>8 DEF Timeline!Edit
    <2> QED
      BY <2>9
  <1> QED
    BY <1>1, <1>2

LEMMA ReopenOpens == BoardInv /\ BoardInv' /\ Reopen => Timeline!Open
  <1> SUFFICES ASSUME BoardInv, BoardInv', Reopen PROVE Timeline!Open
    OBVIOUS
  <1>1. undoStack' = <<>> /\ redoStack' = <<>> /\ doc' \in Version
    BY DEF Reopen, BoardInv, Typed
  <1>2. <<>> \in Seq(Version) /\ Len(<<>>) = 0
    OBVIOUS
  <1>3. IsLine(Line(<<>>, doc', <<>>), <<>>, doc', <<>>)
    BY <1>1, <1>2, LineFacts
  <1>4. Len(Line(undoStack', doc', redoStack')) = 1 /\ Len(undoStack') + 1 = 1
    BY <1>1, <1>2, <1>3 DEF IsLine
  <1> QED
    BY <1>4 DEF Timeline!Open, Line

LEMMA ApplyOrQuiet ==
    BoardNext => \/ Undo \/ Redo \/ Reopen
                 \/ \E next, phase : Apply(next, phase)
                 \/ UNCHANGED <<doc, undoStack, redoStack>>
  <1> SUFFICES ASSUME BoardNext
               PROVE  \/ Undo \/ Redo \/ Reopen
                      \/ \E next, phase : Apply(next, phase)
                      \/ UNCHANGED <<doc, undoStack, redoStack>>
    OBVIOUS
  <1>1. ASSUME NEW o \in Objects, NEW x \in Places, Place(o, x) \/ DuplicateSelection(o, x)
        PROVE  \E next, phase : Apply(next, phase)
    BY <1>1 DEF Place, DuplicateSelection
  <1>2. ASSUME NEW side, NEW S, NEW at, AddFormation(side, S, at)
        PROVE  \E next, phase : Apply(next, phase)
    BY <1>2 DEF AddFormation
  <1>3. ASSUME DeleteSelection \/ (\E side \in Sides : RemoveTeam(side)) \/ ClearBoard \/ DeleteStep
        PROVE  \E next, phase : Apply(next, phase)
    BY <1>3 DEF DeleteSelection, RemoveTeam, ClearBoard, DeleteStep
  <1>4. ASSUME NEW x, NEW done, MoveObject(x, done)
        PROVE  \E next, phase : Apply(next, phase)
    BY <1>4 DEF MoveObject
  <1>5. ASSUME NEW d, Stroke(d)
        PROVE  \E next, phase : Apply(next, phase)
    BY <1>5 DEF Stroke
  <1>6. ASSUME AddStep \/ (\E D \in SUBSET Drawings : DuplicateStep(D))
        PROVE  \E next, phase : Apply(next, phase)
    BY <1>6 DEF AddStep, DuplicateStep, InsertStep
  <1>7. ASSUME NEW from, NEW to, MoveStep(from, to)
        PROVE  \E next, phase : Apply(next, phase)
    BY <1>7 DEF MoveStep
  <1>8. ASSUME \/ \E o \in Objects : Grab(o)
               \/ \E d \in Drawings : SelectDrawing(d)
               \/ Deselect \/ LetGo
               \/ \E i \in DOMAIN doc.steps : GoToStep(i)
        PROVE  UNCHANGED <<doc, undoStack, redoStack>>
    BY <1>8 DEF Grab, SelectDrawing, Deselect, LetGo, GoToStep, historyVars
  <1>9. ASSUME NEW s, SendSave(s) \/ Store(s) \/ (\E ok \in BOOLEAN : SaveEnds(s, ok))
        PROVE  UNCHANGED <<doc, undoStack, redoStack>>
    BY <1>9 DEF SendSave, Store, SaveEnds, historyVars
  <1> QED
    BY <1>1, <1>2, <1>3, <1>4, <1>5, <1>6, <1>7, <1>8, <1>9 DEF BoardNext

(* Undo and redo lose, repeat and reorder nothing, however edits, drags    *)
(* and reopening are interleaved with them: the two stacks and the board   *)
(* between them implement the line of versions of EditTimeline, for any    *)
(* HISTORY_LIMIT above one.                                                *)
THEOREM HistoryImplementsTimeline == BoardSpec => StacksAreTimeline
  <1>1. BoardInit => Timeline!TimelineInit
    <2> SUFFICES ASSUME BoardInit PROVE Timeline!TimelineInit
      OBVIOUS
    <2>1. undoStack = <<>> /\ redoStack = <<>>
      BY DEF BoardInit
    <2>2. BoardInv
      BY BoardInvInit
    <2>3. Len(undoStack) = 0 /\ Len(redoStack) = 0
      BY <2>1
    <2>4. Len(Line(undoStack, doc, redoStack)) = 1 /\ Len(undoStack) + 1 = 1
      BY <2>2, <2>3, TimelineFacts
    <2> QED
      BY <2>4 DEF Timeline!TimelineInit, Line
  <1>2. BoardInv /\ BoardInv' /\ [BoardNext]_boardVars => [Timeline!TimelineNext]_(Timeline!tvars)
    <2> SUFFICES ASSUME BoardInv, BoardInv', [BoardNext]_boardVars
                 PROVE  Timeline!TimelineNext \/ UNCHANGED Timeline!tvars
      OBVIOUS
    <2>1. CASE UNCHANGED <<doc, undoStack, redoStack>>
      BY <2>1 DEF Timeline!tvars
    <2>2. CASE UNCHANGED boardVars
      BY <2>1, <2>2 DEF boardVars, historyVars
    <2>3. CASE Undo
      BY <2>3, UndoGoesBack DEF Timeline!TimelineNext
    <2>4. CASE Redo
      BY <2>4, RedoGoesForth DEF Timeline!TimelineNext
    <2>5. CASE Reopen
      BY <2>5, ReopenOpens DEF Timeline!TimelineNext
    <2>6. CASE \E next, phase : Apply(next, phase)
      BY <2>6, ApplyEdits DEF Timeline!TimelineNext
    <2> QED
      BY <2>1, <2>2, <2>3, <2>4, <2>5, <2>6, ApplyOrQuiet
  <1> QED
    BY <1>1, <1>2, BoardInductive, PTL DEF BoardSpec, StacksAreTimeline, Timeline!TimelineSpec

-----------------------------------------------------------------------------
(* How the board looks.  e is d, of n steps, without its step i, whose     *)
(* positions are carried over.                                             *)
IsWithout(e, d, n, i) ==
    \A k \in 1 .. n - 1 :
       e.steps[k].pos = IF k < i THEN d.steps[k].pos
                        ELSE IF k = i THEN Carried(d.steps[i].pos, d.steps[i + 1].pos)
                        ELSE d.steps[k + 1].pos

LEMMA CarriedLook ==
    ASSUME NEW d \in Version, NEW e \in Version, NEW n \in Nat, NEW i \in 1 .. n,
           IsWithout(e, d, n, i), NEW o \in Objects
    PROVE  \A k \in 1 .. n - 1 : Where(e, k, o) = Where(d, IF k < i THEN k ELSE k + 1, o)
  <1>0. \A k \in 1 .. n - 1 :
           e.steps[k].pos = IF k < i THEN d.steps[k].pos
                            ELSE IF k = i THEN Carried(d.steps[i].pos, d.steps[i + 1].pos)
                            ELSE d.steps[k + 1].pos
    BY DEF IsWithout
  <1> DEFINE S == {k \in Nat : k <= n - 1
                     => Where(e, k, o) = Where(d, IF k < i THEN k ELSE k + 1, o)}
  <1>1. 0 \in S
    BY NowhereAtFirst
  <1>2. ASSUME NEW k \in Nat, k \in S PROVE k + 1 \in S
    <2> SUFFICES ASSUME k + 1 <= n - 1
                 PROVE  Where(e, k + 1, o) = Where(d, IF k + 1 < i THEN k + 1 ELSE k + 2, o)
      OBVIOUS
    <2>1. /\ k + 1 \in 1 .. n - 1 /\ k + 1 \in Nat \ {0} /\ k + 2 \in Nat \ {0}
          /\ (k + 1) - 1 = k /\ (k + 2) - 1 = k + 1 /\ (k + 1) + 1 = k + 2
      OBVIOUS
    <2>2. Where(e, k, o) = Where(d, IF k < i THEN k ELSE k + 1, o)
      BY <1>2, <2>1
    <2> HIDE DEF S
    <2>3. Where(e, k + 1, o) = IF e.steps[k + 1].pos[o] # Unset THEN e.steps[k + 1].pos[o]
                               ELSE Where(e, k, o)
      BY <2>1, WhereStep
    <2>4. Where(d, k + 1, o) = IF d.steps[k + 1].pos[o] # Unset THEN d.steps[k + 1].pos[o]
                               ELSE Where(d, k, o)
      BY <2>1, WhereStep
    <2>5. Where(d, k + 2, o) = IF d.steps[k + 2].pos[o] # Unset THEN d.steps[k + 2].pos[o]
                               ELSE Where(d, k + 1, o)
      BY <2>1, WhereStep
    <2>6. CASE k + 1 < i
      <3>1. e.steps[k + 1].pos = d.steps[k + 1].pos /\ k < i
        BY <1>0, <2>1, <2>6
      <3> QED
        BY <2>2, <2>3, <2>4, <2>6, <3>1
    <2>7. CASE k + 1 = i
      <3>1. /\ e.steps[k + 1].pos = Carried(d.steps[k + 1].pos, d.steps[k + 2].pos)
            /\ k < i /\ ~(k + 1 < i)
        BY <1>0, <2>1, <2>7
      <3>2. e.steps[k + 1].pos[o] = IF d.steps[k + 2].pos[o] # Unset THEN d.steps[k + 2].pos[o]
                                    ELSE d.steps[k + 1].pos[o]
        BY <3>1 DEF Carried
      <3> QED
        BY <2>2, <2>3, <2>4, <2>5, <3>1, <3>2
    <2>8. CASE k + 1 > i
      <3>1. e.steps[k + 1].pos = d.steps[k + 2].pos /\ ~(k < i) /\ ~(k + 1 < i)
        BY <1>0, <2>1, <2>8
      <3> QED
        BY <2>2, <2>3, <2>5, <3>1
    <2> QED
      BY <2>6, <2>7, <2>8
  <1> HIDE DEF S
  <1>3. \A k \in Nat : k \in S
    BY <1>1, <1>2, SetInduction
  <1> QED
    BY <1>3 DEF S

(* Deleting a step moves nothing: what it moved is carried into the next   *)
(* step, so every other step looks as it did, whatever moves where and     *)
(* however many steps there are.                                           *)
THEOREM DeletionCorrect == BoardSpec => DeletionMovesNothing
  <1>1. BoardInv /\ [BoardNext]_boardVars
          => [DeleteStep =>
                \A k \in DOMAIN doc'.steps, o \in Objects :
                   Where(doc', k, o)
                     = Where(doc, IF k < stepIndex THEN k ELSE k + 1, o)]_boardVars
    <2> SUFFICES ASSUME BoardInv, DeleteStep,
                        NEW k \in DOMAIN doc'.steps, NEW o \in Objects
                 PROVE  Where(doc', k, o) = Where(doc, IF k < stepIndex THEN k ELSE k + 1, o)
      OBVIOUS
    <2>1. PICK n : n = Len(doc.steps)
      OBVIOUS
    <2>2. /\ n \in Nat /\ stepIndex \in 1 .. n /\ doc \in Version
      BY <2>1, BoardFacts
    <2>3. /\ doc' \in Version /\ Len(doc'.steps) = n - 1
          /\ IsWithout(doc', doc, n, stepIndex)
      BY <2>1, DeleteStepFacts DEF IsWithout
    <2>4. k \in 1 .. n - 1
      BY <2>3, VersionFacts
    <2> QED
      BY <2>2, <2>3, <2>4, CarriedLook
  <1> QED
    BY <1>1, BoardInductive, PTL DEF BoardSpec, DeletionMovesNothing

(* What is on the board from the first step on is on it in every step.     *)
LEMMA OnFromTheFirst ==
    ASSUME NEW d, NEW o, Where(d, 1, o) # Unset
    PROVE  \A k \in Nat \ {0} : Where(d, k, o) # Unset
  <1> DEFINE S == {k \in Nat : Where(d, k + 1, o) # Unset}
  <1>1. 0 \in S
    OBVIOUS
  <1>2. ASSUME NEW k \in Nat, k \in S PROVE k + 1 \in S
    <2>1. k + 2 \in Nat \ {0} /\ (k + 2) - 1 = k + 1 /\ (k + 1) + 1 = k + 2
      OBVIOUS
    <2>2. Where(d, k + 2, o) = IF d.steps[k + 2].pos[o] # Unset THEN d.steps[k + 2].pos[o]
                               ELSE Where(d, k + 1, o)
      BY <2>1, WhereStep
    <2>3. Where(d, k + 2, o) # Unset
      BY <1>2, <2>2
    <2> QED
      BY <2>1, <2>3
  <1>3. \A k \in Nat : k \in S
    <2> HIDE DEF S
    <2> QED
      BY <1>1, <1>2, SetInduction
  <1> SUFFICES ASSUME NEW k \in Nat \ {0} PROVE Where(d, k, o) # Unset
    OBVIOUS
  <1>4. k - 1 \in Nat /\ (k - 1) + 1 = k
    OBVIOUS
  <1>5. k - 1 \in S
    BY <1>3, <1>4
  <1> QED
    BY <1>4, <1>5

(* e plays the steps of d in another order, f, each holding what differs   *)
(* from the step now played before it.                                     *)
IsResettled(e, d, n, f) ==
    \A k \in 1 .. n : e.steps[k].pos = Difference(d, IF k = 1 THEN 0 ELSE f[k - 1], f[k])

LEMMA ResettledLook ==
    ASSUME NEW d \in Version, NEW e \in Version, NEW n \in Nat,
           NEW f \in [1 .. n -> Nat \ {0}],
           IsResettled(e, d, n, f), NEW o \in d.objects, Where(d, 1, o) # Unset
    PROVE  \A k \in 1 .. n : Where(e, k, o) = Where(d, f[k], o)
  <1> DEFINE B(k) == IF k = 0 THEN 0 ELSE f[k]
             S == {k \in Nat : k <= n => Where(e, k, o) = Where(d, B(k), o)}
  <1>1. 0 \in S
    BY NowhereAtFirst
  <1>2. ASSUME NEW k \in Nat, k \in S PROVE k + 1 \in S
    <2> SUFFICES ASSUME k + 1 <= n
                 PROVE  Where(e, k + 1, o) = Where(d, f[k + 1], o)
      OBVIOUS
    <2>1. /\ k + 1 \in 1 .. n /\ k + 1 \in Nat \ {0} /\ (k + 1) - 1 = k /\ k <= n
          /\ (k + 1 = 1 <=> k = 0)
      OBVIOUS
    <2>2. Where(e, k, o) = Where(d, B(k), o)
      BY <1>2, <2>1
    <2>3. e.steps[k + 1].pos = Difference(d, B(k), f[k + 1])
      BY <2>1 DEF IsResettled
    <2>4. f[k + 1] \in Nat \ {0}
      BY <2>1
    <2> HIDE DEF S, B
    <2>5. Where(e, k + 1, o) = IF e.steps[k + 1].pos[o] # Unset THEN e.steps[k + 1].pos[o]
                               ELSE Where(e, k, o)
      BY <2>1, WhereStep
    <2>6. Where(d, f[k + 1], o) # Unset
      BY <2>4, OnFromTheFirst
    <2>7. e.steps[k + 1].pos[o] = IF Where(d, f[k + 1], o) # Where(d, B(k), o)
                                  THEN Where(d, f[k + 1], o) ELSE Unset
      <3>1. o \in Objects
        BY VersionFacts
      <3> QED
        BY <2>3, <3>1 DEF Difference
    <2> QED
      BY <2>2, <2>5, <2>6, <2>7
  <1>3. \A k \in Nat : k \in S
    <2> HIDE DEF S
    <2> QED
      BY <1>1, <1>2, SetInduction
  <1> SUFFICES ASSUME NEW k \in 1 .. n PROVE Where(e, k, o) = Where(d, f[k], o)
    OBVIOUS
  <1>4. k \in Nat /\ k <= n /\ k # 0
    OBVIOUS
  <1>5. k \in S
    BY <1>3, <1>4
  <1> QED
    BY <1>4, <1>5

(* Reordering changes the order the steps play in and no look: an object   *)
(* that is on the board from the first step on stands in every step where  *)
(* it stood in it, whichever step is moved to whichever place.            *)
THEOREM ReorderCorrect == BoardSpec => ReorderKeepsTheLook
  <1>1. BoardInv /\ [BoardNext]_boardVars
          => [\A from, to \in DOMAIN doc.steps : MoveStep(from, to) =>
                \A o \in doc.objects : Where(doc, 1, o) # Unset => LooksTheSame(from, to, o)]_boardVars
    <2> SUFFICES ASSUME BoardInv, NEW from \in DOMAIN doc.steps, NEW to \in DOMAIN doc.steps,
                        MoveStep(from, to), NEW o \in doc.objects, Where(doc, 1, o) # Unset,
                        NEW k \in DOMAIN doc.steps
                 PROVE  Where(doc', k, o) = Where(doc, Order(Len(doc.steps), from, to)[k], o)
      BY DEF LooksTheSame
    <2>1. PICK n, f : n = Len(doc.steps) /\ f = Order(n, from, to)
      OBVIOUS
    <2>2. n \in Nat /\ DOMAIN doc.steps = 1 .. n /\ doc \in Version
      BY <2>1, BoardFacts
    <2>3. f \in [1 .. n -> Nat \ {0}]
      <3>1. f \in Seq(1 .. n) /\ Len(f) = n
        BY <2>1, <2>2, OrderFacts
      <3> QED
        BY <2>2, <3>1
    <2>4. doc' \in Version /\ IsResettled(doc', doc, n, f)
      BY <2>1, MoveStepFacts DEF Before, IsResettled
    <2>5. Where(doc', k, o) = Where(doc, f[k], o)
      BY <2>2, <2>3, <2>4, ResettledLook
    <2> QED
      BY <2>1, <2>5
  <1> QED
    BY <1>1, BoardInductive, PTL DEF BoardSpec, ReorderKeepsTheLook

------------------------------------------------------------------------------
(* The game.                                                               *)

AllSettings ==
    [leagues: SUBSET (Leagues \cup Top5), knownOnly: BOOLEAN, famousOnly: BOOLEAN,
     allowNations: BOOLEAN, timer: TimerChoices]

\* The timer of the pair on the board, when one runs.
TimerInv ==
    intervals # {} =>
        /\ intervals = {timerId}
        /\ loadState = "ready" /\ pair # NoPair /\ revealed = FALSE
        /\ settings.timer # 0

GameInv == settings \in AllSettings /\ TimerInv

------------------------------------------------------------------------------

\* What is drawn is a pair (drawPair).
LEMMA DrawnIsPair ==
    ASSUME NEW s, NEW key \in DrawCandidates(s)
    PROVE  key # NoPair
<1>1. \E c, d \in GameClubs \cup Nations : key = {c, d}
    <2>1. CASE key \in PairPool(s)
        <3>1. PICK p \in Careers : key \in OwnPairs(p, s)
            BY <2>1 DEF PairPool
        <3>. QED
            BY <3>1 DEF OwnPairs, EnabledClubs
    <2>2. CASE key \in RandomPairs(s)
        <3> DEFINE clubs == EnabledClubs(s.leagues)
                   second == IF Cardinality(clubs) < 2 THEN Nations
                             ELSE clubs \cup (IF s.allowNations THEN Nations ELSE {})
        <3>1. clubs \subseteq GameClubs
            BY DEF EnabledClubs
        <3>2. second \subseteq GameClubs \cup Nations
            BY <3>1
        <3>3. key \in {{c, d} : c \in clubs, d \in second}
            BY <2>2 DEF RandomPairs
        <3>. HIDE DEF clubs, second
        <3>. QED
            BY <3>1, <3>2, <3>3
    <2>. QED
        BY <2>1, <2>2 DEF DrawCandidates
<1>. QED
    BY <1>1, GameAssumption

\* stopTimer leaves no interval running.
LEMMA StopsAll == ASSUME TimerInv, StopTimer PROVE intervals' = {}
BY DEF TimerInv, StopTimer

\* startTimer leaves the new interval running, or none when rounds are not
\* timed.
LEMMA StartsOne ==
    ASSUME TimerInv, NEW seconds, StartTimer(seconds)
    PROVE  intervals' # {} => seconds # 0 /\ intervals' = {timerId'}
<1>1. CASE seconds = 0
    BY <1>1, StopsAll DEF StartTimer
<1>2. CASE seconds # 0
    BY <1>2 DEF StartTimer, TimerInv
<1>. QED
    BY <1>1, <1>2

\* A draw, for a point or for the next round (next).
LEMMA NextPairKeeps ==
    ASSUME GameInv, NextPair, loadState = "ready", UNCHANGED <<loadState, settings>>
    PROVE  GameInv'
<1>1. CASE DrawCandidates(settings) = {}
    BY <1>1 DEF NextPair, GameInv, TimerInv, timerVars
<1>2. CASE DrawCandidates(settings) # {}
    <2>1. PICK key \in DrawCandidates(settings) :
            pair' = key /\ revealed' = FALSE /\ StartTimer(settings.timer)
        BY <1>2 DEF NextPair
    <2>2. pair' # NoPair
        BY <2>1, DrawnIsPair
    <2>. QED
        BY <2>1, <2>2, StartsOne DEF GameInv, TimerInv
<1>. QED
    BY <1>1, <1>2

------------------------------------------------------------------------------

LEMMA GameInitially == GameInit => GameInv
BY GameAssumption DEF GameInit, GameInv, TimerInv, NoGame, FreshSettings, AllSettings

LEMMA GameStep == GameInv /\ [GameNext]_gameVars => GameInv'
<1> SUFFICES ASSUME GameInv, [GameNext]_gameVars PROVE GameInv'
    OBVIOUS
<1>. USE DEF GameInv
<1>1. CASE EnterGame
    BY <1>1 DEF EnterGame, LoadDataset, TimerInv, roundVars, timerVars
<1>2. CASE RetryLoad
    <2>1. loadState = "error"
        BY <1>2 DEF RetryLoad, Offered
    <2>. QED
        BY <1>2, <2>1 DEF RetryLoad, LoadDataset, TimerInv, roundVars, timerVars
<1>3. CASE GameReady
    <2>1. StoredLeagues \in SUBSET Leagues
        BY DEF StoredLeagues
    <2>2. settings' \in AllSettings
        BY <1>3, <2>1 DEF GameReady, AllSettings
    <2>. QED
        BY <1>3, <2>2 DEF GameReady, TimerInv, roundVars, timerVars
<1>4. CASE LeaveGame
    <2>1. settings' \in AllSettings
        BY <1>4, GameAssumption DEF LeaveGame, FreshSettings, AllSettings
    <2>2. intervals' = {}
        BY <1>4, StopsAll DEF LeaveGame, ForgetGame
    <2>. QED
        BY <2>1, <2>2 DEF TimerInv
<1>5. ASSUME NEW ok \in BOOLEAN, DatasetArrives(ok) PROVE GameInv'
    BY <1>5 DEF DatasetArrives, TimerInv, roundVars, timerVars
<1>6. CASE Primary
    <2>1. loadState = "ready"
        BY <1>6 DEF Primary, Offered
    <2>. QED
        BY <1>6, <2>1, NextPairKeeps DEF Primary
<1>7. CASE Reveal
    <2>1. intervals' = {}
        BY <1>7, StopsAll DEF Reveal, ShowAnswer
    <2>. QED
        BY <1>7, <2>1 DEF Reveal, TimerInv
<1>8. CASE ResetGame
    <2>1. intervals' = {}
        BY <1>8, StopsAll DEF ResetGame, ForgetGame
    <2>. QED
        BY <1>8, <2>1 DEF ResetGame, TimerInv
<1>9. ASSUME NEW i \in {1, 2}, Point(i) PROVE GameInv'
    <2>1. loadState = "ready"
        BY <1>9 DEF Point, Offered
    <2>. QED
        BY <1>9, <2>1, NextPairKeeps DEF Point
<1>10. CASE ChooseLeagues
    <2>1. PICK on \in SUBSET (Leagues \cup Top5) : SetLeagues(on)
        <3>1. settings.leagues \in SUBSET (Leagues \cup Top5)
            BY DEF AllSettings
        <3>. QED
            BY <1>10, <3>1 DEF ChooseLeagues
    <2>2. settings' \in AllSettings /\ settings'.timer = settings.timer
        BY <2>1 DEF SetLeagues, AllSettings
    <2>. QED
        BY <2>1, <2>2 DEF SetLeagues, TimerInv, roundVars, timerVars
<1>11. ASSUME NEW o \in {"knownOnly", "famousOnly", "allowNations"}, NEW on \in BOOLEAN, SetOption(o, on)
       PROVE  GameInv'
    <2>1. settings' \in AllSettings /\ settings'.timer = settings.timer
        BY <1>11 DEF SetOption, AllSettings
    <2>. QED
        BY <1>11, <2>1 DEF SetOption, TimerInv, roundVars, timerVars
<1>12. ASSUME NEW t \in TimerChoices, SetTimer(t) PROVE GameInv'
    <2>1. settings' \in AllSettings /\ settings'.timer = t
        BY <1>12 DEF SetTimer, AllSettings
    <2>2. UNCHANGED <<loadState, pair, revealed>> /\ loadState = "ready"
        BY <1>12 DEF SetTimer, roundVars, Offered
    <2>3. CASE Started /\ ~revealed
        <3>1. StartTimer(t)
            BY <1>12, <2>3 DEF SetTimer
        <3>2. intervals' # {} => t # 0 /\ intervals' = {timerId'}
            BY <3>1, StartsOne
        <3>. QED
            BY <2>1, <2>2, <2>3, <3>2 DEF TimerInv, Started
    <2>4. CASE ~(Started /\ ~revealed)
        <3>1. intervals' = {}
            BY <1>12, <2>4, StopsAll DEF SetTimer
        <3>. QED
            BY <2>1, <3>1 DEF TimerInv
    <2>. QED
        BY <2>3, <2>4
<1>13. ASSUME NEW i \in Intervals, TimerTick(i) PROVE GameInv'
    <2>1. UNCHANGED <<loadState, settings, pair>>
        BY <1>13 DEF TimerTick
    <2>2. CASE timeLeft' = 0
        <3>1. intervals' = {}
            BY <1>13, <2>2, StopsAll DEF TimerTick, ShowAnswer
        <3>. QED
            BY <2>1, <3>1 DEF TimerInv
    <2>3. CASE timeLeft' # 0
        BY <1>13, <2>1, <2>3 DEF TimerTick, TimerInv
    <2>. QED
        BY <2>2, <2>3
<1>14. CASE UNCHANGED gameVars
    BY <1>14 DEF gameVars, TimerInv, roundVars, timerVars
<1>. QED
    BY <1>1, <1>2, <1>3, <1>4, <1>5, <1>6, <1>7, <1>8, <1>9, <1>10, <1>11, <1>12, <1>13, <1>14
    DEF GameNext

\* The interval that runs belongs to the pair on the board, whose answer is
\* hidden: no timer of an earlier round, setting or visit reveals it
\* (played-for-both.store.ts, startTimer and stopTimer).
THEOREM TimersCorrect == GameSpec => []TimerBelongsToOpenPair
<1>1. GameInv => TimerBelongsToOpenPair
    BY DEF GameInv, TimerInv, TimerBelongsToOpenPair, Answer, Started
<1>. QED
    BY <1>1, GameInitially, GameStep, PTL DEF GameSpec

------------------------------------------------------------------------------
(* The draw.  A draw is a pair that somebody played for, or one of any two   *)
(* teams when no pair is.                                                  *)

LEMMA TwoTeams == ASSUME NEW c, NEW d, c # d PROVE Cardinality({c, d}) = 2
<1>1. IsFiniteSet({}) /\ Cardinality({}) = 0
    BY FS_EmptySet
<1>2. IsFiniteSet({c}) /\ Cardinality({c}) = 1
    BY FS_Singleton
<1>3. Cardinality({c} \cup {d}) = Cardinality({c}) + 1
    BY <1>2, FS_AddElement
<1>4. {c} \cup {d} = {c, d}
    OBVIOUS
<1>. QED
    BY <1>2, <1>3, <1>4

\* The pairs of a player's own teams are those the settings allow that the
\* player answers.
LEMMA OwnPairsFound ==
    ASSUME NEW s, NEW p \in Careers, NEW c \in EnabledClubs(s.leagues), NEW d \in GameClubs \cup Nations,
           c # d, Allowed(s, {c, d}), p \in KnownAnswers(s, {c, d})
    PROVE  {c, d} \in OwnPairs(p, s)
<1> DEFINE clubs == p.at \cap EnabledClubs(s.leagues)
           second == clubs \cup (IF s.allowNations THEN p.at \cap Nations ELSE {})
<1>1. OwnPairs(p, s) = {{e, f} : e \in clubs, f \in second} \ {{e} : e \in GameClubs}
    BY DEF OwnPairs
<1>2. c \in p.at /\ d \in p.at
    BY DEF KnownAnswers, Matches
<1>3. c \in clubs /\ d \in second
    BY <1>2 DEF Allowed
<1>4. {c, d} \notin {{e} : e \in GameClubs}
    OBVIOUS
<1>. HIDE DEF clubs, second
<1>. QED
    BY <1>1, <1>3, <1>4

LEMMA OwnPairsAnswered ==
    ASSUME NEW s, NEW p \in Careers, s.famousOnly => p.famous, NEW key \in OwnPairs(p, s)
    PROVE  /\ p \in KnownAnswers(s, key) /\ Allowed(s, key)
           /\ \E c \in EnabledClubs(s.leagues) : \E d \in key : c # d /\ key = {c, d}
<1> DEFINE clubs == p.at \cap EnabledClubs(s.leagues)
           second == clubs \cup (IF s.allowNations THEN p.at \cap Nations ELSE {})
<1>1. OwnPairs(p, s) = {{e, f} : e \in clubs, f \in second} \ {{e} : e \in GameClubs}
    BY DEF OwnPairs
<1>2. PICK c \in clubs, d \in second : key = {c, d}
    BY <1>1
<1>3. c \in GameClubs
    BY DEF EnabledClubs
<1>4. c # d
    BY <1>1, <1>2, <1>3
<1>5. key \subseteq p.at /\ Allowed(s, key)
    BY <1>2 DEF Allowed
<1>. QED
    BY <1>2, <1>4, <1>5 DEF KnownAnswers, Matches

LEMMA RandomPairsFair ==
    ASSUME NEW s, NEW key \in RandomPairs(s)
    PROVE  /\ \E c \in EnabledClubs(s.leagues), d \in EnabledClubs(s.leagues) \cup Nations :
                  c # d /\ key = {c, d}
           /\ Allowed(s, key) \/ Cardinality(EnabledClubs(s.leagues)) = 1
<1>1. PICK clubs : clubs = EnabledClubs(s.leagues)
    OBVIOUS
<1>2. PICK second : second = IF Cardinality(clubs) < 2 THEN Nations
                             ELSE clubs \cup (IF s.allowNations THEN Nations ELSE {})
    OBVIOUS
<1>3. key \in {{c, d} : c \in clubs, d \in second} \ {{c} : c \in clubs}
    BY <1>1, <1>2 DEF RandomPairs
<1>4. PICK c \in clubs, d \in second : key = {c, d} /\ c # d
    BY <1>3
<1>5. second \subseteq clubs \cup Nations
    BY <1>2
<1>6. Cardinality(clubs) \in Nat /\ Cardinality(clubs) # 0
    <2>1. clubs \subseteq GameClubs
        BY <1>1 DEF EnabledClubs
    <2>2. IsFiniteSet(clubs)
        BY <2>1, FS_Subset, GameAssumption
    <2>. QED
        BY <1>4, <2>2, FS_CardinalityType, FS_EmptySet
<1>7. CASE Cardinality(clubs) < 2
    BY <1>1, <1>4, <1>5, <1>6, <1>7
<1>8. CASE ~(Cardinality(clubs) < 2)
    <2>1. key \subseteq clubs \cup (IF s.allowNations THEN Nations ELSE {})
        BY <1>2, <1>4, <1>8
    <2>. QED
        BY <1>1, <1>4, <1>5, <2>1 DEF Allowed
<1>. QED
    BY <1>7, <1>8

LEMMA DrawIsFair == ASSUME NEW s, NEW key \in DrawCandidates(s) PROVE DrawnFairly(s, key)
<1>1. CASE s.knownOnly /\ PairPool(s) # {}
    <2>1. key \in PairPool(s)
        BY <1>1 DEF DrawCandidates
    <2>2. PICK p \in Careers : (s.famousOnly => p.famous) /\ key \in OwnPairs(p, s)
        BY <2>1 DEF PairPool
    <2>3. p \in KnownAnswers(s, key) /\ Allowed(s, key)
          /\ \E c \in EnabledClubs(s.leagues) : \E d \in key : c # d /\ key = {c, d}
        BY <2>2, OwnPairsAnswered
    <2>4. key \subseteq EnabledClubs(s.leagues) \cup Nations
        BY <2>3 DEF Allowed
    <2>. QED
        BY <2>3, <2>4, TwoTeams DEF DrawnFairly
<1>2. CASE ~(s.knownOnly /\ PairPool(s) # {})
    <2>1. key \in RandomPairs(s)
        BY <1>2 DEF DrawCandidates
    <2>2. PICK c \in EnabledClubs(s.leagues), d \in EnabledClubs(s.leagues) \cup Nations :
              c # d /\ key = {c, d}
        BY <2>1, RandomPairsFair
    <2>3. /\ Cardinality(key) = 2 /\ key \cap EnabledClubs(s.leagues) # {}
          /\ key \subseteq EnabledClubs(s.leagues) \cup Nations
        BY <2>2, TwoTeams
    <2>4. ASSUME s.knownOnly, NEW e \in EnabledClubs(s.leagues), NEW f \in GameClubs \cup Nations, e # f,
                 Allowed(s, {e, f})
          PROVE  KnownAnswers(s, {e, f}) = {}
        <3>1. SUFFICES ASSUME NEW p \in KnownAnswers(s, {e, f}) PROVE FALSE
            OBVIOUS
        <3>2. p \in Careers /\ (s.famousOnly => p.famous)
            BY <3>1 DEF KnownAnswers, Matches
        <3>3. {e, f} \in OwnPairs(p, s)
            BY <2>4, <3>1, <3>2, OwnPairsFound
        <3>4. {e, f} \in PairPool(s)
            BY <3>2, <3>3 DEF PairPool
        <3>. QED
            BY <1>2, <2>4, <3>4
    <2>. QED
        BY <2>1, <2>3, <2>4, RandomPairsFair DEF DrawnFairly
<1>. QED
    BY <1>1, <1>2

\* The rounds' pairs are counted, and each is drawn by the settings.
LEMMA DrawStep == ASSUME drawId \in Nat, [GameNext]_gameVars
      PROVE  drawId' \in Nat /\ (drawId' = drawId + 1 => DrawnFairly(settings, pair'))
<1>1. CASE NextPair
    BY <1>1, DrawIsFair DEF NextPair
<1>2. CASE drawId' = drawId \/ drawId' = 0
    BY <1>2
<1>3. CASE Primary \/ \E i \in {1, 2} : Point(i)
    BY <1>1, <1>3 DEF Primary, Point
<1>4. CASE ChooseLeagues
    BY <1>2, <1>4 DEF ChooseLeagues, SetLeagues, roundVars
<1>5. CASE EnterGame \/ RetryLoad \/ GameReady \/ LeaveGame \/ Reveal \/ ResetGame \/ UNCHANGED gameVars
    BY <1>2, <1>5 DEF EnterGame, RetryLoad, GameReady, LeaveGame, Reveal, ResetGame, roundVars, gameVars
<1>6. CASE \/ \E ok \in BOOLEAN : DatasetArrives(ok)
           \/ \E o \in {"knownOnly", "famousOnly", "allowNations"}, on \in BOOLEAN : SetOption(o, on)
           \/ \E t \in TimerChoices : SetTimer(t)
           \/ \E i \in Intervals : TimerTick(i)
    BY <1>2, <1>6 DEF DatasetArrives, SetOption, SetTimer, TimerTick, roundVars
<1>. QED
    BY <1>3, <1>4, <1>5, <1>6 DEF GameNext

\* The host's pair obeys the settings of the moment it is drawn
\* (played-for-both.engine.ts, drawPair and pickFromPool): two teams, one of
\* them a club of a league that is on, no country unless countries are on or
\* the club is alone, and a pair that somebody played for whenever there is one.
THEOREM DrawCorrect == GameSpec => DrawnPairIsFair
<1>1. GameInit => drawId \in Nat
    BY DEF GameInit, NoGame
<1>2. drawId \in Nat /\ [GameNext]_gameVars => (drawId \in Nat)'
    BY DrawStep
<1>3. drawId \in Nat /\ [GameNext]_gameVars => [drawId' = drawId + 1 => DrawnFairly(settings, pair')]_gameVars
    BY DrawStep
<1>. QED
    BY <1>1, <1>2, <1>3, PTL DEF GameSpec, DrawnPairIsFair

------------------------------------------------------------------------------
(* The types of the game, and of the two stores as they are run.           *)

AnyPairs == SUBSET (GameClubs \cup Nations)

TimerTyped ==
    intervals \subseteq Intervals /\ timerId \in Intervals \cup {NoInterval} /\ timeLeft \in 0 .. FullTime

PairTyped ==
    /\ pair = NoPair \/ Cardinality(pair) = 2
    /\ recent \in Seq(AnyPairs) /\ Len(recent) <= RecentWindow

GameTyped ==
    /\ dataset \in {"none", "pending", "ready"}
    /\ loadState \in {"away", "loading", "ready", "error"}
    /\ PairTyped /\ TimerTyped

\* recent forgets the oldest pairs beyond its window (pushRecent).
LEMMA RecentIsShort ==
    ASSUME NEW S, NEW keys \in Seq(S), NEW key \in S
    PROVE  PushRecent(keys, key) \in Seq(S) /\ Len(PushRecent(keys, key)) <= RecentWindow
<1>0. /\ Append(keys, key) \in Seq(S) /\ Len(Append(keys, key)) = Len(keys) + 1
      /\ Len(keys) \in Nat
    OBVIOUS
<1>1. PICK next : next = Append(keys, key)
    OBVIOUS
<1>2. PICK m : m = 1 + (IF Len(next) > RecentWindow THEN Len(next) - RecentWindow ELSE 0)
    OBVIOUS
<1>3. /\ m \in 1 .. Len(next) + 1 /\ Len(next) \in m - 1 .. Len(next)
      /\ Len(next) - m + 1 <= RecentWindow
    BY <1>0, <1>1, <1>2, GameAssumption
<1>4. SubSeq(next, m, Len(next)) \in Seq(S) /\ Len(SubSeq(next, m, Len(next))) = Len(next) - m + 1
    BY <1>0, <1>1, <1>3, SubSeqProperties
<1>. QED
    BY <1>1, <1>2, <1>3, <1>4 DEF PushRecent

LEMMA TimersTyped ==
    ASSUME TimerTyped
    PROVE  /\ StopTimer /\ timeLeft' \in {timeLeft, FullTime} => TimerTyped'
           /\ \A seconds : StartTimer(seconds) => TimerTyped'
<1>1. FullTime \in 0 .. FullTime
    BY GameAssumption
<1>2. StopTimer /\ timeLeft' \in {timeLeft, FullTime} => TimerTyped'
    BY <1>1 DEF StopTimer, TimerTyped
<1>3. ASSUME NEW seconds, StartTimer(seconds) PROVE TimerTyped'
    <2>1. CASE seconds = 0
        BY <1>2, <1>3, <2>1 DEF StartTimer
    <2>2. CASE seconds # 0
        BY <1>1, <1>3, <2>2 DEF StartTimer, TimerTyped
    <2>. QED
        BY <2>1, <2>2
<1>. QED
    BY <1>2, <1>3

LEMMA NextPairTyped == ASSUME PairTyped, TimerTyped, NextPair PROVE PairTyped' /\ TimerTyped'
<1>1. CASE DrawCandidates(settings) = {}
    BY <1>1 DEF NextPair, PairTyped, TimerTyped, timerVars
<1>2. CASE DrawCandidates(settings) # {}
    <2>1. PICK key \in DrawCandidates(settings) :
              pair' = key /\ recent' = PushRecent(recent, key) /\ StartTimer(settings.timer)
        BY <1>2 DEF NextPair
    <2>2. Cardinality(key) = 2 /\ key \in AnyPairs
        BY DrawIsFair DEF DrawnFairly, EnabledClubs, AnyPairs
    <2>3. recent' \in Seq(AnyPairs) /\ Len(recent') <= RecentWindow
        BY <2>1, <2>2, RecentIsShort DEF PairTyped
    <2>. QED
        BY <2>1, <2>2, <2>3, TimersTyped DEF PairTyped
<1>. QED
    BY <1>1, <1>2

LEMMA GameTypedInitially == GameInit => GameTyped
<1>1. <<>> \in Seq(AnyPairs) /\ Len(<<>>) = 0
    OBVIOUS
<1>. QED
    BY <1>1, GameAssumption DEF GameInit, NoGame, GameTyped, PairTyped, TimerTyped

LEMMA GameTypedStep == GameTyped /\ [GameNext]_gameVars => GameTyped'
<1>. SUFFICES ASSUME GameTyped, [GameNext]_gameVars PROVE GameTyped'
    OBVIOUS
<1>1. dataset' \in {"none", "pending", "ready"} /\ loadState' \in {"away", "loading", "ready", "error"}
    <2>1. CASE EnterGame \/ RetryLoad \/ GameReady \/ LeaveGame \/ Primary \/ Reveal \/ ResetGame
        BY <2>1 DEF GameTyped, EnterGame, RetryLoad, LoadDataset, GameReady, LeaveGame, Primary, Reveal, ResetGame
    <2>2. CASE \/ \E ok \in BOOLEAN : DatasetArrives(ok)
               \/ \E i \in {1, 2} : Point(i)
               \/ \E o \in {"knownOnly", "famousOnly", "allowNations"}, on \in BOOLEAN : SetOption(o, on)
               \/ \E t \in TimerChoices : SetTimer(t)
               \/ \E i \in Intervals : TimerTick(i)
        BY <2>2 DEF GameTyped, DatasetArrives, Point, SetOption, SetTimer, TimerTick
    <2>3. CASE ChooseLeagues \/ UNCHANGED gameVars
        BY <2>3 DEF GameTyped, ChooseLeagues, SetLeagues, gameVars
    <2>. QED
        BY <2>1, <2>2, <2>3 DEF GameNext
<1>2. PairTyped' /\ TimerTyped'
    <2>1. CASE UNCHANGED <<roundVars, timerVars>>
        BY <2>1 DEF GameTyped, PairTyped, TimerTyped, roundVars, timerVars
    <2>2. CASE Primary \/ \E i \in {1, 2} : Point(i)
        BY <2>2, NextPairTyped DEF Primary, Point, GameTyped
    <2>3. CASE Reveal
        BY <2>3, TimersTyped DEF Reveal, ShowAnswer, GameTyped, PairTyped
    <2>4. CASE ResetGame \/ LeaveGame
        <3>1. ForgetGame
            BY <2>4 DEF ResetGame, LeaveGame
        <3>2. <<>> \in Seq(AnyPairs) /\ Len(<<>>) <= RecentWindow
            BY GameAssumption
        <3>. QED
            BY <3>1, <3>2, TimersTyped DEF ForgetGame, GameTyped, PairTyped
    <2>5. ASSUME NEW t \in TimerChoices, SetTimer(t) PROVE PairTyped' /\ TimerTyped'
        BY <2>5, TimersTyped DEF SetTimer, roundVars, GameTyped, PairTyped
    <2>6. ASSUME NEW i \in Intervals, TimerTick(i) PROVE PairTyped' /\ TimerTyped'
        <3>1. timeLeft' \in 0 .. FullTime
            BY <2>6, GameAssumption DEF TimerTick, GameTyped, TimerTyped
        <3>2. intervals' \subseteq intervals /\ timerId' \in {timerId, NoInterval}
            BY <2>6 DEF TimerTick, ShowAnswer, StopTimer
        <3>. QED
            BY <2>6, <3>1, <3>2 DEF TimerTick, GameTyped, PairTyped, TimerTyped
    <2>7. CASE EnterGame \/ RetryLoad \/ GameReady \/ ChooseLeagues \/ UNCHANGED gameVars
        BY <2>1, <2>7 DEF EnterGame, RetryLoad, GameReady, ChooseLeagues, SetLeagues, gameVars
    <2>8. CASE \/ \E ok \in BOOLEAN : DatasetArrives(ok)
               \/ \E o \in {"knownOnly", "famousOnly", "allowNations"}, on \in BOOLEAN : SetOption(o, on)
        BY <2>1, <2>8 DEF DatasetArrives, SetOption
    <2>. QED
        BY <2>2, <2>3, <2>4, <2>5, <2>6, <2>7, <2>8 DEF GameNext
<1>. QED
    BY <1>1, <1>2 DEF GameTyped

StoresInv == BoardInv /\ GameInv /\ GameTyped

LEMMA StoresInitially == StoresInit => StoresInv
<1>1. StoresInit => BoardInit /\ GameInit
    BY DEF StoresInit, EditorInit
<1>. QED
    BY <1>1, BoardInvInit, GameInitially, GameTypedInitially DEF StoresInv

LEMMA StoresKept == StoresInv /\ [StoresNext]_<<part, boardVars, gameVars>> => StoresInv'
<1>1. [StoresNext]_<<part, boardVars, gameVars>> => [BoardNext]_boardVars /\ [GameNext]_gameVars
    BY DEF StoresNext, EditorNext
<1>. QED
    BY <1>1, BoardInvStep, GameStep, GameTypedStep DEF StoresInv

\* The board, the history of the editor and the game keep the shapes their
\* stores give them (tactics-editor.store.ts, played-for-both.store.ts): a step
\* on screen that the board has, a pair of two teams, no more recent pairs than
\* the window holds.
THEOREM StoresTypesCorrect == StoresSpec => []StoresTypeOK
<1>1. StoresInv => StoresTypeOK
    BY InvImpliesType DEF StoresInv, GameInv, GameTyped, PairTyped, TimerTyped, AllSettings, StoresTypeOK, GameTypeOK
<1>. QED
    BY <1>1, StoresInitially, StoresKept, PTL DEF StoresSpec
===============================================================================
