----------------------------- MODULE FrontendProofs -----------------------------
(***************************************************************************)
(* The properties of the site's run that are composed of its modules'.     *)
(*                                                                         *)
(* The modules share no state: a step of the whole is a step of the module *)
(* that is explored, or of none, so the whole implements each of them and  *)
(* has its properties.  The two modules that MCFrontend instantiates are   *)
(* reached through ListsProofs, which is instantiated here with the same   *)
(* variables; that the two instances say the same is proved first.         *)
(***************************************************************************)
EXTENDS MCFrontend, SiteProofs, MembersProofs, TLAPS

ListResults == INSTANCE ListsProofs
    WITH side <- renderer, kept <- known, loading <- download, names <- nameOf, moved <- shifted

------------------------------------------------------------------------------
(* The two instances of the lists.                                         *)

LEMMA SameSizes ==
    /\ \A S : Lists!Cardinality(S) = Cardinality(S)
    /\ \A S : Names!Cardinality(S) = Cardinality(S)
    /\ \A S : ListResults!Cardinality(S) = Cardinality(S)
    /\ \A S : ListResults!IsFiniteSet(S) <=> IsFiniteSet(S)
BY DEF Cardinality, Lists!Cardinality, Names!Cardinality, ListResults!Cardinality,
       IsFiniteSet, Lists!IsFiniteSet, Names!IsFiniteSet, ListResults!IsFiniteSet

LEMMA SameListInit == Lists!ListInit => ListResults!ListInit
<1>1. \A S : Lists!SetToSeqs(S) = ListResults!SetToSeqs(S)
    BY SameSizes DEF Lists!SetToSeqs, ListResults!SetToSeqs
<1>. QED
    BY <1>1 DEF Lists!ListInit, Lists!NoRows, Lists!NoMore, Lists!NoItem,
                ListResults!ListInit, ListResults!NoRows, ListResults!NoMore, ListResults!NoItem

LEMMA SameListNext == Lists!ListNext => ListResults!ListNext
BY DEF Lists!ListNext, Lists!loadMore, Lists!FirstAnswered, Lists!FirstFails, Lists!MoreAnswered, Lists!MoreArrives,
       Lists!MoreFails, Lists!ChooseTag, Lists!dismiss, Lists!accept, Lists!OthersChange, Lists!askDelete,
       Lists!ServeDelete, Lists!DeleteEnds, Lists!canLoadMore, Lists!Offset, Lists!shown, Lists!Narrowed,
       Lists!PageOf, Lists!Selected, Lists!Without, Lists!NoRows, Lists!NoMore, Lists!NoItem, Lists!ToSet,
       ListResults!ListNext, ListResults!loadMore, ListResults!FirstAnswered, ListResults!FirstFails,
       ListResults!MoreAnswered, ListResults!MoreArrives, ListResults!MoreFails, ListResults!ChooseTag,
       ListResults!dismiss, ListResults!accept, ListResults!OthersChange, ListResults!askDelete,
       ListResults!ServeDelete, ListResults!DeleteEnds, ListResults!canLoadMore, ListResults!Offset,
       ListResults!shown, ListResults!Narrowed, ListResults!PageOf, ListResults!Selected, ListResults!Without,
       ListResults!NoRows, ListResults!NoMore, ListResults!NoItem, ListResults!ToSet

LEMMA SameNamesInit == Names!ReferenceInit => ListResults!ReferenceInit
<1>1. \A S : Names!SetToSeqs(S) = ListResults!SetToSeqs(S)
    BY SameSizes DEF Names!SetToSeqs, ListResults!SetToSeqs
<1>. QED
    BY <1>1 DEF Names!ReferenceInit, Names!NoLoad, ListResults!ReferenceInit, ListResults!NoLoad

LEMMA SameNamesNext == Names!ReferenceNext => ListResults!ReferenceNext
BY DEF Names!ReferenceNext, Names!load, Names!ServePage, Names!PageArrives, Names!LoadFails, Names!ListChanges,
       Names!resolve, Names!BatchEnds, Names!ResolveEnds, Names!HandOver, Names!InFlight, Names!Chunks,
       Names!PageFrom, Names!Ask, Names!NoLoad, Names!AnotherPage, Names!Publish, Names!ToSet, Names!InsertAt,
       Names!RemoveAt, Names!SetToSeq, Names!IsInjective, Names!Cardinality, Names!IsFiniteSet,
       ListResults!ReferenceNext, ListResults!load, ListResults!ServePage, ListResults!PageArrives,
       ListResults!LoadFails, ListResults!ListChanges, ListResults!resolve, ListResults!BatchEnds,
       ListResults!ResolveEnds, ListResults!HandOver, ListResults!InFlight, ListResults!Chunks,
       ListResults!PageFrom, ListResults!Ask, ListResults!NoLoad, ListResults!AnotherPage, ListResults!Publish,
       ListResults!ToSet, ListResults!InsertAt, ListResults!RemoveAt, ListResults!SetToSeq,
       ListResults!IsInjective, ListResults!Cardinality, ListResults!IsFiniteSet

LEMMA SameListProperties ==
    /\ Lists!GrownListIsTheServices <=> ListResults!GrownListIsTheServices
    /\ Lists!ListTypeOK <=> ListResults!ListTypeOK
<1>1. Lists!shown = ListResults!shown
    BY DEF Lists!shown, ListResults!shown
<1>2. Lists!GrownListIsTheServices <=> ListResults!GrownListIsTheServices
    BY <1>1 DEF Lists!GrownListIsTheServices, Lists!Narrowed, Lists!Selected, Lists!IsPrefix,
                ListResults!GrownListIsTheServices, ListResults!Narrowed, ListResults!Selected, ListResults!IsPrefix
<1>3. Lists!ListTypeOK <=> ListResults!ListTypeOK
    BY <1>1, SameSizes DEF Lists!ListTypeOK, Lists!ToSet, ListResults!ListTypeOK, ListResults!ToSet
<1>. QED
    BY <1>2, <1>3

LEMMA SameNamesTyped == Names!ReferenceTypeOK <=> ListResults!ReferenceTypeOK
BY SameSizes DEF Names!ReferenceTypeOK, Names!InFlight, ListResults!ReferenceTypeOK, ListResults!InFlight

LEMMA SameKept == Names!KeptListIsWhole <=> ListResults!KeptListIsWhole
BY DEF Names!KeptListIsWhole, Names!referenceVars, ListResults!KeptListIsWhole, ListResults!referenceVars

LEMMA SameHandOver == Names!NamesSurviveHandOver <=> ListResults!NamesSurviveHandOver
BY DEF Names!NamesSurviveHandOver, Names!referenceVars, ListResults!NamesSurviveHandOver, ListResults!referenceVars

------------------------------------------------------------------------------
(* The parts of the whole.                                                 *)

frontendVars == <<part, vars, pagesVars, formVars, noteVars, editorVars, listVars, nameVars, membershipVars>>

LEMMA StartsOfParts ==
    ASSUME FrontendInit
    PROVE  /\ Init /\ PagesInit /\ FormsInit /\ NotesInit /\ EditorInit /\ MembershipInit
           /\ ListResults!ListInit /\ ListResults!ReferenceInit
BY SameListInit, SameNamesInit DEF FrontendInit

\* The steps of the module that is explored are its own; the others rest.
LEMMA StepsOfParts ==
    ASSUME [FrontendNext]_frontendVars
    PROVE  /\ [Next]_vars /\ [PagesNext]_pagesVars /\ [FormsNext]_formVars /\ [NotesNext]_noteVars
           /\ [EditorNext]_editorVars /\ [MembershipNext]_membershipVars
           /\ [ListResults!ListNext]_(ListResults!listVars)
           /\ [ListResults!ReferenceNext]_(ListResults!referenceVars)
<1>1. CASE FrontendNext
    <2>1. /\ [Next]_vars /\ [PagesNext]_pagesVars /\ [FormsNext]_formVars /\ [NotesNext]_noteVars
          /\ [EditorNext]_editorVars /\ [MembershipNext]_membershipVars
        BY <1>1 DEF FrontendNext
    <2>2. Lists!ListNext \/ UNCHANGED listVars
        BY <1>1 DEF FrontendNext
    <2>3. Names!ReferenceNext \/ UNCHANGED nameVars
        BY <1>1 DEF FrontendNext
    <2>. QED
        BY <2>1, <2>2, <2>3, SameListNext, SameNamesNext
           DEF listVars, nameVars, ListResults!listVars, ListResults!referenceVars
<1>2. CASE UNCHANGED frontendVars
    <2>1. UNCHANGED <<vars, pagesVars, formVars, noteVars, editorVars, listVars, nameVars, membershipVars>>
        BY <1>2 DEF frontendVars
    <2>. QED
        BY <2>1 DEF listVars, nameVars, ListResults!listVars, ListResults!referenceVars
<1>. QED
    BY <1>1, <1>2

LEMMA PartsImplemented ==
    /\ FrontendSpec => Spec /\ PagesSpec /\ FormsSpec /\ NotesSpec /\ EditorSpec /\ MembershipSpec
    /\ FrontendSpec => ListResults!ListSpec /\ ListResults!ReferenceSpec
<1>1. FrontendInit => /\ Init /\ PagesInit /\ FormsInit /\ NotesInit /\ EditorInit /\ MembershipInit
                      /\ ListResults!ListInit /\ ListResults!ReferenceInit
    BY StartsOfParts
<1>2. [FrontendNext]_frontendVars =>
          /\ [Next]_vars /\ [PagesNext]_pagesVars /\ [FormsNext]_formVars /\ [NotesNext]_noteVars
          /\ [EditorNext]_editorVars /\ [MembershipNext]_membershipVars
          /\ [ListResults!ListNext]_(ListResults!listVars)
          /\ [ListResults!ReferenceNext]_(ListResults!referenceVars)
    BY StepsOfParts
<1>. QED
    BY <1>1, <1>2, PTL DEF FrontendSpec, frontendVars, Spec, PagesSpec, FormsSpec, NotesSpec, EditorSpec,
                           MembershipSpec, ListResults!ListSpec, ListResults!ReferenceSpec

------------------------------------------------------------------------------

\* The list on the screen and the list that is kept are the service's
\* (article-list.ts and tactics-list.ts, loadMore; lookup-store.ts, load), for
\* any rows and any page size; the list that is kept is read in whole pages as
\* far as the safety stop, which is a whole number of them.
THEOREM PagedListsCorrect ==
    ASSUME IsFiniteSet(Items), PageSize \in Nat, IsFiniteSet(Entries),
           PageLimit \in Nat \ {0}, OffsetLimit \in Nat, \E k \in Nat : OffsetLimit = k * PageLimit
    PROVE  FrontendSpec => PagedListsAreWhole
<1>1. ListResults!WholePages
    BY DEF ListResults!WholePages, ListResults!PageEnd
<1>2. ListResults!ListSpec => []ListResults!GrownListIsTheServices
    BY SameSizes, ListResults!GrownListCorrect
<1>3. ListResults!ReferenceSpec => ListResults!KeptListIsWhole
    BY <1>1, SameSizes, ListResults!KeptListCorrect
<1>4. FrontendSpec => ListResults!ListSpec /\ ListResults!ReferenceSpec
    BY PartsImplemented
<1>5. ListResults!GrownListIsTheServices => Lists!GrownListIsTheServices
    BY SameListProperties
<1>. QED
    BY <1>2, <1>3, <1>4, <1>5, SameKept, PTL DEF PagedListsAreWhole

\* The browser draws first what the server drew: the same rows (ssr-resource.ts)
\* with the same names (transferred-map.ts).
THEOREM FirstDrawingCorrect == FrontendSpec => FirstDrawingAgrees
<1>1. FrontendSpec => PagesSpec /\ ListResults!ReferenceSpec
    BY PartsImplemented
<1>. QED
    BY <1>1, HydrationCorrect, ListResults!HandOverCorrect, SameHandOver, PTL DEF FirstDrawingAgrees

\* Every reachable state of every module of the site is well typed; among the
\* rest the save that the others of a page wait for is under way
\* (article-editor.ts, save), a page shows at most one page appended late
\* (article-list.ts, loadMore), and no name is asked for twice at a time
\* (player-names.ts, resolve).
THEOREM FrontendTypeCorrect ==
    ASSUME IsFiniteSet(Items), PageSize \in Nat, IsFiniteSet(Entries), IsFiniteSet(People), IsFiniteSet(Places),
           PageLimit \in Nat \ {0}, OffsetLimit \in Nat, \E k \in Nat : OffsetLimit = k * PageLimit
    PROVE  FrontendSpec => []FrontendTypeOK
<1> DEFINE PartOK == part \in {"grants", "pages", "forms", "notes", "articles", "lists", "names", "members"}
<1>1. ListResults!WholePages
    BY DEF ListResults!WholePages, ListResults!PageEnd
<1>2. ListResults!ListSpec => []ListResults!ListTypeOK
    BY SameSizes, ListResults!ListTypeCorrect
<1>3. ListResults!ReferenceSpec => []ListResults!ReferenceTypeOK
    BY <1>1, SameSizes, ListResults!ReferenceTypeCorrect
<1>4. EditorSpec => []EditorTypeOK
    BY EditorTypeCorrect
<1>5. FrontendInit => PartOK
    BY DEF FrontendInit
<1>6. PartOK /\ [FrontendNext]_frontendVars => PartOK'
    BY DEF FrontendNext, frontendVars
<1>7. FrontendSpec => []PartOK
    BY <1>5, <1>6, PTL DEF FrontendSpec, frontendVars
<1>8. ASSUME PartOK, TypeOK, PagesTypeOK, FormsTypeOK, NotesTypeOK, EditorTypeOK, MembershipTypeOK,
             ListResults!ListTypeOK, ListResults!ReferenceTypeOK
      PROVE  FrontendTypeOK
    BY <1>8, SameListProperties, SameNamesTyped DEF FrontendTypeOK
<1>. HIDE DEF PartOK
<1>. QED
    BY <1>2, <1>3, <1>4, <1>7, <1>8, PartsImplemented, GrantTypeCorrect, PagesTypeCorrect, FormsTypeCorrect,
       NotesTypeCorrect, MembershipTypeCorrect, PTL
=================================================================================
