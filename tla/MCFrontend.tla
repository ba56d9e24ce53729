------------------------------ MODULE MCFrontend ------------------------------
(* Finite instances of the pages of the site, with the grants that the       *)
(* football service looks up for their requests.  The modules share no       *)
(* state, so one run explores each of them while the others stay in one of   *)
(* their initial states: `part` says which.  The variables of the modules    *)
(* that are instantiated have names of their own here.                       *)
EXTENDS MCGrantCache, RecordPages, RecordForms, PlayerNotes, ArticleEditor, Membership

CONSTANTS
    pw, pa, wu, au,             \* a writer's page of the editor, an administrator's
    Items, Tagged, PageSize, MaxChanges, MaxTags,
    Entries, PageLimit, OffsetLimit, People, MaxAsks,
    ua, ub, tm1, tm2            \* two members, two clubs

VARIABLES
    part,
    list, listed, tag, first, extra, hasMore, more, toDelete, confirming, deleting, changes, tags,
    disturbed,
    renderer, entries, known, download, nameOf, batches, calls, transfer, asks, shifted

listVars == <<list, listed, tag, first, extra, hasMore, more, toDelete, confirming, deleting, changes,
              tags, disturbed>>
nameVars == <<renderer, entries, known, download, nameOf, batches, calls, transfer, asks, shifted>>

Lists == INSTANCE AppendedLists
Names == INSTANCE ReferenceData
    WITH side <- renderer, kept <- known, loading <- download, names <- nameOf, moved <- shifted

MCUserOf == pw :> wu @@ pa :> au

\* An editor of one club, and a member who edits the other or is an administrator.
MCHeldBy == ua :> {tm1} @@ ub :> {tm2}
MCRoleChoices == {ua :> "editor" @@ ub :> r : r \in {"editor", "admin"}}

\* The links that are followed: an open page, a guarded one, the sign-in page;
\* and those that pages lead to.
MCFollowed == {<<"search">>, <<"desk">>, <<"login">>}
MCLinkedPaths == {<<"register">>, <<"verify-email">>, <<"desk", "new">>}

\* A part that is not explored starts in one of its initial states.
FrontendInit ==
    /\ part \in {"grants", "pages", "forms", "notes", "articles", "lists", "names", "members"}
    /\ Init
    /\ PagesInit /\ (part # "pages" => page = "GamesHub")
    /\ FormsInit /\ (part # "forms" => form = "SeasonForm" /\ ~isEdit)
    /\ NotesInit /\ onPage = CHOOSE q \in Persons : TRUE      \* the players are interchangeable
    /\ \A p \in Persons : \A n \in noted[p] : n.body = CHOOSE t \in Texts : TRUE   \* and so are the texts
    /\ part # "notes" => noted = [p \in Persons |-> {}] /\ ~moderator /\ ~member
    /\ EditorInit
    /\ Lists!ListInit /\ (part # "lists" => list = "boards" /\ listed = <<>>)
    /\ Names!ReferenceInit /\ (part # "names" => entries = <<>>)
    /\ MembershipInit
    /\ part # "members" => role[ub] = "admin" /\ view.path = <<>> /\ flow[ua].at = "none" /\ flow[ub].at = "none"

FrontendNext ==
    /\ UNCHANGED part
    /\ IF part = "grants" THEN Next ELSE UNCHANGED vars
    /\ IF part = "pages" THEN PagesNext ELSE UNCHANGED pagesVars
    /\ IF part = "forms" THEN FormsNext ELSE UNCHANGED formVars
    /\ IF part = "notes" THEN NotesNext ELSE UNCHANGED noteVars
    /\ IF part = "articles" THEN EditorNext ELSE UNCHANGED editorVars
    /\ IF part = "lists" THEN Lists!ListNext ELSE UNCHANGED listVars
    /\ IF part = "names" THEN Names!ReferenceNext ELSE UNCHANGED nameVars
    /\ IF part = "members" THEN MembershipNext ELSE UNCHANGED membershipVars

FrontendSpec ==
    FrontendInit /\ [][FrontendNext]_<<part, vars, pagesVars, formVars, noteVars, editorVars,
                                       listVars, nameVars, membershipVars>>

\* Bounds: one move on a club's page, whose requests are many, and where two saves
\* are tried, one field is typed into.
FrontendBounds ==
    /\ page = "ClubPage" => moves <= 1
    /\ presses <= 1 \/ Cardinality(typedInto) <= 1

------------------------------------------------------------------------------
(* The properties of the modules, under the names of the run.              *)

\* The type invariant of the module that is explored.
FrontendTypeOK ==
    CASE part = "grants" -> TypeOK
      [] part = "pages" -> PagesTypeOK
      [] part = "forms" -> FormsTypeOK
      [] part = "notes" -> NotesTypeOK
      [] part = "articles" -> EditorTypeOK
      [] part = "lists" -> Lists!ListTypeOK
      [] part = "names" -> Names!ReferenceTypeOK
      [] part = "members" -> MembershipTypeOK

\* A list read page by page is the service's list, whether it is shown as it
\* grows (article-list.ts and tactics-list.ts, loadMore) or kept when it is
\* whole (lookup-store.ts, load).
PagedListsAreWhole == []Lists!GrownListIsTheServices /\ Names!KeptListIsWhole

\* The browser's first drawing is the server's: its rows (ssr-resource.ts) and
\* the names they are written with (transferred-map.ts).
FirstDrawingAgrees == HydratesAsDrawn /\ Names!NamesSurviveHandOver
===============================================================================
