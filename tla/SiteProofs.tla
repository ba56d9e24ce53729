------------------------------ MODULE SiteProofs ------------------------------
(***************************************************************************)
(* What the pages of the site show.                                        *)
(*                                                                         *)
(* Record pages: an invariant says, of every part of every page, that its  *)
(* request is of the address, the season and the search it stands for, or  *)
(* is to be asked again; that the rows held are an answer to it; and that  *)
(* the names it is drawn with were loaded before.  What the pages' tables  *)
(* say is used only through a few facts, proved page by page.              *)
(*                                                                         *)
(* Forms: a save replaces the whole record.  Every field of the form is    *)
(* the record's, typed, stored by someone else meanwhile, or empty because *)
(* the kind of the record forbids it; so is every field of a body on its   *)
(* way, and there is one on its way at a time.                             *)
(*                                                                         *)
(* Articles: a request writes back the whole row that it read earlier.     *)
(* The invariant says what a request may hold between the two: a writer's, *)
(* a row that was the writer's to change, so what it writes is never       *)
(* published; an administrator's, whose text is approved by being written. *)
(* The saves that wait for another go on in a recursive function, followed *)
(* by an induction on their number.                                        *)
(*                                                                         *)
(* What is handed on: until someone else writes the article or two of the  *)
(* page's requests cross, the page knows the stored text.  It is the text  *)
(* on the screen, or the screen is marked as unsaved; a save under way     *)
(* carries the screen's text or an earlier edit's; and what will be handed *)
(* on after it has been on the screen since the button.                    *)
(*                                                                         *)
(* What the parts are, last of each module: the save that others wait for  *)
(* is under way, because there is a place for every request under way and  *)
(* for each that follows it, and a request is sent in one that is free.    *)
(***************************************************************************)
EXTENDS RecordPages, RecordForms, ArticleEditor, FiniteSetTheorems, WellFoundedInduction, TLAPS

------------------------------------------------------------------------------
(* The pages of the records.                                               *)

RequestKeys == {"id", "season", "term", "offset"}

\* The names that are loaded by the time a part of a page shows its rows: its
\* own request waits for some, the page hangs on a record that waits for
\* others, and a season is picked from the list of the seasons.
Awaited(p, r) ==
    reads(p)[r].waits
      \cup (IF Pages[p].view.shell = "none" THEN {} ELSE reads(p)[Pages[p].view.shell].waits)
      \cup (IF Pages[p].view.parts[r].season = "picked" THEN {"seasons"} ELSE {})

TableSound(p) ==
    /\ \A r \in DOMAIN reads(p) : reads(p)[r].keys \subseteq RequestKeys
    /\ Pages[p].view.shell \in DOMAIN reads(p) \cup {"none"}
    /\ \A r \in DOMAIN Pages[p].view.parts :
          /\ r \in DOMAIN reads(p) /\ Pages[p].view.parts[r].names \subseteq Awaited(p, r)
          /\ Served(p) => Pages[p].view.parts[r].first # "loading"

LEMMA PartFields ==
    \A loading, error, none, names :
        LET drawn == Part(loading, error, none, names) IN drawn.names = names /\ drawn.season = "any" /\ drawn.first = "value"
BY DEF Part

\* A part that says nothing while it has nothing.
LEMMA OptionalFields == \A names : LET drawn == Optional(names) IN drawn.names = names /\ drawn.season = "any" /\ drawn.first = "value"
<1>. TAKE names
<1>1. \E none : Optional(names) = Part(none, none, none, names)
    BY Zenon DEF Optional
<1>. QED
    BY <1>1, PartFields

LEMMA EveryTableSound == \A p \in DOMAIN Pages : TableSound(p)
<1>1. TableSound("TransferFeed")
    <2>1. Pages["TransferFeed"].class = TransferFeed /\ Pages["TransferFeed"].view = TransferFeedView
        BY DEF Pages, Table
    <2>. QED
        BY <2>1 DEF TableSound, Served, Awaited, RequestKeys, reads, TransferFeed, TransferFeedView, Reader, Reads, Template, Part, List, Section, Optional
<1>2. TableSound("ClubList")
    <2>1. Pages["ClubList"].class = ClubList /\ Pages["ClubList"].view = ClubListView
        BY DEF Pages, Table
    <2>. QED
        BY <2>1 DEF TableSound, Served, Awaited, RequestKeys, reads, ClubList, ClubListView, Reader, Reads, Template, Part, List, Section, Optional
<1>3. TableSound("CompetitionList")
    <2>1. Pages["CompetitionList"].class = CompetitionList /\ Pages["CompetitionList"].view = CompetitionListView
        BY DEF Pages, Table
    <2>. QED
        BY <2>1 DEF TableSound, Served, Awaited, RequestKeys, reads, CompetitionList, CompetitionListView, Reader, Reads, Template, Part, List, Section, Optional
<1>4. TableSound("CompetitionPage")
    <2>1. Pages["CompetitionPage"].class = CompetitionPage /\ Pages["CompetitionPage"].view = CompetitionPageView
        BY DEF Pages, Table
    <2>. QED
        BY <2>1 DEF TableSound, Served, Awaited, RequestKeys, reads, CompetitionPage, CompetitionPageView, Reader, Reads, Template, Part, List, Section, Optional
<1>5. TableSound("SeasonList")
    <2>1. Pages["SeasonList"].class = SeasonList /\ Pages["SeasonList"].view = SeasonListView
        BY DEF Pages, Table
    <2>. QED
        BY <2>1 DEF TableSound, Served, Awaited, RequestKeys, reads, SeasonList, SeasonListView, Reader, Reads, Template, Part, List, Section, Optional
<1>6. TableSound("SearchPage")
    <2>1. Pages["SearchPage"].class = SearchPage /\ Pages["SearchPage"].view = SearchPageView
        BY DEF Pages, Table
    <2>. QED
        BY <2>1 DEF TableSound, Served, Awaited, RequestKeys, reads, SearchPage, SearchPageView, Reader, Reads, Template, Part, List, Section, Optional
<1>7. TableSound("CoachPage")
    <2>1. Pages["CoachPage"].class = CoachPage /\ Pages["CoachPage"].view = CoachPageView
        BY DEF Pages, Table
    <2>. QED
        BY <2>1 DEF TableSound, Served, Awaited, RequestKeys, reads, CoachPage, CoachPageView, Reader, Reads, Template, Part, List, Section, Optional
<1>8. TableSound("ClubPage")
    <2>1. Pages["ClubPage"].class = ClubPage /\ Pages["ClubPage"].view = ClubPageView
        BY DEF Pages, Table
    <2>2. ClubPage.reads =
            [club |-> [keys |-> {"id"}, waits |-> {"leagues"}], squad |-> [keys |-> {"id"}, waits |-> {}],
             staff |-> [keys |-> {"id"}, waits |-> {}], entries |-> [keys |-> {"id"}, waits |-> {"seasons", "leagues"}]]
        BY DEF ClubPage, Writer, Reader, Reads
    <2>. QED
        BY <2>1, <2>2 DEF TableSound, Served, Awaited, RequestKeys, reads, ClubPageView, Template, Part, List, Section, Optional, Patient
<1>9. TableSound("PlayerPage")
    <2>1. Pages["PlayerPage"].class = PlayerPage /\ Pages["PlayerPage"].view = PlayerPageView
        BY DEF Pages, Table
    <2>2. PlayerPage.reads =
            [player |-> [keys |-> {"id"}, waits |-> {"teams"}], transfers |-> [keys |-> {"id"}, waits |-> {}],
             stats |-> [keys |-> {"id"}, waits |-> {"seasons", "leagues"}], values |-> [keys |-> {"id"}, waits |-> {}]]
        BY DEF PlayerPage, Reader, Reads, PlayerReads
    <2>3. PlayerPageView.shell = "player" /\ PlayerPageView.parts = PlayerParts
        BY DEF PlayerPageView, Template
    <2>4. \E say, none : PlayerParts = [stats |-> Optional({"teams", "leagues", "seasons"}),
                                       values |-> Part(say, say, none, {}), transfers |-> Section({"teams"})]
        BY Zenon DEF PlayerParts
    <2>5. Section({"teams"}).names = {"teams"} /\ Section({"teams"}).season = "any" /\ Section({"teams"}).first = "value"
        BY DEF Section, Part
    <2>. QED
        BY <2>1, <2>2, <2>3, <2>4, <2>5, OptionalFields, PartFields DEF TableSound, Served, Awaited, RequestKeys, reads
<1>10. TableSound("GamesHub")
    <2>1. Pages["GamesHub"].class = GamesHub /\ Pages["GamesHub"].view = GamesHubView
        BY DEF Pages, Table
    <2>. QED
        BY <2>1 DEF TableSound, Served, Awaited, RequestKeys, reads, GamesHub, GamesHubView, Reader, Reads, Template, Part, List, Section, Optional
<1>11. TableSound("ArticlePage")
    <2>1. Pages["ArticlePage"].class = ArticlePage /\ Pages["ArticlePage"].view = ArticlePageView
        BY DEF Pages, Table
    <2>2. ArticlePage.reads =
            [article |-> [keys |-> {"id"}, waits |-> {}], more |-> [keys |-> {"id"}, waits |-> {}]]
        BY DEF ArticlePage, Reader, Reads
    <2>3. ArticlePageView.shell = "article" /\ ArticlePageView.parts = [more |-> Optional({})]
        BY DEF ArticlePageView, Template
    <2>. QED
        BY <2>1, <2>2, <2>3, OptionalFields DEF TableSound, Served, Awaited, RequestKeys, reads
<1>12. TableSound("UserList")
    <2>1. Pages["UserList"].class = UserList /\ Pages["UserList"].view = UserListView
        BY DEF Pages, Table
    <2>2. UserList.reads =
            [users |-> [keys |-> {"term", "offset"}, waits |-> {}]]
        BY DEF UserList, Writer, Reader, Reads
    <2>. QED
        BY <2>1, <2>2 DEF TableSound, Served, Awaited, RequestKeys, reads, UserListView, Template, Part, List, Section, Optional, Patient
<1>13. TableSound("AccountPage")
    <2>1. Pages["AccountPage"].class = AccountPage /\ Pages["AccountPage"].view = AccountPageView
        BY DEF Pages, Table
    <2>2. AccountPage.reads =
            [identities |-> [keys |-> {}, waits |-> {}]]
        BY DEF AccountPage, Writer, Reader, Reads
    <2>. QED
        BY <2>1, <2>2 DEF TableSound, Served, Awaited, RequestKeys, reads, AccountPageView, Template, Part, List, Section, Optional, Patient
<1>14. DOMAIN Pages = {"TransferFeed", "ClubList", "CompetitionList", "CompetitionPage", "SeasonList",
                       "SearchPage", "CoachPage", "ClubPage", "PlayerPage", "GamesHub", "ArticlePage",
                       "UserList", "AccountPage"}
    BY DEF Pages
<1>. QED
    BY <1>1, <1>2, <1>3, <1>4, <1>5, <1>6, <1>7, <1>8, <1>9, <1>10, <1>11, <1>12, <1>13, <1>14

------------------------------------------------------------------------------
(* The invariant.  x is the resource r of the page p, whose address and    *)
(* controls are a, when the lists `names` are loaded.                      *)

IsResource(x) == DOMAIN x = {"status", "value", "got", "seed"}

IsArgs(a) == DOMAIN a = RequestKeys

\* A value has no rows before the names its request waits for are loaded.
Named(p, names, r, v) ==
    /\ v.rows # {} => v.known
    /\ v.known => reads(p)[r].waits \subseteq names

\* What the server drew, or nothing: of a season that is picked it drew nothing.
SeedSound(p, names, r, v) ==
    /\ Named(p, names, r, v)
    /\ "season" \in reads(p)[r].keys => v.rows = {}

Sound(p, a, names, r, x) ==
    /\ IsResource(x) /\ x.status \in {"idle", "loading", "reloading", "resolved", "error"}
    /\ x.status = "resolved" => x.value.known
    /\ SeedSound(p, names, r, x.seed)
    /\ Named(p, names, r, x.value)
    /\ x.got.rows # {} => x.got.known
    /\ x.got.known => x.got.of = Query(p, a, r)
    /\ x.value.rows # {} => x.value.of = Query(p, a, r) \/ (x.value = x.seed /\ x.status = "loading")
    /\ Unasked(p, a, r) <=> x.status = "idle"
    /\ Unasked(p, a, r) => x.value.rows = {}

\* No row that was written is in a list that has settled, or in the answer
\* that is on its way to it.
CaughtUp(x) ==
    /\ x.status = "resolved" => x.value.rows \cap gone = {}
    /\ x.status \in {"loading", "reloading"} /\ x.got.known => x.got.rows \cap gone = {}

WritesShow == Written \in DOMAIN reads(page) /\ ~missed => CaughtUp(res[Written])

PagesInv ==
    /\ page \in DOMAIN Pages /\ IsArgs(args)
    /\ side = "server" => args.season = "now" /\ Served(page)
    /\ args.season = "picked" => "seasons" \in lookups
    /\ res = [r \in DOMAIN reads(page) |-> res[r]]
    /\ \A r \in DOMAIN reads(page) : Sound(page, args, lookups, r, res[r])
    /\ WritesShow

------------------------------------------------------------------------------
(* Resources.                                                              *)

\* What asks has nothing on its way, and shows what the server drew.
LEMMA AskSound ==
    ASSUME NEW p, NEW a, NEW names, NEW r, NEW seed, SeedSound(p, names, r, seed)
    PROVE  Sound(p, a, names, r, Ask(p, a, r, seed))
BY DEF Sound, SeedSound, Named, IsResource, Ask, Unasked, NoValue

\* Whether it asks or not, it claims nothing of what was written.
LEMMA AskCaughtUp == \A p, a, r, seed : CaughtUp(Ask(p, a, r, seed))
BY DEF CaughtUp, Ask, NoValue

\* Nothing is drawn before anything was asked.
LEMMA NothingSound == \A p, names, r : SeedSound(p, names, r, NoValue)
BY DEF SeedSound, Named, NoValue

\* Names that are loaded stay loaded.
LEMMA NamesStay ==
    ASSUME NEW p, NEW a, NEW names, NEW r, NEW x, Sound(p, a, names, r, x), NEW further
    PROVE  Sound(p, a, names \cup further, r, x)
<1>1. \A v : Named(p, names, r, v) => Named(p, names \cup further, r, v)
    BY DEF Named
<1>. QED
    BY <1>1 DEF Sound, SeedSound

\* What does not depend on what was set stands for the new address too.
LEMMA OtherKeys ==
    ASSUME NEW p \in DOMAIN Pages, NEW r \in DOMAIN reads(p), NEW a, NEW b, NEW names, NEW x,
           Sound(p, a, names, r, x), \A k \in reads(p)[r].keys : a[k] = b[k], IsArgs(a), IsArgs(b)
    PROVE  Sound(p, b, names, r, x)
<1>1. Query(p, a, r) = Query(p, b, r)
    BY DEF Query
<1>2. Unasked(p, a, r) = Unasked(p, b, r)
    BY DEF Unasked, IsArgs
<1>. QED
    BY <1>1, <1>2 DEF Sound

LEMMA NewInstanceSound ==
    ASSUME NEW p \in DOMAIN Pages, NEW a, NEW seeds, IsArgs(a), a.season = "now", side' = "browser", NewInstance(p, a, seeds),
           \A r \in DOMAIN reads(p) : SeedSound(p, lookups', r, seeds[r])
    PROVE  PagesInv'
<1>. USE DEF NewInstance
<1>1. \A r \in DOMAIN reads(p) : res'[r] = Ask(p, a, r, seeds[r])
    OBVIOUS
<1>2. \A r \in DOMAIN reads(p) : Sound(p, a, lookups', r, res'[r])
    BY <1>1, AskSound
<1>3. WritesShow'
    BY DEF WritesShow, CaughtUp
<1>4. res' = [r \in DOMAIN reads(page') |-> res'[r]]
    OBVIOUS
<1>. QED
    BY <1>2, <1>3, <1>4 DEF PagesInv

LEMMA ChangeSound ==
    ASSUME PagesInv, NEW keys, NEW a, IsArgs(a), \A k \in RequestKeys \ keys : a[k] = args[k], Change(keys, a),
           side = "server" => a.season = "now", a.season = "picked" => "seasons" \in lookups
    PROVE  PagesInv'
<1>. USE DEF PagesInv
<1> DEFINE Touched(r) == reads(page)[r].keys \cap keys # {}
<1>1. /\ page' = page /\ args' = a /\ lookups' = lookups /\ side' = side /\ gone' = gone
      /\ DOMAIN res = DOMAIN reads(page)
      /\ res' = [r \in DOMAIN reads(page) |-> IF Touched(r) THEN Ask(page, a, r, res[r].seed) ELSE res[r]]
    BY DEF Change
<1>. HIDE DEF Touched
<1>2. ASSUME NEW r \in DOMAIN reads(page) PROVE Sound(page, a, lookups, r, res'[r])
    <2>1. CASE Touched(r)
        <3>1. SeedSound(page, lookups, r, res[r].seed)
            BY DEF Sound
        <3>2. Sound(page, a, lookups, r, Ask(page, a, r, res[r].seed))
            BY <3>1, AskSound
        <3>. QED
            BY <1>1, <2>1, <3>2
    <2>2. CASE ~Touched(r)
        <3>1. \A k \in reads(page)[r].keys : args[k] = a[k]
            BY <2>2, EveryTableSound DEF TableSound, Touched
        <3>. QED
            BY <1>1, <2>2, <3>1, OtherKeys
    <2>. QED
        BY <2>1, <2>2
<1>3. WritesShow'
    <2>1. SUFFICES ASSUME Written \in DOMAIN reads(page), ~missed' PROVE CaughtUp(res[Written])'
        BY <1>1 DEF WritesShow, Written
    <2>2. CASE res'[Written] = res[Written]
        <3>1. ~missed
            BY <1>1, <2>1, <2>2 DEF Change
        <3>. QED
            BY <1>1, <2>1, <2>2, <3>1 DEF WritesShow, CaughtUp, Written
    <2>3. CASE res'[Written] # res[Written]
        <3>1. res'[Written] = Ask(page, a, Written, res[Written].seed)
            BY <1>1, <2>1, <2>3
        <3>2. Written' = Written /\ gone' = gone
            BY <1>1 DEF Written
        <3>3. CaughtUp(res'[Written])
            BY <3>1, AskCaughtUp
        <3>. QED
            BY <3>2, <3>3 DEF CaughtUp
    <2>. QED
        BY <2>2, <2>3
<1>4. res' = [r \in DOMAIN reads(page') |-> res'[r]]
    BY <1>1
<1>. QED
    BY <1>1, <1>2, <1>3, <1>4

\* A resource that settles, or that the service has read.
LEMMA SettleSound ==
    ASSUME PagesInv, NEW r \in DOMAIN reads(page), NEW to, NEW names, Settle(r, to, names),
           Sound(page, args, lookups \cup names, r, to), r = Written /\ ~missed => CaughtUp(to)
    PROVE  PagesInv'
<1>. USE DEF PagesInv, Settle
<1>1. DOMAIN res = DOMAIN reads(page) /\ UNCHANGED <<page, Written, gone, missed>>
    BY DEF Written
<1>2. res'[r] = to /\ \A s \in DOMAIN reads(page) \ {r} : res'[s] = res[s]
    BY <1>1
<1>3. ASSUME NEW s \in DOMAIN reads(page) PROVE Sound(page, args, lookups \cup names, s, res'[s])
    <2>1. Sound(page, args, lookups \cup names, s, res[s])
        BY NamesStay
    <2>. QED
        BY <1>2, <2>1
<1>4. WritesShow'
    BY <1>1, <1>2 DEF WritesShow, CaughtUp
<1>5. res' = [s \in DOMAIN reads(page') |-> res'[s]]
    BY <1>1
<1>. QED
    BY <1>1, <1>3, <1>4, <1>5

\* A reload leaves what loads its first value alone, and forgets what the
\* service read before it.
LEMMA ReloadSound ==
    ASSUME PagesInv, NEW r, Reload(r)
    PROVE  /\ res' = [s \in DOMAIN reads(page) |-> res'[s]]
           /\ \A s \in DOMAIN reads(page) : Sound(page, args, lookups, s, res'[s])
           /\ \A s \in DOMAIN reads(page) \ {r} : res'[s] = res[s]
           /\ r \in DOMAIN reads(page) =>
                 \/ res'[r].status = "reloading" /\ res'[r].got = NoValue
                 \/ res' = res /\ res[r].status \in {"idle", "loading"}
<1>. USE DEF PagesInv
<1>1. DOMAIN res = DOMAIN reads(page)
    OBVIOUS
<1>2. CASE r \in DOMAIN reads(page) /\ res[r].status \in {"resolved", "error", "reloading"}
    <2>1. res' = [res EXCEPT ![r].status = "reloading", ![r].got = NoValue]
        BY <1>2 DEF Reload
    <2>2. /\ IsResource(res'[r])
          /\ res'[r].status = "reloading" /\ res'[r].value = res[r].value /\ res'[r].got = NoValue
          /\ res'[r].seed = res[r].seed
        <3>1. IsResource(res[r])
            BY <1>2 DEF Sound
        <3>. QED
            BY <1>1, <1>2, <2>1, <3>1 DEF IsResource
    <2>3. Sound(page, args, lookups, r, res'[r])
        <3>1. Sound(page, args, lookups, r, res[r])
            BY <1>2
        <3>. QED
            BY <1>2, <2>2, <3>1 DEF Sound, NoValue
    <2>. QED
        BY <1>1, <2>1, <2>2, <2>3
<1>3. CASE r \in DOMAIN reads(page) /\ res[r].status \notin {"resolved", "error", "reloading"}
    <2>1. res' = res
        BY <1>3 DEF Reload
    <2>2. res[r].status \in {"idle", "loading"}
        BY <1>3 DEF Sound
    <2>. QED
        BY <2>1, <2>2
<1>4. CASE r \notin DOMAIN reads(page)
    <2>1. res' = res
        BY <1>1, <1>4 DEF Reload
    <2>. QED
        BY <1>4, <2>1
<1>. QED
    BY <1>2, <1>3, <1>4

------------------------------------------------------------------------------

LEMMA ArgsTyped == ASSUME NEW p, NEW a \in ArgsOf(p) PROVE IsArgs(a) /\ a.season = "now"
BY DEF ArgsOf, IsArgs, RequestKeys

LEMMA PagesInitially == PagesInit => PagesInv
<1> SUFFICES ASSUME PagesInit PROVE PagesInv
    OBVIOUS
<1>. USE DEF PagesInit
<1>1. PICK p \in DOMAIN Pages : \E a \in ArgsOf(p) :
          /\ page = p /\ args = a /\ side = IF Served(p) THEN "server" ELSE "browser"
          /\ res = [r \in DOMAIN reads(p) |-> Ask(p, a, r, NoValue)]
    OBVIOUS
<1>2. PICK a \in ArgsOf(p) :
          /\ page = p /\ args = a /\ side = IF Served(p) THEN "server" ELSE "browser"
          /\ res = [r \in DOMAIN reads(p) |-> Ask(p, a, r, NoValue)]
    BY <1>1
<1>3. IsArgs(args) /\ args.season = "now"
    BY <1>2, ArgsTyped
<1>4. \A r \in DOMAIN reads(page) : Sound(page, args, lookups, r, res[r])
    BY <1>2, AskSound, NothingSound
<1>5. WritesShow
    BY DEF WritesShow, CaughtUp
<1>. QED
    BY <1>2, <1>3, <1>4, <1>5 DEF PagesInv

LEMMA FollowLinkKeeps == ASSUME PagesInv, FollowLink PROVE PagesInv'
<1>1. PICK p \in DOMAIN Pages : \E a \in ArgsOf(p) :
          IF p # page
          THEN NewInstance(p, a, [r \in DOMAIN reads(p) |-> NoValue]) /\ UNCHANGED <<side, lookups>>
          ELSE /\ a # args
               /\ Change({k \in {"id", "term"} : a[k] # args[k]}, [args EXCEPT !.id = a.id, !.term = a.term])
    BY DEF FollowLink
<1>2. PICK a \in ArgsOf(p) :
          IF p # page
          THEN NewInstance(p, a, [r \in DOMAIN reads(p) |-> NoValue]) /\ UNCHANGED <<side, lookups>>
          ELSE Change({k \in {"id", "term"} : a[k] # args[k]}, [args EXCEPT !.id = a.id, !.term = a.term])
    BY <1>1
<1>3. IsArgs(a) /\ a.season = "now" /\ side = "browser"
    BY ArgsTyped DEF FollowLink, MoveOn
<1>4. CASE p # page
    <2>1. NewInstance(p, a, [r \in DOMAIN reads(p) |-> NoValue]) /\ side' = "browser"
        BY <1>2, <1>3, <1>4
    <2>2. \A r \in DOMAIN reads(p) : SeedSound(p, lookups', r, [s \in DOMAIN reads(p) |-> NoValue][r])
        BY NothingSound
    <2>. QED
        BY <1>3, <2>1, <2>2, NewInstanceSound
<1>5. CASE p = page
    <2> DEFINE keys == {k \in {"id", "term"} : a[k] # args[k]}
               b == [args EXCEPT !.id = a.id, !.term = a.term]
    <2>1. Change(keys, b)
        BY <1>2, <1>5
    <2>2. IsArgs(b) /\ b.season = args.season /\ \A k \in RequestKeys \ keys : b[k] = args[k]
        BY DEF PagesInv, IsArgs, RequestKeys
    <2>. HIDE DEF keys, b
    <2>. QED
        BY <1>3, <2>1, <2>2, ChangeSound DEF PagesInv
<1>. QED
    BY <1>4, <1>5

LEMMA PagesStep == PagesInv /\ [PagesNext]_pagesVars => PagesInv'
<1> SUFFICES ASSUME PagesInv, [PagesNext]_pagesVars PROVE PagesInv'
    OBVIOUS
<1>1. CASE Hydrate
    <2>1. /\ side = "server" /\ side' = "browser" /\ lookups' = lookups
          /\ NewInstance(page, args, [r \in DOMAIN res |-> res[r].value])
        BY <1>1 DEF Hydrate
    <2>2. ASSUME NEW r \in DOMAIN reads(page)
          PROVE  SeedSound(page, lookups', r, [s \in DOMAIN res |-> res[s].value][r])
        <3>1. Sound(page, args, lookups, r, res[r]) /\ r \in DOMAIN res /\ args.season = "now"
            BY <2>1 DEF PagesInv
        <3>2. SeedSound(page, lookups, r, res[r].value)
            BY <3>1 DEF Sound, SeedSound, Unasked
        <3>. QED
            BY <2>1, <3>1, <3>2
    <2>. QED
        BY <2>1, <2>2, NewInstanceSound DEF PagesInv
<1>2. CASE FollowLink
    BY <1>2, FollowLinkKeeps
<1>3. CASE SetTerm
    <2>1. PICK t \in Terms \cup {NoTerm} : Change({"term", "offset"}, [args EXCEPT !.term = t, !.offset = 0])
        BY <1>3 DEF SetTerm
    <2> DEFINE b == [args EXCEPT !.term = t, !.offset = 0]
    <2>2. IsArgs(b) /\ b.season = args.season /\ \A k \in RequestKeys \ {"term", "offset"} : b[k] = args[k]
        BY DEF PagesInv, IsArgs, RequestKeys
    <2>. HIDE DEF b
    <2>. QED
        BY <2>1, <2>2, ChangeSound DEF PagesInv, b
<1>4. CASE GoTo
    <2>1. PICK next : Change({"offset"}, [args EXCEPT !.offset = next])
        BY <1>4 DEF GoTo
    <2> DEFINE b == [args EXCEPT !.offset = next]
    <2>2. IsArgs(b) /\ b.season = args.season /\ \A k \in RequestKeys \ {"offset"} : b[k] = args[k]
        BY DEF PagesInv, IsArgs, RequestKeys
    <2>. HIDE DEF b
    <2>. QED
        BY <2>1, <2>2, ChangeSound DEF PagesInv, b
<1>5. CASE PickSeason
    <2>1. PICK s \in {"now", "picked"} \ {args.season} : Change({"season"}, [args EXCEPT !.season = s])
        BY <1>5 DEF PickSeason
    <2>2. side = "browser" /\ "seasons" \in lookups
        BY <1>5 DEF PickSeason, MoveOn, OfferedTo
    <2> DEFINE b == [args EXCEPT !.season = s]
    <2>3. IsArgs(b) /\ \A k \in RequestKeys \ {"season"} : b[k] = args[k]
        BY DEF PagesInv, IsArgs, RequestKeys
    <2>4. Change({"season"}, b)
        BY <2>1
    <2>. HIDE DEF b
    <2>. QED
        BY <2>2, <2>3, <2>4, ChangeSound
<1>6. CASE SeasonsArrive
    <2>1. UNCHANGED <<side, page, args, res, gone, missed>> /\ lookups' = lookups \cup {"seasons"}
        BY <1>6 DEF SeasonsArrive
    <2>2. \A r \in DOMAIN reads(page) : Sound(page, args, lookups', r, res[r])
        BY <2>1, NamesStay DEF PagesInv
    <2>3. WritesShow'
        BY <2>1 DEF PagesInv, WritesShow, CaughtUp, Written
    <2>. QED
        BY <2>1, <2>2, <2>3 DEF PagesInv
<1>7. CASE Retry
    <2>1. Reload("games") /\ UNCHANGED <<side, page, args, lookups, gone, missed>>
        BY <1>7 DEF Retry
    <2>2. WritesShow'
        <3>1. SUFFICES ASSUME Written \in DOMAIN reads(page), ~missed PROVE CaughtUp(res'[Written])
            BY <2>1 DEF WritesShow, CaughtUp, Written
        <3>2. CASE res'[Written] = res[Written]
            BY <3>1, <3>2 DEF PagesInv, WritesShow
        <3>3. CASE res'[Written].status = "reloading" /\ res'[Written].got = NoValue
            BY <3>3 DEF CaughtUp, NoValue
        <3>. QED
            BY <2>1, <3>1, <3>2, <3>3, ReloadSound
    <2>. QED
        BY <2>1, <2>2, ReloadSound DEF PagesInv
<1>8. ASSUME NEW r \in DOMAIN res, ServiceReads(r) PROVE PagesInv'
    <2>1. r \in DOMAIN reads(page) /\ Sound(page, args, lookups, r, res[r])
        BY DEF PagesInv
    <2> DEFINE to == [res[r] EXCEPT !.got = Known(r, Rows \ gone)]
    <2>2. Settle(r, to, {}) /\ Loading(r)
        BY <1>8 DEF ServiceReads, Answers
    <2>3. /\ IsResource(to) /\ to.status = res[r].status /\ to.value = res[r].value
          /\ to.got = Known(r, Rows \ gone) /\ to.seed = res[r].seed
        <3>1. IsResource(res[r])
            BY <2>1 DEF Sound
        <3>. QED
            BY <3>1 DEF IsResource
    <2>4. Sound(page, args, lookups, r, to)
        BY <2>1, <2>2, <2>3 DEF Sound, Known, Loading
    <2>5. CaughtUp(to)
        BY <2>2, <2>3 DEF CaughtUp, Known, Loading
    <2>. HIDE DEF to
    <2>6. Sound(page, args, lookups \cup {}, r, to)
        BY <2>4, NamesStay
    <2>. QED
        BY <2>1, <2>2, <2>5, <2>6, SettleSound
<1>9. ASSUME NEW r \in DOMAIN res, AnswerArrives(r) PROVE PagesInv'
    <2>1. r \in DOMAIN reads(page) /\ Sound(page, args, lookups, r, res[r])
        BY DEF PagesInv
    <2>2. PICK v \in (IF r = Written THEN {res[r].got} ELSE {Known(r, given) : given \in Answers(r)}) :
              Settle(r, [res[r] EXCEPT !.status = "resolved", !.value = v, !.got = NoValue], reads(page)[r].waits)
        BY <1>9 DEF AnswerArrives
    <2> DEFINE to == [res[r] EXCEPT !.status = "resolved", !.value = v, !.got = NoValue]
    <2>3. /\ IsResource(to) /\ to.status = "resolved" /\ to.value = v
          /\ to.got = NoValue /\ to.seed = res[r].seed
        <3>1. IsResource(res[r])
            BY <2>1 DEF Sound
        <3>. QED
            BY <3>1 DEF IsResource
    <2>4. v.known /\ v.of = Query(page, args, r) /\ Loading(r)
        <3>1. CASE r = Written
            BY <1>9, <2>1, <2>2, <3>1 DEF AnswerArrives, Sound
        <3>2. CASE r # Written
            BY <1>9, <2>2, <3>2 DEF AnswerArrives, Known
        <3>. QED
            BY <3>1, <3>2
    <2>5. Sound(page, args, lookups \cup reads(page)[r].waits, r, to)
        <3>1. Sound(page, args, lookups \cup reads(page)[r].waits, r, res[r])
            BY <2>1, NamesStay
        <3>. QED
            BY <2>3, <2>4, <3>1 DEF Sound, Named, Loading, NoValue
    <2>6. r = Written /\ ~missed => CaughtUp(to)
        <3>1. SUFFICES ASSUME r = Written, ~missed PROVE CaughtUp(to)
            OBVIOUS
        <3>2. CaughtUp(res[r]) /\ v = res[r].got
            BY <2>1, <2>2, <3>1 DEF PagesInv, WritesShow
        <3>. QED
            BY <2>3, <2>4, <3>2 DEF CaughtUp, Loading
    <2>. HIDE DEF to
    <2>. QED
        BY <2>1, <2>2, <2>5, <2>6, SettleSound DEF to
<1>10. ASSUME NEW r \in DOMAIN res, AnswerFails(r) PROVE PagesInv'
    <2>1. r \in DOMAIN reads(page) /\ Sound(page, args, lookups, r, res[r]) /\ Loading(r)
        BY <1>10 DEF PagesInv, AnswerFails
    <2>2. PICK names : Settle(r, [res[r] EXCEPT !.status = "error", !.value = NoValue, !.got = NoValue], names)
        BY <1>10 DEF AnswerFails
    <2> DEFINE to == [res[r] EXCEPT !.status = "error", !.value = NoValue, !.got = NoValue]
    <2>3. /\ IsResource(to) /\ to.status = "error" /\ to.value = NoValue
          /\ to.got = NoValue /\ to.seed = res[r].seed
        <3>1. IsResource(res[r])
            BY <2>1 DEF Sound
        <3>. QED
            BY <3>1 DEF IsResource
    <2>4. Sound(page, args, lookups \cup names, r, to)
        <3>1. Sound(page, args, lookups \cup names, r, res[r])
            BY <2>1, NamesStay
        <3>. QED
            BY <2>1, <2>3, <3>1 DEF Sound, Named, Loading, NoValue
    <2>5. CaughtUp(to)
        BY <2>3 DEF CaughtUp
    <2>. HIDE DEF to
    <2>. QED
        BY <2>1, <2>2, <2>4, <2>5, SettleSound DEF to
<1>11. ASSUME NEW row \in Rows, StartWrite(row) PROVE PagesInv'
    <2>1. UNCHANGED <<side, page, args, res, lookups, gone, missed>>
        BY <1>11 DEF StartWrite
    <2>2. WritesShow'
        BY <2>1 DEF PagesInv, WritesShow, CaughtUp, Written
    <2>. QED
        BY <2>1, <2>2 DEF PagesInv
<1>12. ASSUME NEW row \in Rows, NEW outcome \in {"done", "refused", "lost"}, WriteEnds(row, outcome)
       PROVE  PagesInv'
    <2>1. UNCHANGED <<side, page, args, lookups, Written>>
        BY <1>12 DEF WriteEnds, Written
    <2>2. CASE outcome = "done"
        <3>1. Reload(Written) /\ missed' = (res' = res /\ (missed \/ res[Written].status = "loading"))
            BY <1>12, <2>2 DEF WriteEnds
        <3>2. WritesShow'
            <4>1. SUFFICES ASSUME Written \in DOMAIN reads(page), ~missed' PROVE CaughtUp(res[Written])'
                BY <2>1 DEF WritesShow
            <4>2. CASE res'[Written].status = "reloading" /\ res'[Written].got = NoValue
                BY <2>1, <4>2 DEF CaughtUp, NoValue
            <4>3. CASE res' = res /\ res[Written].status \in {"idle", "loading"}
                <5>1. res[Written].status = "idle"
                    BY <3>1, <4>1, <4>3
                <5>. QED
                    BY <2>1, <4>3, <5>1 DEF CaughtUp
            <4>. QED
                BY <3>1, <4>1, <4>2, <4>3, ReloadSound
        <3>. QED
            BY <2>1, <3>1, <3>2, ReloadSound DEF PagesInv
    <2>3. CASE outcome = "refused"
        <3>1. UNCHANGED <<res, gone, missed>>
            BY <1>12, <2>3 DEF WriteEnds
        <3>2. WritesShow'
            <4>1. WritesShow
                BY DEF PagesInv
            <4>2. SUFFICES ASSUME Written \in DOMAIN reads(page), ~missed' PROVE CaughtUp(res[Written])'
                BY <2>1 DEF WritesShow
            <4>3. CaughtUp(res[Written])
                BY <3>1, <4>1, <4>2 DEF WritesShow
            <4>. QED
                BY <2>1, <3>1, <4>3 DEF CaughtUp
        <3>. QED
            BY <2>1, <3>1, <3>2 DEF PagesInv
    <2>4. CASE outcome = "lost"
        <3>1. UNCHANGED res /\ missed' = TRUE
            BY <1>12, <2>4 DEF WriteEnds
        <3>2. WritesShow'
            BY <3>1 DEF WritesShow
        <3>. QED
            BY <2>1, <3>1, <3>2 DEF PagesInv
    <2>. QED
        BY <2>2, <2>3, <2>4
<1>13. CASE UNCHANGED pagesVars
    <2>1. UNCHANGED <<side, page, args, res, lookups, gone, missed>>
        BY <1>13 DEF pagesVars
    <2>2. WritesShow'
        BY <2>1 DEF PagesInv, WritesShow, CaughtUp, Written
    <2>. QED
        BY <2>1, <2>2 DEF PagesInv
<1>. QED
    BY <1>1, <1>2, <1>3, <1>4, <1>5, <1>6, <1>7, <1>8, <1>9, <1>10, <1>11, <1>12, <1>13 DEF PagesNext

------------------------------------------------------------------------------

LEMMA DrawnRowsAreSound == PagesInv => RowsAreWholeAndOwn
<1> SUFFICES ASSUME PagesInv, NEW r \in DOMAIN Parts, DrawnRows(r) # {}
             PROVE  /\ \/ res[r].value.of = Query(page, args, r)
                       \/ res[r].value = res[r].seed /\ res[r].status = "loading"
                    /\ Parts[r].names \subseteq lookups
    BY DEF RowsAreWholeAndOwn
<1>1. TableSound(page)
    BY EveryTableSound DEF PagesInv
<1>2. r \in DOMAIN reads(page) /\ Parts[r].names \subseteq Awaited(page, r)
    BY <1>1 DEF TableSound, Parts
<1>3. Picture[r] = "rows" /\ res[r].value.rows # {}
    BY DEF DrawnRows
<1>4. Stands /\ (Parts[r].season # "any" => Parts[r].season = args.season)
    BY <1>3 DEF Picture
<1>5. Sound(page, args, lookups, r, res[r])
    BY <1>2 DEF PagesInv
<1>6. reads(page)[r].waits \subseteq lookups
    BY <1>3, <1>5 DEF Sound, Named
<1>7. Pages[page].view.shell # "none" => reads(page)[Pages[page].view.shell].waits \subseteq lookups
    BY <1>1, <1>4 DEF TableSound, PagesInv, Stands, Sound, Named
<1>8. Parts[r].season = "picked" => "seasons" \in lookups
    BY <1>4 DEF PagesInv
<1>9. Awaited(page, r) \subseteq lookups
    BY <1>6, <1>7, <1>8 DEF Awaited, Parts
<1>. QED
    BY <1>2, <1>3, <1>5, <1>9 DEF Sound

\* Rows on the screen answer what the address and the controls ask for now, or
\* are what the server drew until they do, and none is drawn before the names
\* it is written with are loaded (record-resource.ts and the templates of the
\* pages).
THEOREM RowsCorrect == PagesSpec => []RowsAreWholeAndOwn
BY PagesInitially, PagesStep, DrawnRowsAreSound, PTL DEF PagesSpec

\* A list that has settled shows no row as it was before it was written
\* (club-page.ts, user-list.ts and account-page.ts).
THEOREM ListsCorrect == PagesSpec => []ListCatchesUp
<1>1. PagesInv => ListCatchesUp
    BY DEF PagesInv, WritesShow, CaughtUp, ListCatchesUp
<1>. QED
    BY <1>1, PagesInitially, PagesStep, PTL DEF PagesSpec

\* What a part says of a value is what it said before, once its request has
\* ended without an error and asks again.
LEMMA SaysTheSame ==
    ASSUME PagesInv, NEW r \in DOMAIN Parts, side = "server", ~Loading(r), res[r].status # "error",
           page' = page, res'[r] = Ask(page, args, r, res[r].value)
    PROVE  Says(Parts[r], r)' = Says(Parts[r], r)
<1>1. r \in DOMAIN reads(page) /\ Parts[r].first # "loading"
    BY EveryTableSound DEF PagesInv, TableSound, Parts
<1>2. Sound(page, args, lookups, r, res[r])
    BY <1>1 DEF PagesInv
<1>3. Parts' = Parts /\ res'[r].value = res[r].value /\ (Unasked(page, args, r) => res'[r].status = "idle")
    BY DEF Parts, Ask
<1>4. CASE res[r].value.known
    BY <1>1, <1>3, <1>4 DEF Says
<1>5. CASE ~res[r].value.known
    <2>1. res[r].status = "idle" /\ res'[r].status = "idle"
        BY <1>2, <1>3, <1>5 DEF Sound, Loading
    <2>. QED
        BY <1>1, <1>3, <1>5, <2>1 DEF Says, Loading
<1>. QED
    BY <1>4, <1>5

\* The browser's first picture of a page is the one the server drew
\* (ssr-resource.ts, the seed of a resource).
THEOREM HydrationCorrect == PagesSpec => HydratesAsDrawn
<1>1. ASSUME PagesInv, [PagesNext]_pagesVars, side = "server", side' = "browser",
             \A r \in DOMAIN res : res[r].status # "error"
      PROVE  Picture' = Picture
    <2>1. Hydrate
        BY <1>1 DEF PagesNext, pagesVars, FollowLink, SetTerm, GoTo, PickSeason, SeasonsArrive, Retry, MoveOn,
                    ServiceReads, AnswerArrives, AnswerFails, Settle, StartWrite, WriteEnds
    <2>2. DOMAIN res = DOMAIN reads(page) /\ \A r \in DOMAIN reads(page) : ~Loading(r)
        BY <1>1, <2>1 DEF PagesInv, Hydrate
    <2>3. /\ page' = page /\ args' = args /\ Parts' = Parts
          /\ \A r \in DOMAIN reads(page) : res'[r] = Ask(page, args, r, res[r].value)
        BY <2>1, <2>2 DEF Hydrate, NewInstance, Parts
    <2>4. TableSound(page)
        BY <1>1, EveryTableSound DEF PagesInv
    <2>5. Stands' = Stands
        <3>1. ASSUME NEW r \in DOMAIN reads(page) PROVE res'[r].value = res[r].value
            <4>1. res'[r] = Ask(page, args, r, res[r].value)
                BY <2>3
            <4>. QED
                BY <4>1 DEF Ask
        <3>2. Stands \in BOOLEAN /\ Stands' \in BOOLEAN
            BY DEF Stands
        <3>. QED
            BY <2>3, <2>4, <3>1, <3>2 DEF Stands, TableSound
    <2>6. ASSUME NEW r \in DOMAIN Parts PROVE Says(Parts[r], r)' = Says(Parts[r], r)
        <3>1. r \in DOMAIN reads(page)
            BY <2>4 DEF TableSound, Parts
        <3>. QED
            BY <1>1, <2>2, <2>3, <3>1, SaysTheSame
    <2>. QED
        BY <2>3, <2>5, <2>6 DEF Picture
<1>2. PagesInv /\ [PagesNext]_pagesVars =>
        [side = "server" /\ side' = "browser" =>
            \/ \E r \in DOMAIN res : res[r].status = "error"
            \/ Picture' = Picture]_pagesVars
    BY <1>1
<1>. QED
    BY <1>2, PagesInitially, PagesStep, PTL DEF PagesSpec, HydratesAsDrawn

------------------------------------------------------------------------------
(* What the parts of a page are.                                           *)

\* The lists of names that there are.
NameLists == {"teams", "leagues", "seasons"}

WaitsForNames(p) == \A r \in DOMAIN reads(p) : reads(p)[r].waits \subseteq NameLists

LEMMA EveryPageWaits == \A p \in DOMAIN Pages : WaitsForNames(p)
<1>. USE DEF WaitsForNames, NameLists, reads, Table, Reader, Reads
<1>1. WaitsForNames("TransferFeed") /\ WaitsForNames("ClubList") /\ WaitsForNames("CompetitionList")
    BY DEF Pages, TransferFeed, ClubList, CompetitionList
<1>2. WaitsForNames("CompetitionPage") /\ WaitsForNames("SeasonList") /\ WaitsForNames("SearchPage")
    BY DEF Pages, CompetitionPage, SeasonList, SearchPage
<1>3. WaitsForNames("CoachPage") /\ WaitsForNames("GamesHub") /\ WaitsForNames("ArticlePage")
    BY DEF Pages, CoachPage, GamesHub, ArticlePage
<1>4. WaitsForNames("ClubPage") /\ WaitsForNames("UserList") /\ WaitsForNames("AccountPage")
    <2>1. \A table, writes, single : Writer(table, writes, single).reads = table
        BY DEF Writer
    <2>2. /\ ClubPage.reads = [club |-> Reads({"id"}, {"leagues"}), squad |-> Reads({"id"}, {}), staff |-> Reads({"id"}, {}),
                               entries |-> Reads({"id"}, {"seasons", "leagues"})]
          /\ UserList.reads = [users |-> Reads({"term", "offset"}, {})]
          /\ AccountPage.reads = [identities |-> Reads({}, {})]
        BY <2>1 DEF ClubPage, UserList, AccountPage
    <2>3. /\ Pages["ClubPage"].class = ClubPage /\ Pages["UserList"].class = UserList
          /\ Pages["AccountPage"].class = AccountPage
        BY DEF Pages
    <2>4. /\ reads("ClubPage") = [club |-> Reads({"id"}, {"leagues"}), squad |-> Reads({"id"}, {}), staff |-> Reads({"id"}, {}),
                                  entries |-> Reads({"id"}, {"seasons", "leagues"})]
          /\ reads("UserList") = [users |-> Reads({"term", "offset"}, {})]
          /\ reads("AccountPage") = [identities |-> Reads({}, {})]
        BY <2>2, <2>3
    <2>. HIDE DEF reads
    <2>. QED
        BY <2>4
<1>5. WaitsForNames("PlayerPage")
    BY DEF Pages, PlayerReads, PlayerPage
<1>6. DOMAIN Pages = {"TransferFeed", "ClubList", "CompetitionList", "CompetitionPage", "SeasonList", "SearchPage",
                      "CoachPage", "ClubPage", "PlayerPage", "GamesHub", "ArticlePage", "UserList", "AccountPage"}
    BY DEF Pages
<1>. QED
    BY <1>1, <1>2, <1>3, <1>4, <1>5, <1>6

\* No more writes of a row are under way than moves were made.
PagesTyped ==
    /\ side \in {"server", "browser"} /\ lookups \subseteq NameLists
    /\ args.offset \in 0 .. LastOffset
    /\ moves \in 0 .. MaxMoves /\ sent \in [Rows -> Nat] /\ \A row \in Rows : sent[row] <= moves

LEMMA OpenedOffset == ASSUME NEW p, NEW a \in ArgsOf(p) PROVE a.offset = 0
BY DEF ArgsOf

LEMMA PagesTypedInitially == PagesInit => PagesTyped
<1>. SUFFICES ASSUME PagesInit PROVE PagesTyped
    OBVIOUS
<1>1. args.offset = 0
    BY OpenedOffset DEF PagesInit
<1>2. sent \in [Rows -> Nat] /\ \A row \in Rows : sent[row] = 0
    BY DEF PagesInit
<1>. QED
    BY <1>1, <1>2, PagesAssumption DEF PagesInit, PagesTyped

LEMMA NewInstanceTyped ==
    ASSUME PagesTyped, NEW p, NEW a, NEW seeds, NewInstance(p, a, seeds), a.offset \in 0 .. LastOffset,
           side' \in {"server", "browser"}, lookups' = lookups, moves' \in 0 .. MaxMoves
    PROVE  PagesTyped'
<1>1. sent' \in [Rows -> Nat] /\ \A row \in Rows : sent'[row] = 0
    BY DEF NewInstance
<1>2. \A row \in Rows : sent'[row] <= moves'
    BY <1>1
<1>. QED
    BY <1>1, <1>2 DEF NewInstance, PagesTyped

LEMMA MovedTyped ==
    ASSUME PagesTyped, MoveOn
    PROVE  /\ moves' \in 0 .. MaxMoves /\ side \in {"server", "browser"}
           /\ \A row \in Rows : sent[row] <= moves' /\ sent[row] + 1 <= moves'
BY PagesAssumption DEF PagesTyped, MoveOn

LEMMA ChangeTyped ==
    ASSUME PagesTyped, MoveOn, NEW keys, NEW a, Change(keys, a), a.offset \in 0 .. LastOffset
    PROVE  PagesTyped'
BY MovedTyped DEF Change, PagesTyped

LEMMA SettleTyped ==
    ASSUME PagesTyped, NEW r, NEW to, NEW names, names \subseteq NameLists, Settle(r, to, names)
    PROVE  PagesTyped'
BY DEF Settle, PagesTyped

LEMMA PagesTypedStep == ASSUME PagesInv, PagesTyped, [PagesNext]_pagesVars PROVE PagesTyped'
<1>1. DOMAIN args = RequestKeys /\ page \in DOMAIN Pages /\ DOMAIN res = DOMAIN reads(page)
      /\ args.offset \in 0 .. LastOffset
    BY DEF PagesInv, IsArgs, PagesTyped
<1>2. CASE Hydrate
    BY <1>1, <1>2, NewInstanceTyped DEF Hydrate, PagesTyped
<1>3. CASE FollowLink
    <2>1. PICK p \in DOMAIN Pages : \E a \in ArgsOf(p) :
              \/ NewInstance(p, a, [r \in DOMAIN reads(p) |-> NoValue]) /\ UNCHANGED <<side, lookups>>
              \/ Change({k \in {"id", "term"} : a[k] # args[k]}, [args EXCEPT !.id = a.id, !.term = a.term])
        BY <1>3 DEF FollowLink
    <2>. PICK a \in ArgsOf(p) :
              \/ NewInstance(p, a, [r \in DOMAIN reads(p) |-> NoValue]) /\ UNCHANGED <<side, lookups>>
              \/ Change({k \in {"id", "term"} : a[k] # args[k]}, [args EXCEPT !.id = a.id, !.term = a.term])
        BY <2>1
    <2>2. a.offset \in 0 .. LastOffset
        BY OpenedOffset, PagesAssumption
    <2>3. [args EXCEPT !.id = a.id, !.term = a.term].offset = args.offset
        BY <1>1 DEF RequestKeys
    <2>4. MoveOn
        BY <1>3 DEF FollowLink
    <2>. QED
        BY <1>1, <2>1, <2>2, <2>3, <2>4, NewInstanceTyped, ChangeTyped, MovedTyped
<1>4. CASE SetTerm
    <2>1. PICK t \in Terms \cup {NoTerm} : Change({"term", "offset"}, [args EXCEPT !.term = t, !.offset = 0])
        BY <1>4 DEF SetTerm
    <2>2. [args EXCEPT !.term = t, !.offset = 0].offset = 0 /\ 0 \in 0 .. LastOffset
        BY <1>1, PagesAssumption DEF RequestKeys
    <2>. QED
        BY <1>4, <2>1, <2>2, ChangeTyped DEF SetTerm
<1>5. CASE GoTo
    <2>1. PICK next \in 0 .. LastOffset : Change({"offset"}, [args EXCEPT !.offset = next])
        BY <1>5 DEF GoTo
    <2>2. [args EXCEPT !.offset = next].offset = next
        BY <1>1 DEF RequestKeys
    <2>. QED
        BY <1>5, <2>1, <2>2, ChangeTyped DEF GoTo
<1>6. CASE PickSeason
    <2>1. PICK s \in {"now", "picked"} \ {args.season} : Change({"season"}, [args EXCEPT !.season = s])
        BY <1>6 DEF PickSeason
    <2>2. [args EXCEPT !.season = s].offset = args.offset
        BY <1>1 DEF RequestKeys
    <2>. QED
        BY <1>1, <1>6, <2>1, <2>2, ChangeTyped DEF PickSeason
<1>7. CASE SeasonsArrive
    BY <1>7 DEF SeasonsArrive, PagesTyped, NameLists
<1>8. CASE Retry
    BY <1>8, MovedTyped DEF Retry, PagesTyped
<1>9. ASSUME NEW r \in DOMAIN res, ServiceReads(r) \/ AnswerArrives(r) \/ AnswerFails(r) PROVE PagesTyped'
    <2>1. reads(page)[r].waits \subseteq NameLists
        BY <1>1, EveryPageWaits DEF WaitsForNames
    <2>2. PICK to, names : names \in {{}, reads(page)[r].waits} /\ Settle(r, to, names)
        BY <1>9 DEF ServiceReads, AnswerArrives, AnswerFails
    <2>. QED
        BY <2>1, <2>2, SettleTyped
<1>10. ASSUME NEW row \in Rows, StartWrite(row) PROVE PagesTyped'
    <2>1. UNCHANGED <<side, args, lookups>> /\ sent' = [sent EXCEPT ![row] = @ + 1] /\ MoveOn
        BY <1>10 DEF StartWrite
    <2>2. sent \in [Rows -> Nat]
        BY DEF PagesTyped
    <2>3. sent' \in [Rows -> Nat] /\ \A x \in Rows : sent'[x] = sent[x] \/ sent'[x] = sent[x] + 1
        BY <2>1, <2>2
    <2>4. \A x \in Rows : sent'[x] <= moves'
        BY <2>1, <2>3, MovedTyped
    <2>. QED
        BY <2>1, <2>3, <2>4, MovedTyped DEF PagesTyped
<1>11. ASSUME NEW row \in Rows, NEW outcome \in {"done", "refused", "lost"}, WriteEnds(row, outcome) PROVE PagesTyped'
    <2>1. UNCHANGED <<side, args, lookups, moves>> /\ sent' = [sent EXCEPT ![row] = @ - 1] /\ sent[row] > 0
        BY <1>11 DEF WriteEnds
    <2>2. sent \in [Rows -> Nat] /\ moves \in Nat /\ \A x \in Rows : sent[x] <= moves
        BY DEF PagesTyped
    <2>3. sent' \in [Rows -> Nat] /\ \A x \in Rows : sent'[x] <= sent[x]
        BY <2>1, <2>2
    <2>4. \A x \in Rows : sent'[x] <= moves
        BY <2>2, <2>3
    <2>. QED
        BY <2>1, <2>3, <2>4 DEF PagesTyped
<1>12. CASE UNCHANGED pagesVars
    BY <1>12 DEF pagesVars, PagesTyped
<1>. QED
    BY <1>2, <1>3, <1>4, <1>5, <1>6, <1>7, <1>8, <1>9, <1>10, <1>11, <1>12 DEF PagesNext

\* The names that are loaded are of the lists there are, the offset stays on
\* the list, and the writes under way are counted (ssr-resource.ts, and the
\* pages' own requests).
THEOREM PagesTypeCorrect == PagesSpec => []PagesTypeOK
<1>1. ASSUME PagesInv, PagesTyped PROVE PagesTypeOK
    <2>1. DOMAIN res = DOMAIN reads(page) /\ page \in DOMAIN Pages
          /\ \A r \in DOMAIN res : res[r].status \in {"idle", "loading", "reloading", "resolved", "error"}
        BY <1>1 DEF PagesInv, Sound
    <2>2. \A row \in Rows : sent[row] \in 0 .. MaxMoves
        BY <1>1, PagesAssumption DEF PagesTyped
    <2>3. sent \in [Rows -> 0 .. MaxMoves]
        BY <1>1, <2>2 DEF PagesTyped
    <2>. QED
        BY <1>1, <2>1, <2>3 DEF PagesTyped, PagesTypeOK, NameLists
<1>. QED
    BY <1>1, PagesInitially, PagesStep, PagesTypedInitially, PagesTypedStep, PTL DEF PagesSpec

------------------------------------------------------------------------------
(* The forms.                                                              *)

\* What the tables say of every form.
FormTable(k) ==
    LET class == Forms[k].class
        drawn == Forms[k].view
    IN  /\ "type" \notin class.asked \cup class.checked \cup class.refused
        /\ drawn.always \cap {"fee", "tier"} # {} => "type" \in drawn.always
        /\ drawn.new \cap {"fee", "tier"} = {}

LEMMA EveryFormTable == \A k \in DOMAIN Forms : FormTable(k)
<1>. USE DEF FormTable, FormOf, Form, View
<1>1. FormTable("ClubForm")
    BY DEF Forms, ClubForm, ClubFormView
<1>2. FormTable("CoachForm")
    BY DEF Forms, CoachForm, CoachFormView
<1>3. FormTable("SpellForm")
    BY DEF Forms, SpellForm, SpellFormView
<1>4. FormTable("SeasonEntryForm")
    BY DEF Forms, SeasonEntryForm, SeasonEntryView
<1>5. FormTable("ValueForm")
    BY DEF Forms, ValueForm, ValueFormView
<1>6. FormTable("CompetitionForm")
    BY DEF Forms, CompetitionForm, CompetitionFormView
<1>7. FormTable("PlayerForm")
    BY DEF Forms, PlayerForm, PlayerFormView, PlayerDetails
<1>8. FormTable("TransferForm")
    BY DEF Forms, TransferForm, TransferFormView
<1>9. FormTable("TransferEdit")
    BY DEF Forms, TransferEdit, TransferEditView
<1>10. FormTable("SeasonForm")
    BY DEF Forms, SeasonForm, SeasonFormView
<1>11. DOMAIN Forms = {"ClubForm", "CoachForm", "SpellForm", "SeasonEntryForm", "ValueForm", "CompetitionForm",
                       "PlayerForm", "TransferForm", "TransferEdit", "SeasonForm"}
    BY DEF Forms
<1>. QED
    BY <1>1, <1>2, <1>3, <1>4, <1>5, <1>6, <1>7, <1>8, <1>9, <1>10, <1>11

------------------------------------------------------------------------------

\* What a filled field holds that is neither the record's nor the member's is
\* what was stored before someone else stored theirs, or is forbidden by the
\* kind of the record.
FieldsKnown ==
    \A f \in Inputs :
        \/ fields[f] = record[f] \/ f \in typedInto
        \/ f \in others /\ fields[f] = "stored"
        \/ Locked(f, fields)

\* The same of a body on its way, and what has become of the fields since.
PostKnown(posted) ==
    /\ DOMAIN posted = {"body", "typedInto", "at"} /\ DOMAIN posted.body = Inputs
    /\ posted.at = "out" =>
           \A f \in Inputs :
               \/ posted.body[f] = record[f] \/ f \in posted.typedInto
               \/ f \in others /\ posted.body[f] = "stored"
               \/ Locked(f, posted.body)
    /\ \A f \in Inputs : posted.body[f] = fields[f] \/ f \in typedInto \/ Locked(f, fields)

\* The inductive invariant, of a form that edits a record: one save is under way
\* at a time, and none before the record has filled the form.
EditInv ==
    /\ form # "TransferForm" /\ fetch # "none"
    /\ DOMAIN record = Columns /\ DOMAIN fields = Inputs
    /\ busy \in BOOLEAN
    /\ posts = <<>> \/ (busy /\ \E posted : posts = <<posted>> /\ PostKnown(posted))
    /\ fetch = "ready" => FieldsKnown
    /\ fetch # "ready" => posts = <<>> /\ typedInto = {}

FormsInv == form \in DOMAIN Forms /\ isEdit \in BOOLEAN /\ (isEdit => EditInv)

LEMMA TypeIsDrawn ==
    ASSUME form \in DOMAIN Forms, isEdit, NEW f \in Inputs \cap {"fee", "tier"}
    PROVE  "type" \in Inputs
BY EveryFormTable DEF FormTable, Inputs

\* What is locked in the form is locked in the body.
LEMMA BodyFields ==
    ASSUME form \in DOMAIN Forms, isEdit, DOMAIN fields = Inputs, NEW f \in Inputs
    PROVE  /\ Locked(f, fields) => Locked(f, Body)
           /\ ~Locked(f, fields) => Body[f] = fields[f]
<1>1. ~Locked(f, fields) => Body[f] = fields[f]
    BY DEF Body
<1>2. ASSUME Locked(f, fields) PROVE Locked(f, Body)
    <2>1. f \in {"fee", "tier"} /\ fields["type"] = "typed"
        BY <1>2 DEF Locked
    <2>2. "type" \in Inputs /\ ~Locked("type", fields)
        BY <2>1, TypeIsDrawn DEF Locked
    <2>3. Body["type"] = "typed"
        BY <2>1, <2>2 DEF Body
    <2>. QED
        BY <2>1, <2>3 DEF Locked
<1>. QED
    BY <1>1, <1>2

LEMMA FormsInitially == ASSUME FormsInit PROVE FormsInv
<1>1. form \in DOMAIN Forms /\ isEdit \in BOOLEAN
    BY DEF FormsInit
<1>2. ASSUME isEdit PROVE EditInv
    <2>1. form # "TransferForm"
        <3>1. Forms["TransferForm"].class.loads = "subject"
            BY DEF Forms, FormOf, TransferForm, Form
        <3>. QED
            BY <1>2, <3>1 DEF FormsInit, Class
    <2>. QED
        BY <1>2, <2>1 DEF FormsInit, EditInv
<1>. QED
    BY <1>1, <1>2 DEF FormsInv

LEMMA ArrivesKeeps == ASSUME FormsInv, isEdit, RecordArrives PROVE EditInv'
<1>1. /\ UNCHANGED <<form, isEdit, posts, record, typedInto, busy>> /\ fetch' = "ready" /\ fetch = "loading"
      /\ fields' = [f \in Inputs |-> record[f]]
    BY DEF RecordArrives, Fill
<1>. QED
    BY <1>1 DEF FormsInv, EditInv, FieldsKnown, Inputs, Columns

LEMMA TypeKeeps ==
    ASSUME FormsInv, isEdit, NEW f, NEW content \in {"blank", "typed", "ending", "wrong"}, Type(f, content)
    PROVE  EditInv'
<1>1. /\ UNCHANGED <<form, isEdit, fetch, posts, record, others, busy>> /\ typedInto' = typedInto \cup {f}
      /\ f \in Inputs /\ fetch = "ready" /\ content # fields[f]
    BY DEF Type, Shown, FormsInv, EditInv
<1>2. fields' = [g \in Inputs |-> IF g = f THEN content ELSE fields[g]]
    BY DEF Type, Clears, FormsInv, EditInv
<1>3. \A g \in Inputs : Locked(g, fields) => Locked(g, fields')
    <2>1. SUFFICES ASSUME NEW g \in Inputs, Locked(g, fields) PROVE Locked(g, fields')
        OBVIOUS
    <2>2. g \in {"fee", "tier"} /\ fields["type"] = "typed" /\ "type" \in Inputs
        BY <2>1, TypeIsDrawn DEF Locked, FormsInv
    <2>3. f # "type"
        <3>1. SUFFICES ASSUME f = "type" PROVE FALSE
            OBVIOUS
        <3>2. "type" \notin Class.asked \cup Class.checked \cup Class.refused /\ form # "TransferForm"
            BY EveryFormTable DEF FormTable, FormsInv, EditInv, Class
        <3>. QED
            BY <1>1, <2>2, <3>1, <3>2 DEF Type
    <2>. QED
        BY <1>2, <2>2, <2>3 DEF Locked
<1>4. FieldsKnown'
    BY <1>1, <1>2, <1>3 DEF FormsInv, EditInv, FieldsKnown, Inputs
<1>5. ASSUME NEW posted, PostKnown(posted) PROVE PostKnown(posted)'
    BY <1>1, <1>2, <1>3, <1>5 DEF PostKnown, Inputs
<1>. QED
    BY <1>1, <1>2, <1>4, <1>5 DEF FormsInv, EditInv, Inputs, Columns

LEMMA PressKeeps == ASSUME FormsInv, isEdit, PressSave PROVE EditInv'
<1>1. UNCHANGED <<form, isEdit, fetch, fields, typedInto, record, others>> /\ ~busy /\ fetch = "ready"
    BY DEF PressSave, MayPress, Shown, FormsInv, EditInv
<1>2. posts = <<>> /\ FieldsKnown
    BY <1>1 DEF FormsInv, EditInv
<1>3. CASE UNCHANGED <<busy, posts>>
    BY <1>1, <1>2, <1>3 DEF FormsInv, EditInv, FieldsKnown, Inputs, Locked, Columns
<1>4. CASE busy' = TRUE /\ posts' = Append(posts, [body |-> Body, typedInto |-> typedInto, at |-> "out"])
    <2>1. PICK posted : posted = [body |-> Body, typedInto |-> typedInto, at |-> "out"] /\ posts' = <<posted>>
        BY <1>2, <1>4
    <2>2. \A f \in Inputs : (Locked(f, fields) => Locked(f, Body)) /\ (~Locked(f, fields) => Body[f] = fields[f])
        BY BodyFields DEF FormsInv, EditInv
    <2>3. PostKnown(posted)
        <3>1. DOMAIN Body = Inputs
            BY DEF Body, FormsInv, EditInv
        <3>. QED
            BY <1>2, <2>1, <2>2, <3>1 DEF PostKnown, FieldsKnown
    <2>4. PostKnown(posted)' /\ FieldsKnown'
        BY <1>1, <1>2, <2>3 DEF PostKnown, FieldsKnown, Inputs, Locked
    <2>. QED
        BY <1>1, <1>2, <1>4, <2>1, <2>4 DEF FormsInv, EditInv, Inputs, Columns
<1>. QED
    BY <1>3, <1>4 DEF PressSave

\* The one save that is under way.
LEMMA OneSave ==
    ASSUME FormsInv, isEdit, NEW i \in DOMAIN posts
    PROVE  i = 1 /\ busy /\ fetch = "ready" /\ \E posted : posts = <<posted>> /\ PostKnown(posted)
BY DEF FormsInv, EditInv

LEMMA TakesKeeps == ASSUME FormsInv, isEdit, NEW i \in DOMAIN posts, ServiceTakes(i) PROVE EditInv'
<1>1. PICK posted : i = 1 /\ posts = <<posted>> /\ PostKnown(posted) /\ busy /\ fetch = "ready"
    BY OneSave
<1>2. UNCHANGED <<form, isEdit, fetch, fields, typedInto, busy, others>> /\ DOMAIN record = Columns
      /\ DOMAIN fields = Inputs /\ form # "TransferForm" /\ FieldsKnown /\ busy \in BOOLEAN
    BY <1>1 DEF ServiceTakes, FormsInv, EditInv, fillVars
<1>3. PICK a \in {"saved", "refused"} : /\ posts' = [posts EXCEPT ![i].at = a]
                                        /\ record' = record \/ record' = Replaced(posts[i].body)
    BY DEF ServiceTakes
<1>4. PICK next : next = [posted EXCEPT !.at = a] /\ posts' = <<next>>
    BY <1>1, <1>3
<1>5. DOMAIN next = {"body", "typedInto", "at"} /\ next.at = a /\ next.body = posted.body
    BY <1>1, <1>4 DEF PostKnown
<1>6. PostKnown(next)'
    BY <1>1, <1>2, <1>3, <1>5 DEF PostKnown, Inputs, Locked
<1>7. FieldsKnown'
    <2>1. CASE record' = record
        BY <1>2, <2>1 DEF FieldsKnown, Inputs, Locked
    <2>2. CASE record' = Replaced(posted.body)
        <3>1. SUFFICES ASSUME NEW f \in Inputs
                       PROVE  \/ fields[f] = record'[f] \/ f \in typedInto
                              \/ f \in others /\ fields[f] = "stored"
                              \/ Locked(f, fields)
            BY <1>2 DEF FieldsKnown, Inputs, Locked
        <3>2. record'[f] = record[f] \/ record'[f] = posted.body[f]
            BY <1>1, <1>2, <2>2 DEF Replaced, Columns, PostKnown
        <3>. QED
            BY <1>1, <1>2, <3>2 DEF FieldsKnown, PostKnown
    <2>. QED
        BY <1>1, <1>3, <2>1, <2>2
<1>8. DOMAIN record' = DOMAIN record
    BY <1>3 DEF Replaced
<1>. QED
    BY <1>1, <1>2, <1>4, <1>6, <1>7, <1>8 DEF EditInv, Inputs, Columns

LEMMA DropKeeps ==
    ASSUME FormsInv, isEdit, NEW i \in DOMAIN posts, Drop(i), busy' = FALSE,
           UNCHANGED <<form, isEdit, fetch, fields, typedInto, record, others>>
    PROVE  EditInv' /\ posts' = <<>>
<1>1. i = 1 /\ fetch = "ready" /\ Len(posts) = 1
    BY OneSave
<1>2. posts' = <<>>
    <2>1. posts' = [j \in 1 .. Len(posts) - 1 |-> IF j < i THEN posts[j] ELSE posts[j + 1]]
        BY DEF Drop
    <2>2. 1 .. Len(posts) - 1 = {}
        BY <1>1
    <2>3. posts' \in [{} -> {}]
        BY <2>1, <2>2
    <2>. QED
        BY <2>3
<1>. QED
    BY <1>1, <1>2 DEF FormsInv, EditInv, FieldsKnown, Inputs, Locked, Columns

LEMMA OthersKeep == ASSUME FormsInv, isEdit, NEW f \in DOMAIN record, OthersStore(f) PROVE EditInv'
<1>1. UNCHANGED <<form, isEdit, fetch, fields, typedInto, busy, posts>> /\ others' = others \cup {f}
    BY DEF OthersStore, fillVars
<1>2. DOMAIN record' = DOMAIN record /\ record[f] = "stored" /\ \A g \in DOMAIN record : g # f => record'[g] = record[g]
    BY DEF OthersStore
<1>3. Inputs \subseteq DOMAIN record
    BY DEF FormsInv, EditInv, Columns
<1>4. FieldsKnown => FieldsKnown'
    BY <1>1, <1>2, <1>3 DEF FieldsKnown, Inputs, Locked
<1>5. ASSUME NEW posted, PostKnown(posted) PROVE PostKnown(posted)'
    BY <1>1, <1>2, <1>3, <1>5 DEF PostKnown, Inputs, Locked
<1>. QED
    BY <1>1, <1>2, <1>4, <1>5 DEF FormsInv, EditInv, Inputs, Columns

LEMMA RestKeeps ==
    ASSUME FormsInv, isEdit, UNCHANGED <<form, isEdit, fields, typedInto, record, others, busy, posts>>,
           fetch' = fetch \/ (fetch = "loading" /\ fetch' = "failed")
    PROVE  EditInv'
<1>1. FieldsKnown => FieldsKnown'
    BY DEF FieldsKnown, Inputs, Locked
<1>2. ASSUME NEW posted, PostKnown(posted) PROVE PostKnown(posted)'
    BY <1>2 DEF PostKnown, Inputs, Locked
<1>. QED
    BY <1>1, <1>2 DEF FormsInv, EditInv, Inputs, Columns

LEMMA FormsStep == ASSUME FormsInv, [FormsNext]_formVars PROVE FormsInv'
<1>1. UNCHANGED <<form, isEdit>>
    BY DEF FormsNext, formVars, RecordArrives, RecordFails, PressSave, CancelForm, Type, ServiceTakes, SaveAnswered,
           SaveFails, OthersStore, GrantRevoked
<1>2. ASSUME isEdit PROVE EditInv'
    <2>. USE <1>2
    <2>1. CASE UNCHANGED formVars
        BY <2>1, RestKeeps DEF formVars, fillVars
    <2>2. CASE RecordArrives
        BY <2>2, ArrivesKeeps
    <2>3. CASE RecordFails
        BY <2>3, RestKeeps DEF RecordFails, fillVars
    <2>4. CASE PressSave
        BY <2>4, PressKeeps
    <2>5. CASE CancelForm
        BY <2>5, RestKeeps DEF CancelForm, fillVars
    <2>6. ASSUME NEW f \in Inputs, NEW content \in {"blank", "typed", "ending", "wrong"}, Type(f, content) PROVE EditInv'
        BY <2>6, TypeKeeps
    <2>7. ASSUME NEW i \in DOMAIN posts, ServiceTakes(i) PROVE EditInv'
        BY <2>7, TakesKeeps
    <2>8. ASSUME NEW i \in DOMAIN posts, SaveAnswered(i) \/ SaveFails(i) PROVE EditInv'
        BY <2>8, DropKeeps DEF SaveAnswered, SaveFails, fillVars
    <2>9. ASSUME NEW f \in DOMAIN record, OthersStore(f) PROVE EditInv'
        BY <2>9, OthersKeep
    <2>10. ASSUME NEW club \in granted, GrantRevoked(club) PROVE EditInv'
        BY <2>10, RestKeeps DEF GrantRevoked, fillVars
    <2>. QED
        BY <2>1, <2>2, <2>3, <2>4, <2>5, <2>6, <2>7, <2>8, <2>9, <2>10 DEF FormsNext
<1>. QED
    BY <1>1, <1>2 DEF FormsInv

\* The step on which the service takes a save stores what the body says, and
\* nothing else writes a whole record.
LEMMA TakenBody ==
    ASSUME FormsInv, [FormsNext]_formVars, isEdit, NEW i \in DOMAIN posts, posts[i].at = "out",
           posts' = [posts EXCEPT ![i].at = "saved"]
    PROVE  record' = Replaced(posts[i].body)
<1>1. PICK posted : i = 1 /\ posts = <<posted>> /\ PostKnown(posted) /\ busy
    BY OneSave
<1>2. DOMAIN posts' = {1} /\ posts'[1].at = "saved" /\ posts' # posts /\ posts' # <<>>
    BY <1>1 DEF PostKnown
<1>3. ASSUME NEW j \in DOMAIN posts, SaveAnswered(j) \/ SaveFails(j) PROVE FALSE
    BY <1>2, <1>3, DropKeeps DEF SaveAnswered, SaveFails, fillVars
<1>4. ~PressSave
    BY <1>1 DEF PressSave, MayPress
<1>5. PICK j \in DOMAIN posts : ServiceTakes(j)
    BY <1>2, <1>3, <1>4 DEF FormsNext, formVars, RecordArrives, RecordFails, CancelForm, Type, OthersStore, GrantRevoked
<1>6. j = i
    BY <1>1
<1>7. posts' # [posts EXCEPT ![i].at = "refused"]
    BY <1>1, <1>2 DEF PostKnown
<1>. QED
    BY <1>5, <1>6, <1>7 DEF ServiceTakes

\* A save changes what the member typed and nothing else: the update replaces
\* the whole record, and every field of its body was filled from the record
\* (player-form.ts, fill and body; likewise the other forms), but for what
\* someone else stored meanwhile, which goes back to what was loaded, for what
\* the typed kind of a record forbids, and for the column a form knows nothing
\* of (coach-form.ts, the contract).
THEOREM UntouchedCorrect == FormsSpec => UntouchedFieldsSurvive
<1> DEFINE Survive ==
          \A i \in DOMAIN posts :
              isEdit /\ posts[i].at = "out" /\ posts' = [posts EXCEPT ![i].at = "saved"] =>
                  \A f \in DOMAIN record \ Forms[form].view.unsent :
                      \/ record'[f] = record[f]
                      \/ f \in posts[i].typedInto
                      \/ f \in others /\ record'[f] = "stored"
                      \/ Locked(f, posts[i].body)
<1>1. FormsInit => FormsInv
    BY FormsInitially
<1>2. FormsInv /\ [FormsNext]_formVars => FormsInv'
    BY FormsStep
<1>3. FormsInv /\ [FormsNext]_formVars => Survive
    <2>1. SUFFICES ASSUME FormsInv, [FormsNext]_formVars, NEW i \in DOMAIN posts, isEdit, posts[i].at = "out",
                          posts' = [posts EXCEPT ![i].at = "saved"],
                          NEW f \in DOMAIN record \ Forms[form].view.unsent
                   PROVE  \/ record'[f] = record[f]
                          \/ f \in posts[i].typedInto
                          \/ f \in others /\ record'[f] = "stored"
                          \/ Locked(f, posts[i].body)
        OBVIOUS
    <2>2. PICK posted : i = 1 /\ posts = <<posted>> /\ PostKnown(posted)
        BY <2>1, OneSave
    <2>3. f \in Forms[form].view.kept \/ (f \in Inputs /\ f \in DOMAIN posted.body)
        BY <2>1, <2>2 DEF FormsInv, EditInv, Columns, PostKnown
    <2>4. record'[f] = record[f] \/ (f \in Inputs /\ record'[f] = posted.body[f])
        BY <2>1, <2>2, <2>3, TakenBody DEF Replaced
    <2>. QED
        BY <2>1, <2>2, <2>3, <2>4 DEF PostKnown
<1>. QED
    BY <1>1, <1>2, <1>3, PTL DEF FormsSpec, UntouchedFieldsSurvive

------------------------------------------------------------------------------
(* What the parts of a form are.                                           *)

\* What is asked for is drawn, the subject's club is not, and a new form starts
\* with contents.
FormStarts(k) ==
    /\ Forms[k].class.asked \subseteq Forms[k].view.always
    /\ "from" \notin Forms[k].view.always \cup Forms[k].view.new
    /\ \A f \in DOMAIN Forms[k].view.start : Forms[k].view.start[f] \in Contents

LEMMA EveryFormStarts == \A k \in DOMAIN Forms : FormStarts(k)
<1>. USE DEF FormStarts, FormOf, Form, View, Contents
<1>1. FormStarts("ClubForm")
    BY DEF Forms, ClubForm, ClubFormView
<1>2. FormStarts("CoachForm")
    BY DEF Forms, CoachForm, CoachFormView
<1>3. FormStarts("SpellForm")
    BY DEF Forms, SpellForm, SpellFormView
<1>4. FormStarts("SeasonEntryForm")
    BY DEF Forms, SeasonEntryForm, SeasonEntryView
<1>5. FormStarts("ValueForm")
    BY DEF Forms, ValueForm, ValueFormView
<1>6. FormStarts("CompetitionForm")
    BY DEF Forms, CompetitionForm, CompetitionFormView
<1>7. FormStarts("PlayerForm")
    BY DEF Forms, PlayerForm, PlayerFormView, PlayerDetails
<1>8. FormStarts("TransferForm")
    BY DEF Forms, TransferForm, TransferFormView
<1>9. FormStarts("TransferEdit")
    <2>1. Forms["TransferEdit"].class.asked = {}
        BY DEF Forms, TransferEdit
    <2>2. /\ TransferEditView.always = {"type", "fee", "season"} /\ TransferEditView.new = {}
          /\ TransferEditView.start = [type |-> "default"]
        BY DEF TransferEditView
    <2>3. Forms["TransferEdit"].view = TransferEditView
        BY DEF Forms
    <2>. QED
        BY <2>1, <2>2, <2>3
<1>10. FormStarts("SeasonForm")
    BY DEF Forms, SeasonForm, SeasonFormView
<1>11. DOMAIN Forms = {"ClubForm", "CoachForm", "SpellForm", "SeasonEntryForm", "ValueForm", "CompetitionForm",
                       "PlayerForm", "TransferForm", "TransferEdit", "SeasonForm"}
    BY DEF Forms
<1>. QED
    BY <1>1, <1>2, <1>3, <1>4, <1>5, <1>6, <1>7, <1>8, <1>9, <1>10, <1>11

\* The fields of the form that is open, with the club of its subject or without.
Bodies == [Inputs -> Contents] \cup [Inputs \cup {"from"} -> Contents]

Posted == [body: Bodies, typedInto: SUBSET Inputs, at: {"out", "saved", "refused"}]

RecordTyped ==
    /\ record \in [DOMAIN record -> Contents]
    /\ DOMAIN record = IF isEdit THEN Columns
                       ELSE IF Class.rule = "either" THEN {"from"} ELSE {}

FieldsTyped == fields \in [Inputs \cup (IF ~isEdit /\ fetch = "ready" THEN DOMAIN record ELSE {}) -> Contents]

PostsTyped == posts \in Seq(Posted) /\ presses \in 0 .. MaxSaves /\ Len(posts) <= presses

FormsTyped ==
    /\ form \in DOMAIN Forms /\ isEdit \in BOOLEAN
    /\ place \in {"form", "elsewhere", "next"} /\ fetch \in {"none", "loading", "ready", "failed"}
    /\ RecordTyped /\ FieldsTyped /\ PostsTyped
    /\ typedInto \subseteq Inputs /\ errors \subseteq Inputs
    /\ granted \subseteq holds

LEMMA FormsTypedInitially == FormsInit => FormsTyped
<1>. SUFFICES ASSUME FormsInit PROVE FormsTyped
    OBVIOUS
<1>1. form \in DOMAIN Forms /\ isEdit \in BOOLEAN /\ fetch \in {"none", "loading", "failed"}
    BY DEF FormsInit
<1>2. fields \in [Inputs -> Contents]
    <2>1. FormStarts(form)
        BY <1>1, EveryFormStarts
    <2>2. \A f : Starts(Forms[form].view.start, f) \in Contents
        BY <2>1 DEF FormStarts, Starts, Contents
    <2>. QED
        BY <2>2 DEF FormsInit
<1>3. RecordTyped
    <2>1. "stored" \in Contents
        BY DEF Contents
    <2>. QED
        BY <2>1 DEF FormsInit, RecordTyped
<1>4. PostsTyped
    <2>1. posts \in Seq(Posted) /\ Len(posts) = 0
        BY DEF FormsInit
    <2>. QED
        BY <2>1, FormsAssumption DEF FormsInit, PostsTyped
<1>. QED
    BY <1>1, <1>2, <1>3, <1>4 DEF FormsInit, FormsTyped, FieldsTyped

\* What the open form is does not change.
LEMMA SameForm ==
    ASSUME form' = form, isEdit' = isEdit
    PROVE  Inputs' = Inputs /\ Columns' = Columns /\ Bodies' = Bodies /\ Posted' = Posted /\ Class' = Class
BY DEF Inputs, Columns, Bodies, Posted, Class

LEMMA SamePosts == ASSUME PostsTyped, UNCHANGED <<form, isEdit, posts, presses>> PROVE PostsTyped'
BY SameForm DEF PostsTyped

LEMMA FilledTyped == ASSUME FormsTyped, RecordArrives PROVE FormsTyped'
<1>1. RecordTyped /\ fields \in [Inputs -> Contents] /\ UNCHANGED <<form, isEdit, record>> /\ fetch' = "ready"
    BY DEF FormsTyped, FieldsTyped, RecordArrives
<1>2. FieldsTyped'
    <2>1. CASE isEdit
        <3>1. fields' = [f \in Inputs |-> record[f]] /\ Inputs \subseteq DOMAIN record
            BY <1>1, <2>1 DEF RecordArrives, Fill, RecordTyped, Columns
        <3>. QED
            BY <1>1, <2>1, <3>1, SameForm DEF FieldsTyped, RecordTyped
    <2>2. CASE ~isEdit
        <3>1. DOMAIN record \subseteq {"from"} /\ "from" \notin Inputs
            BY <1>1, <2>2, EveryFormStarts DEF RecordTyped, FormsTyped, FormStarts, Inputs
        <3>2. PICK names : names = Inputs \cup DOMAIN record
            OBVIOUS
        <3>3. fields' = [f \in names |-> IF f = "from" THEN record[f] ELSE fields[f]]
            BY <1>1, <2>2, <3>2 DEF RecordArrives
        <3>4. ASSUME NEW f \in names PROVE fields'[f] \in Contents
            <4>1. f \in Inputs => f # "from" /\ fields[f] \in Contents
                BY <1>1, <3>1
            <4>2. f \in DOMAIN record => f = "from" /\ record[f] \in Contents
                BY <1>1, <3>1 DEF RecordTyped
            <4>. QED
                BY <3>2, <3>3, <4>1, <4>2
        <3>5. fields' \in [names -> Contents]
            BY <3>3, <3>4
        <3>. QED
            BY <1>1, <2>2, <3>2, <3>5, SameForm DEF FieldsTyped
    <2>. QED
        BY <2>1, <2>2, <1>1 DEF FormsTyped
<1>3. UNCHANGED <<form, isEdit, place, typedInto, errors, posts, presses, record, holds, granted>>
    BY DEF RecordArrives
<1>. QED
    BY <1>1, <1>2, <1>3, SameForm, SamePosts DEF FormsTyped, RecordTyped

LEMMA TypingTyped ==
    ASSUME FormsTyped, NEW f \in Inputs, NEW content \in {"blank", "typed", "ending", "wrong"}, Type(f, content)
    PROVE  FormsTyped'
<1>1. UNCHANGED <<form, isEdit, place, fetch, errors, posts, presses, record, holds, granted>> /\ typedInto' = typedInto \cup {f}
    BY DEF Type
<1>2. FieldsTyped'
    <2>1. fields' = [g \in DOMAIN fields |-> IF g = f THEN content ELSE IF g \in Clears(f, content) THEN "blank" ELSE fields[g]]
        BY DEF Type
    <2>2. "blank" \in Contents /\ content \in Contents
        BY DEF Contents
    <2>3. fields' \in [DOMAIN fields -> Contents]
        BY <2>1, <2>2 DEF FormsTyped, FieldsTyped
    <2>. QED
        BY <1>1, <2>3, SameForm DEF FormsTyped, FieldsTyped
<1>. QED
    BY <1>1, <1>2, SameForm, SamePosts DEF FormsTyped, RecordTyped

LEMMA PressTyped == ASSUME FormsTyped, PressSave PROVE FormsTyped'
<1>1. UNCHANGED <<form, isEdit, place, fetch, fields, typedInto, record, holds, granted>>
    BY DEF PressSave
<1>2. errors' \subseteq Inputs
    BY EveryFormStarts DEF PressSave, Wrong, FormsTyped, FormStarts, Inputs, Class
<1>3. PostsTyped'
    <2>1. presses \in Nat /\ presses' = presses + 1 /\ presses' \in 0 .. MaxSaves /\ posts \in Seq(Posted) /\ Len(posts) <= presses
        BY FormsAssumption DEF PressSave, FormsTyped, PostsTyped
    <2>2. Body \in Bodies
        <3>1. Body \in [DOMAIN fields -> Contents]
            <4>1. "blank" \in Contents
                BY DEF Contents
            <4>. QED
                BY <4>1 DEF Body, FormsTyped, FieldsTyped
        <3>2. DOMAIN fields = Inputs \/ DOMAIN fields = Inputs \cup {"from"}
            <4>1. ~isEdit => DOMAIN record = {} \/ DOMAIN record = {"from"}
                BY DEF FormsTyped, RecordTyped
            <4>. QED
                BY <4>1 DEF FormsTyped, FieldsTyped
        <3>. QED
            BY <3>1, <3>2 DEF Bodies
    <2>3. PICK posted : posted = [body |-> Body, typedInto |-> typedInto, at |-> "out"]
        OBVIOUS
    <2>4. posted \in Posted
        BY <2>2, <2>3 DEF Posted, FormsTyped
    <2>5. Append(posts, posted) \in Seq(Posted) /\ Len(Append(posts, posted)) = Len(posts) + 1
        BY <2>1, <2>4
    <2>6. Len(posts) \in Nat
        BY <2>1
    <2>7. posts' = posts \/ posts' = Append(posts, posted)
        BY <2>3 DEF PressSave
    <2>8. posts' \in Seq(Posted) /\ Len(posts') <= presses'
        BY <2>1, <2>5, <2>6, <2>7
    <2>. QED
        BY <1>1, <2>1, <2>8, SameForm DEF PostsTyped
<1>. QED
    BY <1>1, <1>2, <1>3, SameForm DEF FormsTyped, RecordTyped, FieldsTyped

LEMMA TakenTyped == ASSUME FormsTyped, NEW i \in DOMAIN posts, ServiceTakes(i) PROVE FormsTyped'
<1>1. UNCHANGED <<form, isEdit, place, fetch, fields, typedInto, errors, presses, holds, granted>>
    BY DEF ServiceTakes, fillVars
<1>2. posts \in Seq(Posted) /\ presses \in 0 .. MaxSaves /\ Len(posts) <= presses
    BY DEF FormsTyped, PostsTyped
<1>3. PICK request : request = posts[i]
    OBVIOUS
<1>4. request \in Posted
    BY <1>2, <1>3
<1>5. PICK a \in {"saved", "refused"} : posts' = [posts EXCEPT ![i].at = a]
    BY DEF ServiceTakes
<1>6. PostsTyped'
    <2>1. PICK next : next = [request EXCEPT !.at = a]
        OBVIOUS
    <2>2. next \in Posted
        BY <1>4, <2>1 DEF Posted
    <2>3. posts' = [posts EXCEPT ![i] = next]
        BY <1>3, <1>5, <2>1
    <2>4. posts' \in Seq(Posted) /\ Len(posts') = Len(posts)
        BY <1>2, <2>2, <2>3
    <2>. QED
        BY <1>1, <1>2, <2>4, SameForm DEF PostsTyped
<1>7. RecordTyped'
    <2>1. CASE record' = record
        BY <1>1, <2>1, SameForm DEF FormsTyped, RecordTyped
    <2>2. CASE isEdit /\ record' = Replaced(request.body)
        <3>1. "blank" \in Contents /\ \A f \in DOMAIN request.body : request.body[f] \in Contents
            BY <1>4 DEF Posted, Bodies, Contents
        <3>2. record \in [Columns -> Contents]
            BY <2>2 DEF FormsTyped, RecordTyped
        <3>3. record' \in [Columns -> Contents]
            BY <2>2, <3>1, <3>2 DEF Replaced
        <3>. QED
            BY <1>1, <2>2, <3>3, SameForm DEF RecordTyped
    <2>. QED
        BY <1>3, <2>1, <2>2 DEF ServiceTakes
<1>8. DOMAIN record' = DOMAIN record
    BY DEF ServiceTakes, Replaced
<1>. QED
    BY <1>1, <1>6, <1>7, <1>8, SameForm DEF FormsTyped, FieldsTyped

LEMMA DropTyped == ASSUME FormsTyped, NEW i \in DOMAIN posts, Drop(i), UNCHANGED <<form, isEdit, presses>> PROVE PostsTyped'
<1>1. posts \in Seq(Posted) /\ presses \in 0 .. MaxSaves /\ Len(posts) <= presses /\ Len(posts) \in Nat
    BY DEF FormsTyped, PostsTyped
<1>2. Len(posts) - 1 \in Nat
    BY <1>1
<1>3. posts' = [j \in 1 .. Len(posts) - 1 |-> IF j < i THEN posts[j] ELSE posts[j + 1]]
    BY DEF Drop
<1>4. ASSUME NEW j \in 1 .. Len(posts) - 1 PROVE (IF j < i THEN posts[j] ELSE posts[j + 1]) \in Posted
    <2>1. j \in 1 .. Len(posts) /\ j + 1 \in 1 .. Len(posts)
        BY <1>1
    <2>. QED
        BY <1>1, <2>1
<1>5. posts' \in Seq(Posted) /\ Len(posts') = Len(posts) - 1
    BY <1>2, <1>3, <1>4
<1>. QED
    BY <1>1, <1>5, SameForm DEF PostsTyped, FormsTyped

LEMMA FormsTypedStep == ASSUME FormsTyped, [FormsNext]_formVars PROVE FormsTyped'
<1>1. CASE UNCHANGED formVars
    BY <1>1, SameForm, SamePosts DEF formVars, fillVars, FormsTyped, RecordTyped, FieldsTyped
<1>2. CASE RecordArrives
    BY <1>2, FilledTyped
<1>3. CASE RecordFails
    BY <1>3, SameForm, SamePosts DEF RecordFails, fillVars, FormsTyped, RecordTyped, FieldsTyped
<1>4. CASE PressSave
    BY <1>4, PressTyped
<1>5. CASE CancelForm
    BY <1>5, SameForm, SamePosts DEF CancelForm, fillVars, FormsTyped, RecordTyped, FieldsTyped
<1>6. ASSUME NEW f \in Inputs, NEW content \in {"blank", "typed", "ending", "wrong"}, Type(f, content) PROVE FormsTyped'
    BY <1>6, TypingTyped
<1>7. ASSUME NEW i \in DOMAIN posts, ServiceTakes(i) PROVE FormsTyped'
    BY <1>7, TakenTyped
<1>8. ASSUME NEW i \in DOMAIN posts, SaveAnswered(i) \/ SaveFails(i) PROVE FormsTyped'
    <2>1. /\ UNCHANGED <<form, isEdit, fetch, fields, typedInto, errors, presses, record, holds, granted>> /\ Drop(i)
          /\ place' = place \/ place' = "next"
        BY <1>8 DEF SaveAnswered, SaveFails, fillVars
    <2>. QED
        BY <2>1, DropTyped, SameForm DEF FormsTyped, RecordTyped, FieldsTyped
<1>9. ASSUME NEW f \in DOMAIN record, OthersStore(f) PROVE FormsTyped'
    <2>1. UNCHANGED <<form, isEdit, place, fetch, fields, typedInto, errors, posts, presses, holds, granted>>
        BY <1>9 DEF OthersStore, fillVars
    <2>2. PICK content \in {"theirs", "blank"} : record' = [record EXCEPT ![f] = content]
        BY <1>9 DEF OthersStore
    <2>3. content \in Contents
        BY DEF Contents
    <2>4. RecordTyped' /\ DOMAIN record' = DOMAIN record
        BY <2>1, <2>2, <2>3, SameForm DEF FormsTyped, RecordTyped
    <2>. QED
        BY <2>1, <2>4, SameForm, SamePosts DEF FormsTyped, FieldsTyped
<1>10. ASSUME NEW club \in granted, GrantRevoked(club) PROVE FormsTyped'
    BY <1>10, SameForm, SamePosts DEF GrantRevoked, fillVars, FormsTyped, RecordTyped, FieldsTyped
<1>. QED
    BY <1>1, <1>2, <1>3, <1>4, <1>5, <1>6, <1>7, <1>8, <1>9, <1>10 DEF FormsNext

\* Every field holds contents, what was typed into and what was found wrong are
\* fields that the form draws, and a press of the button sends one save
\* (player-form.ts, fill, build and save; likewise the other forms).
THEOREM FormsTypeCorrect == FormsSpec => []FormsTypeOK
<1>1. FormsTyped => FormsTypeOK
    <2>1. ASSUME FormsTyped PROVE Len(posts) <= MaxSaves
        <3>1. Len(posts) \in Nat /\ presses \in 0 .. MaxSaves /\ Len(posts) <= presses
            BY <2>1 DEF FormsTyped, PostsTyped
        <3>. QED
            BY <3>1, FormsAssumption
    <2>. QED
        BY <2>1 DEF FormsTyped, FieldsTyped, FormsTypeOK
<1>. QED
    BY <1>1, FormsTypedInitially, FormsTypedStep, PTL DEF FormsSpec

------------------------------------------------------------------------------
(* The articles: requests of a page, and what a call makes of them.        *)

LEMMA LeastElement ==
    ASSUME NEW T, T \subseteq Nat, T # {}
    PROVE  \E x \in T : \A y \in T : x <= y
<1>1. PICK x \in T : \A y \in T : ~ (<<y, x>> \in OpToRel(<, Nat))
    BY NatLessThanWellFounded, WFMin
<1>2. \A y \in T : y \in Nat /\ x \in Nat /\ ~(y < x)
    BY <1>1 DEF OpToRel
<1>. QED
    BY <1>2

LEMMA SetInduction ==
    ASSUME NEW S, 0 \in S, \A k \in Nat : k \in S => k + 1 \in S
    PROVE  \A k \in Nat : k \in S
<1>. SUFFICES ASSUME Nat \ S # {} PROVE FALSE
    OBVIOUS
<1>1. PICK x \in Nat \ S : \A y \in Nat \ S : x <= y
    BY LeastElement
<1>2. x - 1 \in Nat /\ ~(x <= x - 1)
    BY <1>1
<1>3. x - 1 \in S
    BY <1>1, <1>2
<1>. QED
    BY <1>1, <1>2, <1>3

------------------------------------------------------------------------------
(* Requests.                                                               *)

Ops == {"create", "update", "submit", "requestChanges", "withdraw", "remove"}

RowFields == {"status", "author", "text", "at", "first"}
PageFields == {"at", "id", "copy", "text", "edit", "dirty", "timer", "inFlight", "saveError", "busy", "pressed",
               "others", "crossed"}
RequestFields == {"at", "op", "id", "text", "time", "row", "edit", "waiters", "then", "seen"}

ThenSound(then) == then = NoThen \/ then[1] \in {"submit", "requestChanges", "withdraw"}

\* What a request of the page p may be when there are n articles: a writer's
\* that has read the article and will write its text found it where it is the
\* writer's to change.
RequestSound(p, n, r) ==
    /\ DOMAIN r = RequestFields /\ DOMAIN r.row = RowFields
    /\ r.id \in 0 .. n /\ (r.at # "none" /\ (r.op # "create" \/ r.at = "done") => r.id # 0)
    /\ r.waiters \in Nat /\ ThenSound(r.then)
    /\ r.at # "none" => r.op \in Ops
    /\ r.at = "read" => r.op # "create"
    /\ r.at = "read" /\ r.op = "update" /\ ~IsAdmin(p) => r.row.status \in {"draft", "changes_requested"}

RequestsSound(p, n, reqs) == DOMAIN reqs = Places /\ \A i \in Places : RequestSound(p, n, reqs[i])

PageSound(n, e) == DOMAIN e = PageFields /\ e.id \in 0 .. n

\* A page and its places.
StateSound(p, n, s) == DOMAIN s = {"page", "reqs"} /\ PageSound(n, s.page) /\ RequestsSound(p, n, s.reqs)

LEMMA NoRequestSound == \A p : \A n \in Nat : RequestSound(p, n, NoRequest)
BY DEF RequestSound, NoRequest, RequestFields, RowFields, ThenSound, NoThen, NoRow, Row

LEMMA SendSound ==
    ASSUME NEW p, NEW n \in Nat, NEW s, StateSound(p, n, s), NEW r, RequestSound(p, n, r)
    PROVE  RequestsSound(p, n, Send(s, r).reqs) /\ PageSound(n, Send(s, r).page)
BY DEF StateSound, RequestsSound, PageSound, PageFields, Send

LEMMA RunSound ==
    ASSUME NEW p, NEW n \in Nat, NEW s, StateSound(p, n, s), NEW then, ThenSound(then)
    PROVE  StateSound(p, n, Run(s, then))
<1> DEFINE r == [NoRequest EXCEPT !.at = "sent", !.op = then[1], !.time = then[2], !.id = s.page.id,
                                  !.seen = s.page.pressed]
           t == Send(s, r)
           u == [page |-> [t.page EXCEPT !.busy = TRUE, !.pressed = {}], reqs |-> t.reqs]
<1>1. CASE Run(s, then) = s
    BY <1>1
<1>2. CASE then # NoThen /\ s.page.id # 0 /\ Run(s, then) = u
    <2>. s.page.id \in 1 .. n
        BY <1>2 DEF StateSound, PageSound
    <2>1. RequestSound(p, n, r)
        BY <1>2 DEF RequestSound, NoRequest, RequestFields, RowFields, ThenSound, NoThen, NoRow, Row, Ops
    <2>. HIDE DEF r
    <2>2. RequestsSound(p, n, t.reqs) /\ PageSound(n, t.page)
        BY <2>1, SendSound
    <2>. HIDE DEF t
    <2>3. DOMAIN u = {"page", "reqs"} /\ u.reqs = t.reqs /\ DOMAIN u.page = PageFields /\ u.page.id = t.page.id
        BY <2>2 DEF PageSound, PageFields
    <2>. HIDE DEF u
    <2>. QED
        BY <1>2, <2>2, <2>3 DEF StateSound, PageSound
<1>. QED
    BY <1>1, <1>2 DEF Run

LEMMA SaveNowSound ==
    ASSUME NEW p, NEW n \in Nat, NEW s, StateSound(p, n, s), NEW then, ThenSound(then)
    PROVE  StateSound(p, n, SaveNow(p, s, then))
<1> DEFINE r == [NoRequest EXCEPT !.at = "sent", !.op = IF s.page.id = 0 THEN "create" ELSE "update",
                                  !.id = s.page.id, !.text = s.page.text, !.edit = s.page.edit, !.then = then]
           t == Send(s, r)
           u == [page |-> [t.page EXCEPT !.inFlight = t.place, !.saveError = FALSE], reqs |-> t.reqs]
           clean == [s EXCEPT !.page.dirty = FALSE]
<1>1. CASE SaveNow(p, s, then) = Run(s, then)
    BY <1>1, RunSound
<1>2. CASE SaveNow(p, s, then) = Run(clean, then)
    <2>1. StateSound(p, n, clean)
        BY DEF StateSound, PageSound, PageFields
    <2>. HIDE DEF clean
    <2>. QED
        BY <1>2, <2>1, RunSound
<1>3. CASE SaveNow(p, s, then) = u
    <2>. s.page.id \in 0 .. n
        BY DEF StateSound, PageSound
    <2>1. RequestSound(p, n, r)
        BY DEF RequestSound, NoRequest, RequestFields, RowFields, ThenSound, NoThen, NoRow, Row, Ops
    <2>. HIDE DEF r
    <2>2. RequestsSound(p, n, t.reqs) /\ PageSound(n, t.page)
        BY <2>1, SendSound
    <2>. HIDE DEF t
    <2>3. DOMAIN u = {"page", "reqs"} /\ u.reqs = t.reqs /\ DOMAIN u.page = PageFields /\ u.page.id = t.page.id
        BY <2>2 DEF PageSound, PageFields
    <2>. HIDE DEF u
    <2>. QED
        BY <1>3, <2>2, <2>3 DEF StateSound, PageSound
<1>. QED
    BY <1>1, <1>2, <1>3 DEF SaveNow

LEMMA SaveSound ==
    ASSUME NEW p, NEW n \in Nat, NEW s, StateSound(p, n, s), NEW then, ThenSound(then)
    PROVE  StateSound(p, n, save(p, s, then))
<1> DEFINE t == [s EXCEPT !.page.timer = FALSE]
<1>1. StateSound(p, n, t)
    BY DEF StateSound, PageSound, PageFields
<1>2. CASE saving(s.page)
    <2> DEFINE i == s.page.inFlight
               r == [t.reqs[i] EXCEPT !.waiters = @ + 1]
               reqs == [t.reqs EXCEPT ![i] = r]
    <2>1. save(p, s, then) = [t EXCEPT !.reqs = reqs]
        BY <1>2 DEF save
    <2>. HIDE DEF t, i
    <2>2. i \in Places => RequestSound(p, n, r)
        BY <1>1 DEF StateSound, RequestsSound, RequestSound, RequestFields
    <2>. HIDE DEF r
    <2>3. RequestsSound(p, n, reqs)
        BY <1>1, <2>2 DEF StateSound, RequestsSound
    <2>. HIDE DEF reqs
    <2>. QED
        BY <1>1, <2>1, <2>3 DEF StateSound
<1>3. CASE ~saving(s.page)
    BY <1>1, <1>3, SaveNowSound DEF save
<1>. QED
    BY <1>2, <1>3

\* One that waited goes on.
Resume(p, s) == IF s.page.dirty THEN SaveNow(p, s, NoThen) ELSE s

\* The pages and their places as one after the other goes on.
IsChain(p, s, n, g) == g = [k \in 0 .. n |-> IF k = 0 THEN s ELSE Resume(p, g[k - 1])]

LEMMA ChainExists == ASSUME NEW p, NEW s PROVE \A n \in Nat : \E g : IsChain(p, s, n, g)
<1> DEFINE S == {n \in Nat : \E g : IsChain(p, s, n, g)}
<1>1. 0 \in S
    <2> DEFINE g == [k \in 0 .. 0 |-> s]
    <2>1. IsChain(p, s, 0, g)
        BY DEF IsChain
    <2>. QED
        BY <2>1
<1>2. ASSUME NEW n \in Nat, n \in S PROVE n + 1 \in S
    <2>1. PICK g : IsChain(p, s, n, g)
        BY <1>2
    <2> DEFINE h == [k \in 0 .. n + 1 |-> IF k = n + 1 THEN Resume(p, g[n]) ELSE g[k]]
    <2>2. \A k \in 0 .. n + 1 : h[k] = IF k = 0 THEN s ELSE Resume(p, h[k - 1])
        <3>1. \A k \in 0 .. n : g[k] = IF k = 0 THEN s ELSE Resume(p, g[k - 1])
            BY <2>1 DEF IsChain
        <3>2. \A k \in 0 .. n : h[k] = g[k]
            OBVIOUS
        <3>3. h[n + 1] = Resume(p, g[n])
            OBVIOUS
        <3>4. ASSUME NEW k \in 0 .. n + 1 PROVE h[k] = IF k = 0 THEN s ELSE Resume(p, h[k - 1])
            <4>. HIDE DEF h
            <4>1. CASE k = 0
                BY <3>1, <3>2, <4>1
            <4>2. CASE k = n + 1
                BY <3>2, <3>3, <4>2
            <4>3. CASE k # 0 /\ k # n + 1
                <5>1. k \in 0 .. n /\ k - 1 \in 0 .. n
                    BY <4>3
                <5>. QED
                    BY <3>1, <3>2, <4>3, <5>1
            <4>. QED
                BY <4>1, <4>2, <4>3
        <3>. QED
            BY <3>4
    <2>3. IsChain(p, s, n + 1, h)
        <3>1. h = [k \in 0 .. n + 1 |-> h[k]]
            OBVIOUS
        <3>. HIDE DEF h
        <3>. QED
            BY <2>2, <3>1 DEF IsChain
    <2>. QED
        BY <2>3
<1>3. \A n \in Nat : n \in S
    <2>. HIDE DEF S
    <2>. QED
        BY <1>1, <1>2, SetInduction
<1>. QED
    BY <1>3

LEMMA WokenIsChain ==
    ASSUME NEW p, NEW s, NEW waiters \in Nat
    PROVE  \E after :
              /\ Woken(p, s, waiters) = after[waiters]
              /\ \A k \in 0 .. waiters : after[k] = IF k = 0 THEN s ELSE Resume(p, after[k - 1])
<1> DEFINE after[k \in 0 .. waiters] ==
              IF k = 0 THEN s
              ELSE IF after[k - 1].page.dirty THEN SaveNow(p, after[k - 1], NoThen) ELSE after[k - 1]
<1>1. Woken(p, s, waiters) = after[waiters]
    BY DEF Woken
<1>2. after = CHOOSE g : IsChain(p, s, waiters, g)
    BY DEF IsChain, Resume
<1>3. IsChain(p, s, waiters, after)
    <2>. HIDE DEF after
    <2>. QED
        BY <1>2, ChainExists
<1>. HIDE DEF after
<1>4. \A k \in 0 .. waiters : after[k] = IF k = 0 THEN s ELSE Resume(p, after[k - 1])
    BY <1>3 DEF IsChain
<1>. QED
    BY <1>1, <1>4

\* Those that waited: an induction on how many have gone on.
LEMMA WokenSound ==
    ASSUME NEW p, NEW n \in Nat, NEW s, StateSound(p, n, s), NEW waiters \in Nat
    PROVE  StateSound(p, n, Woken(p, s, waiters))
<1>1. PICK after : /\ Woken(p, s, waiters) = after[waiters]
                   /\ \A k \in 0 .. waiters : after[k] = IF k = 0 THEN s ELSE Resume(p, after[k - 1])
    BY WokenIsChain
<1> DEFINE S == {k \in Nat : k <= waiters => StateSound(p, n, after[k])}
<1>2. 0 \in S
    BY <1>1
<1>3. ASSUME NEW k \in Nat, k \in S PROVE k + 1 \in S
    <2>1. SUFFICES ASSUME k + 1 <= waiters PROVE StateSound(p, n, after[k + 1])
        OBVIOUS
    <2>2. StateSound(p, n, after[k]) /\ after[k + 1] = Resume(p, after[k])
        BY <1>1, <1>3, <2>1
    <2>. QED
        BY <2>2, SaveNowSound DEF Resume, ThenSound
<1>4. \A k \in Nat : k \in S
    <2>. HIDE DEF S
    <2>. QED
        BY <1>2, <1>3, SetInduction
<1>. QED
    BY <1>1, <1>4

------------------------------------------------------------------------------
(* The articles.                                                           *)

IsTable(q) == Len(q) \in Nat /\ q = [a \in 1 .. Len(q) |-> q[a]] /\ \A a \in 1 .. Len(q) : DOMAIN q[a] = RowFields

LEMMA TableGrows ==
    ASSUME NEW q, IsTable(q), NEW row, DOMAIN row = RowFields
    PROVE  /\ IsTable(Append(q, row)) /\ Len(Append(q, row)) = Len(q) + 1
           /\ \A a \in 1 .. Len(q) : Append(q, row)[a] = q[a]
           /\ Append(q, row)[Len(q) + 1] = row
<1> DEFINE S == {q[a] : a \in 1 .. Len(q)} \cup {row}
           t == Append(q, row)
<1>1. q \in Seq(S) /\ row \in S /\ Len(q) \in Nat
    BY DEF IsTable
<1>2. t \in Seq(S) /\ Len(t) = Len(q) + 1
    <2>. HIDE DEF S
    <2>. QED
        BY <1>1
<1>3. \A a \in 1 .. Len(q) : t[a] = q[a]
    <2>. HIDE DEF S
    <2>. QED
        BY <1>1
<1>4. t[Len(q) + 1] = row
    <2>. HIDE DEF S
    <2>. QED
        BY <1>1
<1>. HIDE DEF S, t
<1>5. t = [a \in 1 .. Len(t) |-> t[a]]
    BY <1>2
<1>6. \A a \in 1 .. Len(t) : DOMAIN t[a] = RowFields
    <2>1. SUFFICES ASSUME NEW a \in 1 .. Len(q) + 1 PROVE DOMAIN t[a] = RowFields
        BY <1>2
    <2>2. CASE a \in 1 .. Len(q)
        BY <1>3, <2>2 DEF IsTable
    <2>3. CASE a = Len(q) + 1
        BY <1>4, <2>3
    <2>. QED
        BY <1>1, <2>2, <2>3
<1>. QED
    BY <1>1, <1>2, <1>3, <1>4, <1>5, <1>6 DEF IsTable, t

LEMMA TableKeeps ==
    ASSUME NEW q, IsTable(q), NEW row, DOMAIN row = RowFields, NEW a \in 1 .. Len(q)
    PROVE  LET t == [q EXCEPT ![a] = row]
           IN  /\ IsTable(t) /\ Len(t) = Len(q) /\ t[a] = row
               /\ \A b \in 1 .. Len(q) : b # a => t[b] = q[b]
<1> DEFINE S == {q[b] : b \in 1 .. Len(q)} \cup {row}
           t == [q EXCEPT ![a] = row]
<1>1. q \in Seq(S) /\ row \in S
    BY DEF IsTable
<1>2. t \in Seq(S) /\ Len(t) = Len(q)
    <2>. HIDE DEF S
    <2>. QED
        BY <1>1
<1>3. t[a] = row /\ \A b \in 1 .. Len(q) : b # a => t[b] = q[b]
    BY DEF IsTable
<1>. HIDE DEF t, S
<1>. QED
    BY <1>2, <1>3 DEF IsTable, t

\* What is written is an article; published by a writer's request it is never.
LEMMA WrittenSound ==
    ASSUME NEW p, NEW n \in Nat, NEW r, RequestSound(p, n, r), r.at = "read", DOMAIN rows[r.id] = RowFields
    PROVE  /\ DOMAIN RowWritten(p, r) = RowFields
           /\ RowWritten(p, r).status = "published" => IsAdmin(p) /\ r.op \in {"update", "submit"}
<1>. USE DEF RequestSound, RowFields
<1>1. CASE r.op = "update"
    BY <1>1 DEF RowWritten
<1>2. CASE r.op = "submit"
    BY <1>2 DEF RowWritten, Published, Submitted
<1>3. CASE r.op = "requestChanges"
    BY <1>3 DEF RowWritten
<1>4. CASE r.op = "withdraw"
    BY <1>4 DEF RowWritten
<1>5. CASE r.op = "remove"
    BY <1>5 DEF RowWritten
<1>. QED
    BY <1>1, <1>2, <1>3, <1>4, <1>5 DEF Ops

AllRequestsSound == DOMAIN requests = EditorPages /\ \A p \in EditorPages : RequestsSound(p, Len(rows), requests[p])

AllPagesSound == DOMAIN editor = EditorPages /\ \A p \in EditorPages : PageSound(Len(rows), editor[p])

\* The inductive invariant.
DeskInv ==
    /\ AllRequestsSound /\ AllPagesSound
    /\ IsTable(rows) /\ Len(rows) <= MaxArticles
    /\ DOMAIN approved = 1 .. MaxArticles
    /\ PublishedTextIsApproved

\* What a page does changes its own requests only, and those as they may be.
LEMMA PageKeeps ==
    ASSUME DeskInv, NEW p \in EditorPages, NEW s, StateSound(p, Len(rows), s), PutPage(p, s), UNCHANGED <<rows, approved>>
    PROVE  DeskInv'
<1>1. AllRequestsSound'
    BY DEF DeskInv, AllRequestsSound, PutPage, StateSound
<1>2. AllPagesSound'
    <2>1. Len(rows) \in Nat
        BY DEF DeskInv, IsTable
    <2>2. PageSound(Len(rows), [NewPage EXCEPT !.at = "left"])
        BY <2>1 DEF PageSound, PageFields, NewPage
    <2>3. PageSound(Len(rows), s.page)
        BY DEF StateSound
    <2>4. PICK e : PageSound(Len(rows), e) /\ editor' = [editor EXCEPT ![p] = e]
        BY <2>2, <2>3 DEF PutPage
    <2>. QED
        BY <2>4 DEF DeskInv, AllPagesSound
<1>3. PublishedTextIsApproved'
    BY DEF DeskInv, PublishedTextIsApproved
<1>. QED
    BY <1>1, <1>2, <1>3 DEF DeskInv

LEMMA PageIsSound ==
    ASSUME DeskInv, NEW p \in EditorPages
    PROVE  Len(rows) \in Nat /\ StateSound(p, Len(rows), Now(p))
BY DEF DeskInv, AllRequestsSound, AllPagesSound, StateSound, Now, IsTable

LEMMA RequestIsSound ==
    ASSUME DeskInv, NEW p \in EditorPages, NEW i \in Places
    PROVE  Len(rows) \in Nat /\ RequestSound(p, Len(rows), requests[p][i])
BY DEF DeskInv, AllRequestsSound, RequestsSound, IsTable

\* With more articles what was in order stays so.
LEMMA MoreArticles ==
    ASSUME NEW n \in Nat, NEW m \in Nat, n <= m
    PROVE  /\ \A p, r : RequestSound(p, n, r) => RequestSound(p, m, r)
           /\ \A e : PageSound(n, e) => PageSound(m, e)
BY DEF RequestSound, PageSound

LEMMA RequestChanges ==
    ASSUME DeskInv, NEW p \in EditorPages, NEW i \in Places, NEW r, RequestSound(p, Len(rows'), r),
           requests' = [requests EXCEPT ![p][i] = r], Len(rows') \in Nat, Len(rows) <= Len(rows')
    PROVE  AllRequestsSound'
<1>1. \A q, k : RequestSound(q, Len(rows), k) => RequestSound(q, Len(rows'), k)
    BY MoreArticles DEF DeskInv, IsTable
<1>. QED
    BY <1>1 DEF DeskInv, AllRequestsSound, RequestsSound

LEMMA PagesStay ==
    ASSUME DeskInv, Len(rows') \in Nat, Len(rows) <= Len(rows'), UNCHANGED editor
    PROVE  AllPagesSound'
<1>1. \A e : PageSound(Len(rows), e) => PageSound(Len(rows'), e)
    BY MoreArticles DEF DeskInv, IsTable
<1>. QED
    BY <1>1 DEF DeskInv, AllPagesSound

LEMMA ApprovalsStay ==
    ASSUME DeskInv, NEW p, NEW r, NEW a, Approve(p, r, a)
    PROVE  /\ DOMAIN approved' = 1 .. MaxArticles
           /\ \A b \in 1 .. MaxArticles : approved[b] \subseteq approved'[b]
           /\ a \in 1 .. MaxArticles /\ IsAdmin(p) /\ r.op \in {"create", "update", "submit"}
                => rows'[a].text \in approved'[a]
BY DEF DeskInv, Approve

LEMMA CreateKeeps ==
    ASSUME DeskInv, NEW p \in EditorPages, NEW i \in Places, DeskCreates(p, i), UNCHANGED editor
    PROVE  DeskInv'
<1> DEFINE r == requests[p][i]
           row == Row(UserOf[p], r.text)
           t == [r EXCEPT !.at = "done", !.id = Len(rows'), !.row = rows'[Len(rows')]]
<1>. USE DeskAssumption
<1>1. rows' = Append(rows, row) /\ Len(rows) < MaxArticles /\ Approve(p, r, Len(rows'))
      /\ requests' = [requests EXCEPT ![p][i] = t]
    BY DEF DeskCreates
<1>2. DOMAIN row = RowFields /\ row.status = "draft"
    BY DEF Row, RowFields
<1>3. /\ IsTable(rows') /\ Len(rows') = Len(rows) + 1 /\ rows'[Len(rows) + 1] = row
      /\ \A a \in 1 .. Len(rows) : rows'[a] = rows[a]
    BY <1>1, <1>2, TableGrows DEF DeskInv
<1>. HIDE DEF row
<1>4. /\ Len(rows) \in Nat /\ Len(rows') \in Nat /\ Len(rows) <= Len(rows') /\ Len(rows') <= MaxArticles
      /\ DOMAIN rows' = 1 .. (Len(rows) + 1) /\ DOMAIN rows = 1 .. Len(rows)
    BY <1>1, <1>3 DEF IsTable, DeskInv
<1>5. RequestSound(p, Len(rows'), t)
    <2>1. RequestSound(p, Len(rows), r) /\ r.op = "create"
        BY RequestIsSound DEF DeskCreates
    <2>2. DOMAIN rows'[Len(rows')] = RowFields
        BY <1>2, <1>3
    <2>. HIDE DEF r
    <2>. QED
        BY <1>4, <2>1, <2>2 DEF RequestSound, RequestFields, Ops
<1>. HIDE DEF t
<1>6. AllRequestsSound'
    BY <1>1, <1>4, <1>5, RequestChanges
<1>7. AllPagesSound'
    BY <1>4, PagesStay
<1>8. DOMAIN approved' = 1 .. MaxArticles /\ \A b \in 1 .. MaxArticles : approved[b] \subseteq approved'[b]
    BY <1>1, ApprovalsStay
<1>9. PublishedTextIsApproved'
    <2>1. SUFFICES ASSUME NEW a \in 1 .. Len(rows) + 1, rows'[a].status = "published"
                   PROVE  rows'[a].text \in approved'[a]
        BY <1>4 DEF PublishedTextIsApproved
    <2>2. a \in 1 .. Len(rows) /\ rows'[a] = rows[a] /\ a \in 1 .. MaxArticles
        BY <1>1, <1>2, <1>3, <1>4, <2>1
    <2>3. rows[a].text \in approved[a]
        BY <1>4, <2>1, <2>2 DEF DeskInv, PublishedTextIsApproved
    <2>. QED
        BY <1>8, <2>2, <2>3
<1>. QED
    BY <1>3, <1>4, <1>6, <1>7, <1>8, <1>9 DEF DeskInv

LEMMA ReadKeeps ==
    ASSUME DeskInv, NEW p \in EditorPages, NEW i \in Places, DeskReads(p, i), UNCHANGED editor
    PROVE  DeskInv'
<1> DEFINE r == requests[p][i]
           found == [r EXCEPT !.at = "read", !.row = rows[r.id]]
           refused == [r EXCEPT !.at = "refused"]
           t == IF Permitted(p, r, rows[r.id]) THEN found ELSE refused
<1>1. requests' = [requests EXCEPT ![p][i] = t] /\ UNCHANGED <<rows, approved>> /\ Len(rows') = Len(rows)
    BY DEF DeskReads
<1>2. RequestSound(p, Len(rows), r) /\ Len(rows) \in Nat /\ r.op # "create" /\ r.at = "sent"
    BY RequestIsSound DEF DeskReads
<1>3. r.id \in 1 .. Len(rows) /\ DOMAIN rows[r.id] = RowFields
    <2>. HIDE DEF r
    <2>. QED
        BY <1>2 DEF RequestSound, DeskInv, IsTable
<1>4. RequestSound(p, Len(rows), refused)
    <2>. HIDE DEF r
    <2>. QED
        BY <1>2 DEF RequestSound, RequestFields
<1>5. ASSUME Permitted(p, r, rows[r.id]) PROVE RequestSound(p, Len(rows), found)
    <2>1. r.op = "update" /\ ~IsAdmin(p) => rows[r.id].status \in {"draft", "changes_requested"}
        <3>. HIDE DEF r
        <3>. QED
            BY <1>5 DEF Permitted, MayUpdate
    <2>. HIDE DEF r
    <2>2. /\ DOMAIN found = RequestFields /\ found.at = "read" /\ found.row = rows[r.id]
          /\ found.id = r.id /\ found.op = r.op /\ found.waiters = r.waiters /\ found.then = r.then
        BY <1>2 DEF RequestSound, RequestFields
    <2>. HIDE DEF found
    <2>. QED
        BY <1>2, <1>3, <2>1, <2>2 DEF RequestSound
<1>6. RequestSound(p, Len(rows), t)
    <2>. HIDE DEF found, refused, r
    <2>. QED
        BY <1>4, <1>5
<1>. HIDE DEF t, r, found, refused
<1>7. AllRequestsSound'
    <2>1. RequestSound(p, Len(rows'), t)
        BY <1>1, <1>6
    <2>2. Len(rows') \in Nat /\ Len(rows) <= Len(rows')
        BY <1>1, <1>2
    <2>3. requests' = [requests EXCEPT ![p][i] = t]
        BY <1>1
    <2>. QED
        BY <2>1, <2>2, <2>3, RequestChanges
<1>8. AllPagesSound'
    BY <1>1, <1>2, PagesStay
<1>9. PublishedTextIsApproved'
    BY <1>1 DEF DeskInv, PublishedTextIsApproved
<1>. QED
    BY <1>1, <1>7, <1>8, <1>9 DEF DeskInv

LEMMA WriteKeeps ==
    ASSUME DeskInv, NEW p \in EditorPages, NEW i \in Places, DeskWrites(p, i)
    PROVE  /\ AllRequestsSound' /\ IsTable(rows)' /\ Len(rows') = Len(rows) /\ Len(rows') <= MaxArticles
           /\ DOMAIN approved' = 1 .. MaxArticles /\ PublishedTextIsApproved'
<1> DEFINE r == requests[p][i]
           row == RowWritten(p, r)
           refused == [r EXCEPT !.at = "refused"]
           done == [r EXCEPT !.at = "done", !.row = row]
<1>1. RequestSound(p, Len(rows), r) /\ Len(rows) \in Nat /\ r.at = "read" /\ r.op # "create" /\ r.op \in Ops
    BY RequestIsSound DEF DeskWrites, RequestSound
<1>2. r.id \in 1 .. Len(rows) /\ DOMAIN rows[r.id] = RowFields
    <2>. HIDE DEF r
    <2>. QED
        BY <1>1 DEF RequestSound, DeskInv, IsTable
<1>3. CASE rows[r.id].status = "gone"
    <2>1. requests' = [requests EXCEPT ![p][i] = refused] /\ UNCHANGED <<rows, approved>> /\ Len(rows') = Len(rows)
        BY <1>3 DEF DeskWrites
    <2>2. RequestSound(p, Len(rows), refused)
        <3>. HIDE DEF r
        <3>. QED
            BY <1>1 DEF RequestSound, RequestFields
    <2>. HIDE DEF r, refused
    <2>3. RequestSound(p, Len(rows'), refused) /\ Len(rows') \in Nat /\ Len(rows) <= Len(rows')
        BY <1>1, <2>1, <2>2
    <2>4. AllRequestsSound'
        BY <2>1, <2>3, RequestChanges
    <2>5. PublishedTextIsApproved'
        BY <2>1 DEF DeskInv, PublishedTextIsApproved
    <2>. QED
        BY <2>1, <2>4, <2>5 DEF DeskInv
<1>4. CASE rows[r.id].status # "gone"
    <2>1. rows' = [rows EXCEPT ![r.id] = row] /\ Approve(p, r, r.id) /\ requests' = [requests EXCEPT ![p][i] = done]
        BY <1>4 DEF DeskWrites
    <2>2. DOMAIN row = RowFields /\ (row.status = "published" => IsAdmin(p) /\ r.op \in {"update", "submit"})
        <3>. HIDE DEF r
        <3>. QED
            BY <1>1, <1>2, WrittenSound
    <2>3. RequestSound(p, Len(rows), done)
        <3>. HIDE DEF r, row
        <3>. QED
            BY <1>1, <2>2 DEF RequestSound, RequestFields
    <2>. HIDE DEF row, done
    <2>4. /\ IsTable(rows') /\ Len(rows') = Len(rows) /\ rows'[r.id] = row
          /\ \A b \in 1 .. Len(rows) : b # r.id => rows'[b] = rows[b]
        <3> DEFINE t == [rows EXCEPT ![r.id] = row]
        <3>. HIDE DEF r
        <3>1. IsTable(rows)
            BY DEF DeskInv
        <3>2. /\ IsTable(t) /\ Len(t) = Len(rows) /\ t[r.id] = row
              /\ \A b \in 1 .. Len(rows) : b # r.id => t[b] = rows[b]
            BY <1>2, <2>2, <3>1, TableKeeps
        <3>3. rows' = t
            BY <2>1
        <3>. HIDE DEF t
        <3>. QED
            BY <3>2, <3>3
    <2>5. RequestSound(p, Len(rows'), done) /\ Len(rows') \in Nat /\ Len(rows) <= Len(rows')
        BY <1>1, <2>3, <2>4
    <2>6. AllRequestsSound'
        BY <2>1, <2>5, RequestChanges
    <2>8. DOMAIN approved' = 1 .. MaxArticles /\ \A b \in 1 .. MaxArticles : approved[b] \subseteq approved'[b]
        BY <2>1, ApprovalsStay
    <2>9. DOMAIN rows = 1 .. Len(rows) /\ DOMAIN rows' = 1 .. Len(rows) /\ Len(rows) <= MaxArticles
        BY <2>4 DEF DeskInv, IsTable
    <2>10. PublishedTextIsApproved'
        <3>1. SUFFICES ASSUME NEW a \in 1 .. Len(rows), rows'[a].status = "published"
                       PROVE  rows'[a].text \in approved'[a]
            BY <2>9 DEF PublishedTextIsApproved
        <3>2. a \in 1 .. MaxArticles
            BY <1>1, <2>9, DeskAssumption
        <3>3. CASE a = r.id
            BY <2>1, <2>2, <2>4, <3>1, <3>2, <3>3, ApprovalsStay
        <3>4. CASE a # r.id
            <4>1. rows[a].text \in approved[a]
                BY <2>4, <2>9, <3>1, <3>4 DEF DeskInv, PublishedTextIsApproved
            <4>. QED
                BY <2>4, <2>8, <3>2, <3>4, <4>1
        <3>. QED
            BY <3>3, <3>4
    <2>. QED
        BY <2>4, <2>6, <2>8, <2>9, <2>10
<1>. QED
    BY <1>3, <1>4

------------------------------------------------------------------------------
(* The page.                                                               *)

LEMMA OnlyThePage ==
    ASSUME DeskInv, NEW p \in EditorPages, NEW e, PageSound(Len(rows), e),
           editor' = [editor EXCEPT ![p] = e], UNCHANGED deskVars
    PROVE  DeskInv'
<1>1. AllRequestsSound'
    BY DEF DeskInv, AllRequestsSound, deskVars
<1>2. AllPagesSound'
    BY DEF DeskInv, AllPagesSound, deskVars
<1>3. PublishedTextIsApproved'
    BY DEF DeskInv, PublishedTextIsApproved, deskVars
<1>. QED
    BY <1>1, <1>2, <1>3 DEF DeskInv, deskVars

LEMMA PageOf == ASSUME DeskInv, NEW p \in EditorPages PROVE PageSound(Len(rows), editor[p]) /\ Len(rows) \in Nat
BY PageIsSound DEF StateSound, Now

LEMMA OpenKeeps == ASSUME DeskInv, NEW p \in EditorPages, Open(p) PROVE DeskInv'
<1>1. UNCHANGED deskVars /\ editor[p].at = "closed"
    BY DEF Open
<1>2. CASE editor' = [editor EXCEPT ![p].at = "open"]
    <2>1. PageSound(Len(rows), [editor[p] EXCEPT !.at = "open"])
        BY PageOf DEF PageSound, PageFields
    <2>2. editor' = [editor EXCEPT ![p] = [editor[p] EXCEPT !.at = "open"]]
        BY <1>2
    <2>. QED
        BY <1>1, <2>1, <2>2, OnlyThePage
<1>3. ASSUME NEW a \in DOMAIN rows,
             editor' = [editor EXCEPT ![p] = [NewPage EXCEPT !.at = "open", !.id = a, !.copy = rows[a],
                                                             !.text = rows[a].text]]
      PROVE  DeskInv'
    <2>1. a \in 0 .. Len(rows)
        BY <1>3 DEF DeskInv, IsTable
    <2>2. PageSound(Len(rows), [NewPage EXCEPT !.at = "open", !.id = a, !.copy = rows[a], !.text = rows[a].text])
        BY <2>1 DEF PageSound, PageFields, NewPage
    <2>. QED
        BY <1>1, <1>3, <2>2, OnlyThePage
<1>. QED
    BY <1>2, <1>3 DEF Open

LEMMA TypeTextKeeps == ASSUME DeskInv, NEW p \in EditorPages, TypeText(p) PROVE DeskInv'
<1> DEFINE e == editor[p]
<1>1. PICK text : editor' = [editor EXCEPT ![p] = [e EXCEPT !.text = text, !.edit = edits', !.dirty = TRUE,
                               !.timer = TRUE, !.pressed = IF @ = {} THEN {} ELSE @ \cup {text}]]
    BY DEF TypeText
<1> DEFINE f == [e EXCEPT !.text = text, !.edit = edits', !.dirty = TRUE, !.timer = TRUE,
                          !.pressed = IF @ = {} THEN {} ELSE @ \cup {text}]
<1>2. PageSound(Len(rows), f)
    <2>. PageSound(Len(rows), e)
        BY PageOf
    <2>. HIDE DEF e
    <2>. QED
        BY DEF PageSound, PageFields
<1>3. editor' = [editor EXCEPT ![p] = f] /\ UNCHANGED deskVars
    BY <1>1 DEF TypeText
<1>. HIDE DEF f
<1>. QED
    BY <1>2, <1>3, OnlyThePage

\* A save that the timer, the keyboard, a button or leaving asks for.
LEMMA AskedSaveKeeps ==
    ASSUME DeskInv, NEW p \in EditorPages, NEW s, StateSound(p, Len(rows), s), NEW then, ThenSound(then)
    PROVE  StateSound(p, Len(rows), save(p, s, then))
<1>1. Len(rows) \in Nat
    BY PageOf
<1>. QED
    BY <1>1, SaveSound

LEMMA SavesKeep == ASSUME DeskInv, NEW p \in EditorPages, TimerFires(p) \/ SaveKeys(p) PROVE DeskInv'
<1>1. PutPage(p, save(p, Now(p), NoThen)) /\ UNCHANGED <<rows, approved>>
    BY DEF TimerFires, SaveKeys
<1>2. StateSound(p, Len(rows), save(p, Now(p), NoThen))
    BY PageIsSound, AskedSaveKeeps DEF ThenSound
<1>. QED
    BY <1>1, <1>2, PageKeeps

LEMMA ActKeeps == ASSUME DeskInv, NEW p \in EditorPages, Act(p) PROVE DeskInv'
<1> DEFINE s == Now(p)
           t == [s EXCEPT !.page.pressed = {s.page.text}]
<1>1. PICK op \in PanelOffers(p, s.page), time \in {"none", "later"} :
          PutPage(p, save(p, t, <<op, time>>)) /\ UNCHANGED <<rows, approved>>
    BY DEF Act
<1>2. ThenSound(<<op, time>>)
    <2>1. op \in {"submit", "requestChanges", "withdraw"}
        BY DEF PanelOffers
    <2>. QED
        BY <2>1 DEF ThenSound
<1>3. StateSound(p, Len(rows), t)
    <2>1. StateSound(p, Len(rows), s)
        BY PageIsSound
    <2>. HIDE DEF s
    <2>. QED
        BY <2>1 DEF StateSound, PageSound, PageFields
<1>. HIDE DEF t
<1>. QED
    BY <1>1, <1>2, <1>3, AskedSaveKeeps, PageKeeps

LEMMA ConfirmDeleteKeeps == ASSUME DeskInv, NEW p \in EditorPages, ConfirmDelete(p) PROVE DeskInv'
<1> DEFINE e == editor[p]
           s == Now(p)
           r == [NoRequest EXCEPT !.at = "sent", !.op = "remove", !.id = e.id]
           t == Send(s, r)
           u == [page |-> [t.page EXCEPT !.busy = TRUE], reqs |-> t.reqs]
<1>1. PutPage(p, u) /\ UNCHANGED <<rows, approved>> /\ e.id # 0
    BY DEF ConfirmDelete
<1>2. RequestSound(p, Len(rows), r)
    <2>. Len(rows) \in Nat /\ e.id \in 1 .. Len(rows)
        BY <1>1, PageOf DEF PageSound
    <2>. HIDE DEF e
    <2>. QED
        BY DEF RequestSound, NoRequest, RequestFields, RowFields, ThenSound, NoThen, NoRow, Row, Ops
<1>. HIDE DEF r
<1>3. StateSound(p, Len(rows), s) /\ Len(rows) \in Nat
    BY PageIsSound
<1>. HIDE DEF s
<1>4. RequestsSound(p, Len(rows), t.reqs) /\ PageSound(Len(rows), t.page)
    BY <1>2, <1>3, SendSound
<1>. HIDE DEF t
<1>5. StateSound(p, Len(rows), u)
    BY <1>4 DEF StateSound, PageSound, PageFields
<1>. HIDE DEF u
<1>. QED
    BY <1>1, <1>5, PageKeeps

LEMMA LeaveKeeps == ASSUME DeskInv, NEW p \in EditorPages, Leave(p) PROVE DeskInv'
<1> DEFINE s == Now(p)
           t == IF s.page.dirty \/ saving(s.page) THEN save(p, s, NoThen) ELSE s
           u == [t EXCEPT !.page.at = "left", !.page.timer = FALSE]
<1>1. PutPage(p, u) /\ UNCHANGED <<rows, approved>>
    BY DEF Leave
<1>2. StateSound(p, Len(rows), s) /\ StateSound(p, Len(rows), save(p, s, NoThen))
    BY PageIsSound, AskedSaveKeeps DEF ThenSound
<1>3. StateSound(p, Len(rows), t)
    <2>. HIDE DEF s
    <2>. QED
        BY <1>2
<1>. HIDE DEF t
<1>4. StateSound(p, Len(rows), u)
    BY <1>3 DEF StateSound, PageSound, PageFields
<1>. HIDE DEF u
<1>. QED
    BY <1>1, <1>4, PageKeeps

LEMMA SaveEndsKeeps ==
    ASSUME DeskInv, NEW p \in EditorPages, NEW i \in Places, NEW ok \in BOOLEAN, SaveEnds(p, i, ok)
    PROVE  DeskInv'
<1> DEFINE r == requests[p][i]
           answered == IF ok THEN SaveAccepted(editor[p], r) ELSE [editor[p] EXCEPT !.saveError = TRUE]
           e == [answered EXCEPT !.inFlight = 0]
           again == e.dirty /\ ~e.saveError
           after == [e EXCEPT !.timer = @ \/ again]
           reqs == [requests[p] EXCEPT ![i] = NoRequest]
           s == [page |-> after, reqs |-> reqs]
<1>1. PutPage(p, Run(Woken(p, s, r.waiters), r.then)) /\ UNCHANGED <<rows, approved>>
    BY DEF SaveEnds
<1>2. /\ Len(rows) \in Nat /\ RequestSound(p, Len(rows), r) /\ PageSound(Len(rows), editor[p])
      /\ RequestsSound(p, Len(rows), requests[p])
    BY RequestIsSound, PageOf DEF DeskInv, AllRequestsSound
<1>3. PageSound(Len(rows), answered)
    <2>. HIDE DEF r
    <2>. QED
        BY <1>2 DEF PageSound, PageFields, SaveAccepted, RequestSound
<1>. HIDE DEF answered
<1>4. PageSound(Len(rows), e)
    BY <1>3 DEF PageSound, PageFields
<1>. HIDE DEF e
<1>5. PageSound(Len(rows), after)
    BY <1>4 DEF PageSound, PageFields
<1>. HIDE DEF after
<1>6. RequestsSound(p, Len(rows), reqs)
    BY <1>2, NoRequestSound DEF RequestsSound
<1>. HIDE DEF reqs
<1>7. StateSound(p, Len(rows), s)
    BY <1>5, <1>6 DEF StateSound
<1>8. r.waiters \in Nat /\ ThenSound(r.then)
    BY <1>2 DEF RequestSound
<1>. HIDE DEF s, r
<1>9. StateSound(p, Len(rows), Woken(p, s, r.waiters))
    BY <1>2, <1>7, <1>8, WokenSound
<1>10. StateSound(p, Len(rows), Run(Woken(p, s, r.waiters), r.then))
    BY <1>2, <1>8, <1>9, RunSound
<1>. QED
    BY <1>1, <1>10, PageKeeps

LEMMA RunEndsKeeps ==
    ASSUME DeskInv, NEW p \in EditorPages, NEW i \in Places, NEW ok \in BOOLEAN, RunEnds(p, i, ok)
    PROVE  DeskInv'
<1> DEFINE r == requests[p][i]
           e == [editor[p] EXCEPT !.busy = FALSE]
           after == IF ~ok THEN e
                    ELSE IF r.op = "remove" THEN [e EXCEPT !.dirty = FALSE, !.timer = FALSE, !.at = "left"]
                    ELSE [e EXCEPT !.copy = r.row]
           reqs == [requests[p] EXCEPT ![i] = NoRequest]
           s == [page |-> after, reqs |-> reqs]
<1>1. PutPage(p, s) /\ UNCHANGED <<rows, approved>>
    BY DEF RunEnds
<1>2. Len(rows) \in Nat /\ PageSound(Len(rows), editor[p]) /\ RequestsSound(p, Len(rows), requests[p])
    BY PageOf DEF DeskInv, AllRequestsSound
<1>3. PageSound(Len(rows), e)
    BY <1>2 DEF PageSound, PageFields
<1>4. PageSound(Len(rows), after)
    <2>. HIDE DEF e, r
    <2>. QED
        BY <1>3 DEF PageSound, PageFields
<1>. HIDE DEF after
<1>5. RequestsSound(p, Len(rows), reqs)
    BY <1>2, NoRequestSound DEF RequestsSound
<1>. HIDE DEF reqs
<1>6. StateSound(p, Len(rows), s)
    BY <1>4, <1>5 DEF StateSound
<1>. HIDE DEF s
<1>. QED
    BY <1>1, <1>6, PageKeeps

\* Someone else's write is noted on a page, and changes nothing else there.
LEMMA ServeKeeps == ASSUME DeskInv, Serve PROVE DeskInv'
<1>1. CASE ClockReaches /\ UNCHANGED editor
    BY <1>1 DEF ClockReaches, DeskInv, AllRequestsSound, AllPagesSound, PublishedTextIsApproved
<1>2. ASSUME NEW p \in EditorPages, NEW i \in Places, DeskCreates(p, i) \/ DeskReads(p, i), UNCHANGED editor
      PROVE  DeskInv'
    BY <1>2, CreateKeeps, ReadKeeps
<1>3. ASSUME NEW p \in EditorPages, NEW i \in Places, DeskWrites(p, i),
             editor' = [q \in EditorPages |->
                           IF requests[p][i].id \notin {editor[q].id} \cup {requests[q][j].id : j \in Places} \/ rows' = rows
                           THEN editor[q]
                           ELSE [editor[q] EXCEPT !.others = IF q # p THEN TRUE
                                                             ELSE @ /\ requests[p][i].op # "update"]]
      PROVE  DeskInv'
    <2>1. AllRequestsSound' /\ IsTable(rows)' /\ Len(rows') = Len(rows) /\ Len(rows') <= MaxArticles
          /\ DOMAIN approved' = 1 .. MaxArticles /\ PublishedTextIsApproved'
        BY <1>3, WriteKeeps
    <2>2. AllPagesSound'
        <3>1. SUFFICES ASSUME NEW q \in EditorPages PROVE PageSound(Len(rows), editor'[q])
            BY <1>3, <2>1 DEF AllPagesSound
        <3>2. PageSound(Len(rows), editor[q])
            BY PageOf
        <3>3. \/ editor'[q] = editor[q]
              \/ \E b : editor'[q] = [editor[q] EXCEPT !.others = b]
            BY <1>3
        <3>. QED
            BY <3>2, <3>3 DEF PageSound, PageFields
    <2>. QED
        BY <2>1, <2>2 DEF DeskInv
<1>. QED
    BY <1>1, <1>2, <1>3 DEF Serve

------------------------------------------------------------------------------

LEMMA DeskInitially == ASSUME EditorInit PROVE DeskInv
<1>1. rows = <<>> /\ Len(rows) = 0 /\ IsTable(rows)
    BY DEF EditorInit, IsTable
<1>2. AllRequestsSound
    BY <1>1, NoRequestSound DEF EditorInit, AllRequestsSound, RequestsSound
<1>3. AllPagesSound
    BY <1>1 DEF EditorInit, AllPagesSound, PageSound, PageFields, NewPage
<1>. QED
    BY <1>1, <1>2, <1>3, DeskAssumption DEF EditorInit, DeskInv, PublishedTextIsApproved

LEMMA DeskStep == ASSUME DeskInv, [EditorNext]_editorVars PROVE DeskInv'
<1>1. CASE UNCHANGED editorVars
    BY <1>1 DEF editorVars, deskVars, DeskInv, AllRequestsSound, AllPagesSound, PublishedTextIsApproved
<1>2. CASE Serve
    BY <1>2, ServeKeeps
<1>3. ASSUME NEW p \in EditorPages, Open(p) PROVE DeskInv'
    BY <1>3, OpenKeeps
<1>4. ASSUME NEW p \in EditorPages, TypeText(p) PROVE DeskInv'
    BY <1>4, TypeTextKeeps
<1>5. ASSUME NEW p \in EditorPages, TimerFires(p) \/ SaveKeys(p) PROVE DeskInv'
    BY <1>5, SavesKeep
<1>6. ASSUME NEW p \in EditorPages, Act(p) PROVE DeskInv'
    BY <1>6, ActKeeps
<1>7. ASSUME NEW p \in EditorPages, ConfirmDelete(p) PROVE DeskInv'
    BY <1>7, ConfirmDeleteKeeps
<1>8. ASSUME NEW p \in EditorPages, Leave(p) PROVE DeskInv'
    BY <1>8, LeaveKeeps
<1>9. ASSUME NEW p \in EditorPages, NEW i \in Places, NEW ok \in BOOLEAN, SaveEnds(p, i, ok) PROVE DeskInv'
    BY <1>9, SaveEndsKeeps
<1>10. ASSUME NEW p \in EditorPages, NEW i \in Places, NEW ok \in BOOLEAN, RunEnds(p, i, ok) PROVE DeskInv'
    BY <1>10, RunEndsKeeps
<1>. QED
    BY <1>1, <1>2, <1>3, <1>4, <1>5, <1>6, <1>7, <1>8, <1>9, <1>10 DEF EditorNext

\* What readers can read, or will when its time comes, an administrator wrote
\* or published, however the desk's requests interleave: a request writes back
\* the row it read earlier (article_service.go, Update, Submit), but a
\* writer's text goes only into a row that was read as the writer's to change.
THEOREM PublishedIsApproved == EditorSpec => []PublishedTextIsApproved
<1>1. EditorInit => DeskInv
    BY DeskInitially
<1>2. DeskInv /\ [EditorNext]_editorVars => DeskInv'
    BY DeskStep
<1>3. DeskInv => PublishedTextIsApproved
    BY DEF DeskInv
<1>. QED
    BY <1>1, <1>2, <1>3, PTL DEF EditorSpec

------------------------------------------------------------------------------
(* What is handed on.                                                      *)

SaveOps == {"create", "update"}

\* A save under way carries the text on the screen, or an earlier one; what it
\* will hand on was on the screen since the button.
SavesTell(e, reqs) ==
    \A i \in UnderWay(reqs) :
        reqs[i].op \in SaveOps =>
            /\ e.inFlight = i /\ e.dirty
            /\ reqs[i].edit = e.edit => reqs[i].text = e.text
            /\ reqs[i].then[1] = "submit" => reqs[i].text \in e.pressed

\* The page knows the text that the service has in its table.
Told(table, e, reqs) ==
    /\ ~e.dirty /\ e.id # 0 => table[e.id].text = e.text
    /\ \A i \in UnderWay(reqs) :
          /\ reqs[i].op \in SaveOps /\ reqs[i].at = "done" => table[reqs[i].id].text = reqs[i].text
          /\ reqs[i].op # "create" /\ reqs[i].at = "read" => reqs[i].row.text = table[reqs[i].id].text
          /\ reqs[i].op = "submit" /\ reqs[i].at \in {"sent", "read"} => table[reqs[i].id].text \in reqs[i].seen

\* Unless two requests of the page were under way at once there is one at most,
\* about the article of the page; and unless someone else wrote the article the
\* page knows its text.
Tracked(table, e, reqs) ==
    \/ e.crossed
    \/ /\ \A i, j \in UnderWay(reqs) : i = j
       /\ \A i \in UnderWay(reqs) : reqs[i].op # "create" => reqs[i].id = e.id
       /\ SavesTell(e, reqs)
       /\ e.others \/ Told(table, e, reqs)

\* Every edit is known, and a page that is closed has nothing under way.
EditsKnown(n, e, reqs) ==
    /\ e.edit \in 0 .. n /\ \A i \in Places : reqs[i].edit \in 0 .. n
    /\ e.at = "closed" => ~e.timer /\ UnderWay(reqs) = {}

StateTracked(s) == Tracked(rows, s.page, s.reqs) /\ EditsKnown(edits, s.page, s.reqs)

LEMMA SomePlace == Min(Places) \in Places /\ 0 \notin Places
<1>1. PICK x \in Places : \A y \in Places : x <= y
    BY LeastElement, DeskAssumption
<1>. QED
    BY <1>1, DeskAssumption DEF Min

\* What was sent is all that is under way.
Alone(t, r) == t.place \in Places /\ UnderWay(t.reqs) = {t.place} /\ t.reqs[t.place] = r

\* What sending a request makes of the places.
LEMMA SendDoes ==
    ASSUME NEW s, DOMAIN s.reqs = Places, NEW r, r.at = "sent"
    PROVE  UnderWay(Send(s, r).reqs) # {} /\ (UnderWay(s.reqs) = {} => Alone(Send(s, r), r))
<1>0. PICK t : t = Send(s, r)
    OBVIOUS
<1>1. /\ t.page = [s.page EXCEPT !.crossed = UnderWay(s.reqs) # {} \/ (s.page.crossed /\ r.op # "update")]
      /\ t.place = Min(Places \ UnderWay(s.reqs)) /\ t.reqs = [s.reqs EXCEPT ![t.place] = r]
    BY <1>0 DEF Send
<1>2. ASSUME UnderWay(s.reqs) = {}
      PROVE  t.place \in Places /\ UnderWay(t.reqs) = {t.place} /\ t.reqs[t.place] = r
    <2>1. t.place \in Places
        BY <1>1, <1>2, SomePlace
    <2>2. t.reqs[t.place] = r /\ \A i \in Places : i # t.place => t.reqs[i].at = "none"
        BY <1>1, <1>2, <2>1 DEF UnderWay
    <2>. QED
        BY <2>1, <2>2 DEF UnderWay
<1>3. ASSUME UnderWay(s.reqs) # {} PROVE UnderWay(t.reqs) # {}
    BY <1>1, <1>3 DEF UnderWay
<1>. QED
    BY <1>0, <1>1, <1>2, <1>3 DEF Alone

\* A request that is sent keeps the page tracked, if it says what it must.
LEMMA SentTracked ==
    ASSUME NEW p, Len(rows) \in Nat, NEW s, StateSound(p, Len(rows), s), StateTracked(s), s.page.at # "closed",
           NEW r, RequestSound(p, Len(rows), r), r.at = "sent", r.edit \in 0 .. edits,
           NEW u, u.reqs = Send(s, r).reqs, u.page.crossed = Send(s, r).page.crossed,
           u.page.id = s.page.id, u.page.text = s.page.text, u.page.edit = s.page.edit, u.page.dirty = s.page.dirty,
           u.page.others = s.page.others, u.page.at = s.page.at,
           r.op # "create" => r.id = s.page.id,
           r.op \in SaveOps => /\ s.page.dirty /\ r.text = s.page.text /\ u.page.inFlight = Send(s, r).place
                               /\ r.then[1] = "submit" => r.text \in u.page.pressed,
           r.op = "submit" /\ UnderWay(s.reqs) = {} /\ ~s.page.crossed /\ ~s.page.others => rows[r.id].text \in r.seen
    PROVE  StateTracked(u) /\ UnderWay(u.reqs) # {}
<1>. DOMAIN s.reqs = Places
    BY DEF StateSound, RequestsSound
<1>0. PICK t : t = Send(s, r)
    OBVIOUS
<1>. u.reqs = t.reqs /\ u.page.crossed = t.page.crossed
    BY <1>0
<1>1. /\ t.page = [s.page EXCEPT !.crossed = UnderWay(s.reqs) # {} \/ (s.page.crossed /\ r.op # "update")]
      /\ t.reqs = [s.reqs EXCEPT ![t.place] = r]
      /\ UnderWay(t.reqs) # {}
      /\ UnderWay(s.reqs) = {} => t.place \in Places /\ UnderWay(t.reqs) = {t.place} /\ t.reqs[t.place] = r
    <2>1. UnderWay(t.reqs) # {}
        BY <1>0, SendDoes
    <2>2. UnderWay(s.reqs) = {} => Alone(t, r)
        BY <1>0, SendDoes
    <2>3. /\ t.page = [s.page EXCEPT !.crossed = UnderWay(s.reqs) # {} \/ (s.page.crossed /\ r.op # "update")]
          /\ t.reqs = [s.reqs EXCEPT ![t.place] = r]
        BY <1>0 DEF Send
    <2>. QED
        BY <2>1, <2>2, <2>3 DEF Alone
<1>2. EditsKnown(edits, u.page, u.reqs)
    BY <1>1 DEF EditsKnown, StateTracked, StateSound, RequestsSound
<1>3. u.page.crossed = (UnderWay(s.reqs) # {} \/ (s.page.crossed /\ r.op # "update"))
    BY <1>1 DEF StateSound, PageSound, PageFields
<1>4. ASSUME ~u.page.crossed PROVE Tracked(rows, u.page, u.reqs)
    <2>1. UnderWay(u.reqs) = {t.place} /\ u.reqs[t.place] = r /\ UnderWay(s.reqs) = {}
        BY <1>1, <1>3, <1>4
    <2>2. SavesTell(u.page, u.reqs)
        BY <1>0, <2>1 DEF SavesTell
    <2>3. s.page.others \/ s.page.dirty \/ s.page.id = 0 \/ rows[s.page.id].text = s.page.text
        BY <1>3, <1>4, <2>1 DEF StateTracked, Tracked, Told, SaveOps
    <2>4. r.op = "submit" /\ ~s.page.others => rows[r.id].text \in r.seen
        BY <1>3, <1>4, <2>1
    <2>5. u.page.others \/ Told(rows, u.page, u.reqs)
        BY <2>1, <2>3, <2>4 DEF Told
    <2>. QED
        BY <2>1, <2>2, <2>5 DEF Tracked
<1>5. Tracked(rows, u.page, u.reqs)
    BY <1>4 DEF Tracked
<1>. QED
    BY <1>1, <1>2, <1>5 DEF StateTracked

\* What would be handed on now was on the screen since the button.
StoredIsPressed(s) ==
    s.page.id # 0 /\ ~s.page.saveError /\ UnderWay(s.reqs) = {} /\ ~s.page.crossed /\ ~s.page.others =>
        rows[s.page.id].text \in s.page.pressed

\* Submitting and the like, once the text is saved.
LEMMA RunTracked ==
    ASSUME NEW p, Len(rows) \in Nat, edits \in Nat, NEW s, StateSound(p, Len(rows), s), StateTracked(s),
           s.page.at # "closed", NEW then, ThenSound(then),
           then[1] = "submit" => StoredIsPressed(s)
    PROVE  StateTracked(Run(s, then)) /\ Run(s, then).page.at = s.page.at
<1> DEFINE r == [NoRequest EXCEPT !.at = "sent", !.op = then[1], !.time = then[2], !.id = s.page.id,
                                  !.seen = s.page.pressed]
           t == Send(s, r)
           u == [page |-> [t.page EXCEPT !.busy = TRUE, !.pressed = {}], reqs |-> t.reqs]
<1>1. CASE Run(s, then) = s
    BY <1>1
<1>2. CASE then # NoThen /\ s.page.id # 0 /\ ~s.page.saveError /\ Run(s, then) = u
    <2>. s.page.id \in 1 .. Len(rows)
        BY <1>2 DEF StateSound, PageSound
    <2>1. /\ RequestSound(p, Len(rows), r) /\ r.at = "sent" /\ r.edit = 0 /\ r.id = s.page.id /\ r.op = then[1]
          /\ r.seen = s.page.pressed /\ r.op \in {"submit", "requestChanges", "withdraw"}
        BY <1>2 DEF RequestSound, NoRequest, RequestFields, RowFields, ThenSound, NoThen, NoRow, Row, Ops
    <2>. HIDE DEF r
    <2>2. /\ t.page = [s.page EXCEPT !.crossed = UnderWay(s.reqs) # {} \/ (s.page.crossed /\ r.op # "update")]
          /\ DOMAIN s.page = PageFields
        BY DEF Send, StateSound, PageSound
    <2>. HIDE DEF t
    <2>3. /\ u.reqs = t.reqs /\ u.page.crossed = t.page.crossed
          /\ u.page.id = s.page.id /\ u.page.text = s.page.text /\ u.page.edit = s.page.edit
          /\ u.page.dirty = s.page.dirty /\ u.page.others = s.page.others /\ u.page.at = s.page.at
        BY <2>2 DEF PageFields
    <2>4. r.op \notin SaveOps
        BY <2>1 DEF SaveOps
    <2>5. r.edit \in 0 .. edits
        BY <2>1
    <2>6. u.reqs = Send(s, r).reqs /\ u.page.crossed = Send(s, r).page.crossed
        BY <2>3 DEF t
    <2>7. r.op = "submit" /\ UnderWay(s.reqs) = {} /\ ~s.page.crossed /\ ~s.page.others => rows[r.id].text \in r.seen
        BY <1>2, <2>1 DEF StoredIsPressed
    <2>. HIDE DEF u
    <2>8. StateTracked(u)
        BY <2>1, <2>3, <2>4, <2>5, <2>6, <2>7, SentTracked
    <2>. QED
        BY <1>2, <2>3, <2>8
<1>. QED
    BY <1>1, <1>2 DEF Run

\* A blank page has nothing under way.
NotBlank(s) == s.page.crossed \/ UnderWay(s.reqs) = {} \/ s.page.id # 0 \/ s.page.text # 0

\* Unless something was sent, what was said of the page still stands.
Undisturbed(s, t) ==
    /\ t.page.at = s.page.at /\ NotBlank(t)
    /\ \/ UnderWay(t.reqs) # {}
       \/ /\ UnderWay(s.reqs) = {} /\ t.page.id = s.page.id /\ t.page.pressed = s.page.pressed
          /\ t.page.others = s.page.others /\ t.page.saveError = s.page.saveError
          /\ t.page.crossed = s.page.crossed

LEMMA SaveNowTracked ==
    ASSUME NEW p, Len(rows) \in Nat, edits \in Nat, NEW s, StateSound(p, Len(rows), s), StateTracked(s),
           s.page.at # "closed", NotBlank(s), NEW then, ThenSound(then),
           then[1] = "submit" => canEdit(p, s.page) /\ s.page.text \in s.page.pressed
    PROVE  /\ StateTracked(SaveNow(p, s, then)) /\ SaveNow(p, s, then).page.at = s.page.at
           /\ then = NoThen => Undisturbed(s, SaveNow(p, s, then))
<1> DEFINE e == s.page
           r == [NoRequest EXCEPT !.at = "sent", !.op = IF s.page.id = 0 THEN "create" ELSE "update",
                                  !.id = s.page.id, !.text = s.page.text, !.edit = s.page.edit, !.then = then]
           t == Send(s, r)
           u == [page |-> [t.page EXCEPT !.inFlight = t.place, !.saveError = FALSE], reqs |-> t.reqs]
           clean == [s EXCEPT !.page.dirty = FALSE]
<1>1. CASE (~e.dirty \/ ~canEdit(p, e)) /\ SaveNow(p, s, then) = Run(s, then)
    <2>1. then[1] = "submit" => StoredIsPressed(s)
        BY <1>1 DEF StoredIsPressed, StateTracked, Tracked, Told
    <2>2. then = NoThen => Run(s, then) = s
        BY DEF Run
    <2>3. Undisturbed(s, s)
        BY DEF Undisturbed
    <2>. QED
        BY <1>1, <2>1, <2>2, <2>3, RunTracked
<1>2. CASE e.id = 0 /\ e.text = 0 /\ SaveNow(p, s, then) = Run(clean, then)
    <2>1. DOMAIN s = {"page", "reqs"} /\ DOMAIN s.page = PageFields
        BY DEF StateSound, PageSound
    <2>2. /\ clean.reqs = s.reqs /\ clean.page.id = 0 /\ clean.page.crossed = e.crossed /\ clean.page.edit = e.edit
          /\ clean.page.timer = e.timer
          /\ clean.page.at = e.at /\ clean.page.pressed = e.pressed /\ clean.page.others = e.others
          /\ clean.page.saveError = e.saveError
        BY <1>2, <2>1 DEF PageFields
    <2>. HIDE DEF clean
    <2>3. Run(clean, then) = clean
        BY <2>2 DEF Run
    <2>4. e.crossed \/ UnderWay(s.reqs) = {}
        BY <1>2 DEF NotBlank
    <2>5. StateTracked(clean)
        <3>1. EditsKnown(edits, clean.page, clean.reqs)
            BY <2>2 DEF StateTracked, EditsKnown
        <3>2. Tracked(rows, clean.page, clean.reqs)
            BY <2>2, <2>4 DEF Tracked, SavesTell, Told
        <3>. QED
            BY <3>1, <3>2 DEF StateTracked
    <2>6. Undisturbed(s, clean)
        <3>1. NotBlank(clean)
            BY <2>2, <2>4 DEF NotBlank
        <3>. QED
            BY <1>2, <2>2, <3>1 DEF Undisturbed
    <2>. QED
        BY <1>2, <2>2, <2>3, <2>5, <2>6
<1>3. CASE e.dirty /\ (e.id # 0 \/ e.text # 0) /\ SaveNow(p, s, then) = u
    <2>. s.page.id \in 0 .. Len(rows)
        BY DEF StateSound, PageSound
    <2>1. /\ RequestSound(p, Len(rows), r) /\ r.at = "sent" /\ r.edit = s.page.edit /\ r.id = s.page.id
          /\ r.text = s.page.text /\ r.then = then /\ r.op \in SaveOps
        BY DEF RequestSound, NoRequest, RequestFields, RowFields, ThenSound, NoThen, NoRow, Row, Ops, SaveOps
    <2>. HIDE DEF r
    <2>2. /\ t.page = [s.page EXCEPT !.crossed = UnderWay(s.reqs) # {} \/ (s.page.crossed /\ r.op # "update")]
          /\ DOMAIN s.page = PageFields
        BY DEF Send, StateSound, PageSound
    <2>. HIDE DEF t
    <2>3. /\ u.reqs = t.reqs /\ u.page.crossed = t.page.crossed /\ u.page.inFlight = t.place
          /\ u.page.id = s.page.id /\ u.page.text = s.page.text /\ u.page.edit = s.page.edit
          /\ u.page.dirty = s.page.dirty /\ u.page.others = s.page.others /\ u.page.at = s.page.at
          /\ u.page.pressed = s.page.pressed
        BY <2>2 DEF PageFields
    <2>4. r.edit \in 0 .. edits
        BY <2>1 DEF StateTracked, EditsKnown
    <2>5. u.reqs = Send(s, r).reqs /\ u.page.crossed = Send(s, r).page.crossed /\ u.page.inFlight = Send(s, r).place
        BY <2>3 DEF t
    <2>6. r.op \in SaveOps => /\ s.page.dirty /\ r.text = s.page.text /\ u.page.inFlight = Send(s, r).place
                              /\ r.then[1] = "submit" => r.text \in u.page.pressed
        BY <1>3, <2>1, <2>3, <2>5
    <2>7. r.op # "submit"
        BY <2>1 DEF SaveOps
    <2>. HIDE DEF u
    <2>8. StateTracked(u) /\ UnderWay(u.reqs) # {}
        BY <2>1, <2>3, <2>4, <2>5, <2>6, <2>7, SentTracked
    <2>9. Undisturbed(s, u)
        BY <1>3, <2>3, <2>8 DEF Undisturbed, NotBlank
    <2>. QED
        BY <1>3, <2>3, <2>8, <2>9
<1>. QED
    BY <1>1, <1>2, <1>3 DEF SaveNow

\* The same requests, but for those that wait, of the same page.
SameRequests(s, t) ==
    /\ UnderWay(t.reqs) = UnderWay(s.reqs)
    /\ \A i \in Places :
          LET r == s.reqs[i]
              k == t.reqs[i]
          IN  /\ k.op = r.op /\ k.at = r.at /\ k.id = r.id /\ k.edit = r.edit /\ k.text = r.text
              /\ k.then = r.then /\ k.row = r.row /\ k.seen = r.seen

SameEdits(e, f) ==
    /\ f.crossed = e.crossed /\ f.id = e.id /\ f.dirty = e.dirty /\ f.edit = e.edit /\ f.text = e.text
    /\ f.others = e.others /\ f.inFlight = e.inFlight

LEMMA StillTracked ==
    ASSUME NEW s, StateTracked(s), NEW t, SameRequests(s, t), SameEdits(s.page, t.page), t.page.at # "closed",
           t.page.pressed = s.page.pressed \/ t.page.inFlight = 0
    PROVE  StateTracked(t)
<1>1. EditsKnown(edits, t.page, t.reqs)
    BY DEF StateTracked, EditsKnown, SameRequests, SameEdits
<1>2. ASSUME ~t.page.crossed PROVE Tracked(rows, t.page, t.reqs)
    <2>1. /\ \A i, j \in UnderWay(s.reqs) : i = j
          /\ \A i \in UnderWay(s.reqs) : s.reqs[i].op # "create" => s.reqs[i].id = s.page.id
          /\ SavesTell(s.page, s.reqs)
          /\ s.page.others \/ Told(rows, s.page, s.reqs)
        BY <1>2 DEF StateTracked, Tracked, SameEdits
    <2>2. UnderWay(t.reqs) \subseteq Places
        BY DEF UnderWay
    <2>3. SavesTell(t.page, t.reqs)
        <3>1. SUFFICES ASSUME NEW i \in UnderWay(t.reqs), t.reqs[i].op \in SaveOps
                       PROVE  /\ t.page.inFlight = i /\ t.page.dirty
                              /\ t.reqs[i].edit = t.page.edit => t.reqs[i].text = t.page.text
                              /\ t.reqs[i].then[1] = "submit" => t.reqs[i].text \in t.page.pressed
            BY DEF SavesTell
        <3>2. /\ i \in UnderWay(s.reqs) /\ i # 0
              /\ t.reqs[i].op = s.reqs[i].op /\ t.reqs[i].edit = s.reqs[i].edit /\ t.reqs[i].text = s.reqs[i].text
              /\ t.reqs[i].then = s.reqs[i].then
            BY <2>2, <3>1, SomePlace DEF SameRequests
        <3>3. /\ s.page.inFlight = i /\ s.page.dirty
              /\ s.reqs[i].edit = s.page.edit => s.reqs[i].text = s.page.text
              /\ s.reqs[i].then[1] = "submit" => s.reqs[i].text \in s.page.pressed
            BY <2>1, <3>1, <3>2 DEF SavesTell
        <3>. QED
            BY <3>2, <3>3 DEF SameEdits
    <2>4. Told(rows, s.page, s.reqs) => Told(rows, t.page, t.reqs)
        <3>1. ~t.page.dirty /\ t.page.id # 0 => ~s.page.dirty /\ s.page.id # 0
            BY DEF SameEdits
        <3>2. ASSUME NEW i \in UnderWay(t.reqs)
              PROVE  /\ i \in UnderWay(s.reqs) /\ t.reqs[i].op = s.reqs[i].op /\ t.reqs[i].at = s.reqs[i].at
                     /\ t.reqs[i].id = s.reqs[i].id /\ t.reqs[i].text = s.reqs[i].text
                     /\ t.reqs[i].row = s.reqs[i].row /\ t.reqs[i].seen = s.reqs[i].seen
            BY <2>2, <3>2 DEF SameRequests
        <3>. QED
            BY <3>1, <3>2 DEF Told, SameEdits
    <2>. QED
        BY <2>1, <2>2, <2>3, <2>4 DEF Tracked, SameRequests, SameEdits
<1>. QED
    BY <1>1, <1>2 DEF StateTracked, Tracked

\* A page that saves nothing has no save under way.
LEMMA NothingSaved ==
    ASSUME NEW s, StateTracked(s), s.page.inFlight = 0, ~s.page.crossed
    PROVE  \A i \in UnderWay(s.reqs) : s.reqs[i].op \notin SaveOps
BY DeskAssumption DEF StateTracked, Tracked, SavesTell, UnderWay

LEMMA SaveTracked ==
    ASSUME NEW p, Len(rows) \in Nat, edits \in Nat, NEW s, StateSound(p, Len(rows), s), StateTracked(s),
           s.page.at # "closed", NEW then, ThenSound(then),
           then[1] = "submit" => ~saving(s.page) /\ canEdit(p, s.page) /\ s.page.text \in s.page.pressed
    PROVE  StateTracked(save(p, s, then)) /\ save(p, s, then).page.at = s.page.at
<1> DEFINE t == [s EXCEPT !.page.timer = FALSE]
<1>1. /\ DOMAIN s = {"page", "reqs"} /\ DOMAIN s.page = PageFields /\ DOMAIN s.reqs = Places
      /\ \A i \in Places : DOMAIN s.reqs[i] = RequestFields
    BY DEF StateSound, PageSound, RequestsSound, RequestSound
<1>2. /\ t.reqs = s.reqs /\ SameEdits(s.page, t.page) /\ t.page.at = s.page.at /\ t.page.pressed = s.page.pressed
      /\ t.page.copy = s.page.copy /\ DOMAIN t = {"page", "reqs"} /\ DOMAIN t.page = PageFields
    BY <1>1 DEF PageFields, SameEdits
<1>. HIDE DEF t
<1>3. StateSound(p, Len(rows), t)
    BY <1>2 DEF StateSound, PageSound, SameEdits
<1>4. StateTracked(t)
    BY <1>2, StillTracked DEF SameRequests
<1>5. CASE ~saving(s.page)
    <2>1. NotBlank(t)
        <3>1. SUFFICES ASSUME ~t.page.crossed, t.page.id = 0, NEW i \in UnderWay(t.reqs) PROVE FALSE
            BY DEF NotBlank
        <3>2. t.reqs[i].op # "create"
            BY <1>2, <1>4, <1>5, <3>1, NothingSaved DEF saving, SameEdits, SaveOps
        <3>3. t.reqs[i].id = 0
            BY <1>4, <3>1, <3>2 DEF StateTracked, Tracked
        <3>. QED
            BY <1>3, <3>1, <3>2, <3>3 DEF StateSound, RequestsSound, RequestSound, UnderWay
    <2>2. then[1] = "submit" => canEdit(p, t.page) /\ t.page.text \in t.page.pressed
        BY <1>2 DEF canEdit, SameEdits
    <2>3. save(p, s, then) = SaveNow(p, t, then)
        BY <1>5 DEF save, t
    <2>. QED
        BY <1>2, <1>3, <1>4, <2>1, <2>2, <2>3, SaveNowTracked
<1>6. CASE saving(s.page)
    <2> DEFINE i == s.page.inFlight
               reqs == [t.reqs EXCEPT ![i].waiters = @ + 1]
               u == [t EXCEPT !.reqs = reqs]
    <2>1. save(p, s, then) = u
        BY <1>6 DEF save, t
    <2>2. u.reqs = reqs /\ u.page = t.page
        BY <1>2
    <2>. HIDE DEF u
    <2>3. \A j \in Places : \/ reqs[j] = t.reqs[j]
                            \/ reqs[j] = [t.reqs[j] EXCEPT !.waiters = @ + 1]
        BY <1>1, <1>2
    <2>. HIDE DEF reqs
    <2>4. \A j \in Places :
              LET r == t.reqs[j]
                  k == reqs[j]
              IN  /\ k.op = r.op /\ k.at = r.at /\ k.id = r.id /\ k.edit = r.edit /\ k.text = r.text
                  /\ k.then = r.then /\ k.row = r.row /\ k.seen = r.seen
        <3>1. SUFFICES ASSUME NEW j \in Places
                       PROVE  LET r == t.reqs[j]
                                  k == reqs[j]
                              IN  /\ k.op = r.op /\ k.at = r.at /\ k.id = r.id /\ k.edit = r.edit /\ k.text = r.text
                                  /\ k.then = r.then /\ k.row = r.row /\ k.seen = r.seen
            OBVIOUS
        <3>2. PICK r, k : r = t.reqs[j] /\ k = reqs[j]
            OBVIOUS
        <3>3. DOMAIN r = RequestFields /\ (k = r \/ k = [r EXCEPT !.waiters = @ + 1])
            BY <1>1, <1>2, <2>3, <3>2
        <3>4. /\ k.op = r.op /\ k.at = r.at /\ k.id = r.id /\ k.edit = r.edit /\ k.text = r.text
              /\ k.then = r.then /\ k.row = r.row /\ k.seen = r.seen
            BY <3>3 DEF RequestFields
        <3>. QED
            BY <3>2, <3>4
    <2>5. SameRequests(t, u)
        BY <2>2, <2>4 DEF SameRequests, UnderWay
    <2>6. SameEdits(t.page, u.page) /\ u.page.at = s.page.at
        BY <1>2, <2>2 DEF SameEdits
    <2>7. StateTracked(u)
        BY <1>4, <2>2, <2>5, <2>6, StillTracked
    <2>. QED
        BY <2>1, <2>6, <2>7
<1>. QED
    BY <1>5, <1>6

\* Those that waited go on: while nothing is sent, what was said of the page
\* still stands.
LEMMA WokenTracked ==
    ASSUME NEW p, Len(rows) \in Nat, edits \in Nat, NEW s, StateSound(p, Len(rows), s), StateTracked(s),
           s.page.at # "closed", NotBlank(s), NEW waiters \in Nat
    PROVE  StateTracked(Woken(p, s, waiters)) /\ Undisturbed(s, Woken(p, s, waiters))
<1>1. PICK after : /\ Woken(p, s, waiters) = after[waiters]
                   /\ \A k \in 0 .. waiters : after[k] = IF k = 0 THEN s ELSE Resume(p, after[k - 1])
    BY WokenIsChain
<1> DEFINE Good(t) == StateSound(p, Len(rows), t) /\ StateTracked(t) /\ Undisturbed(s, t)
           S == {k \in Nat : k <= waiters => Good(after[k])}
<1>2. 0 \in S
    BY <1>1 DEF Undisturbed
<1>3. ASSUME NEW k \in Nat, k \in S PROVE k + 1 \in S
    <2>1. SUFFICES ASSUME k + 1 <= waiters PROVE Good(after[k + 1])
        OBVIOUS
    <2>2. PICK t : t = after[k] /\ Good(t) /\ after[k + 1] = Resume(p, t)
        BY <1>1, <1>3, <2>1
    <2>3. CASE ~t.page.dirty
        BY <2>2, <2>3 DEF Resume
    <2>4. CASE t.page.dirty
        <3>1. ThenSound(NoThen) /\ NoThen[1] # "submit"
            BY DEF ThenSound, NoThen
        <3>2. PICK u : u = SaveNow(p, t, NoThen)
            OBVIOUS
        <3>3. StateSound(p, Len(rows), u)
            BY <2>2, <3>1, <3>2, SaveNowSound
        <3>4. t.page.at # "closed" /\ NotBlank(t)
            BY <2>2 DEF Undisturbed
        <3>5. StateTracked(u) /\ Undisturbed(t, u)
            BY <2>2, <3>1, <3>2, <3>4, SaveNowTracked
        <3>6. Undisturbed(s, u)
            BY <2>2, <3>5 DEF Undisturbed
        <3>. QED
            BY <2>2, <2>4, <3>2, <3>3, <3>5, <3>6 DEF Resume
    <2>. QED
        BY <2>3, <2>4
<1>4. \A k \in Nat : k \in S
    <2>. HIDE DEF S
    <2>. QED
        BY <1>2, <1>3, SetInduction
<1>. QED
    BY <1>1, <1>4

\* The inductive invariant.
PageTracked(p) == Tracked(rows, editor[p], requests[p]) /\ EditsKnown(edits, editor[p], requests[p])

ScreenInv == DeskInv /\ edits \in Nat /\ \A p \in EditorPages : PageTracked(p)

LEMMA NowTracked ==
    ASSUME ScreenInv, NEW p \in EditorPages
    PROVE  /\ Len(rows) \in Nat /\ edits \in Nat /\ StateSound(p, Len(rows), Now(p)) /\ StateTracked(Now(p))
           /\ Now(p).page = editor[p] /\ Now(p).reqs = requests[p]
BY PageIsSound DEF ScreenInv, PageTracked, StateTracked, Now

\* Of a page that was left and has ended nothing has to be known.
LEMMA PutTracked ==
    ASSUME ScreenInv, NEW p \in EditorPages, NEW s, StateSound(p, Len(rows), s), s.page.at # "closed",
           EditsKnown(edits, s.page, s.reqs),
           \/ Tracked(rows, s.page, s.reqs)
           \/ s.page.at = "left" /\ ~s.page.timer /\ UnderWay(s.reqs) = {},
           PutPage(p, s), UNCHANGED <<rows, approved, edits>>
    PROVE  ScreenInv'
<1>1. DeskInv'
    BY PageKeeps DEF ScreenInv
<1>2. ASSUME NEW q \in EditorPages, q # p PROVE PageTracked(q)'
    <2>1. editor'[q] = editor[q] /\ requests'[q] = requests[q]
        BY <1>2 DEF PutPage
    <2>. QED
        BY <2>1 DEF ScreenInv, PageTracked
<1>3. PageTracked(p)'
    <2>1. DOMAIN requests = EditorPages /\ DOMAIN editor = EditorPages
        BY DEF ScreenInv, DeskInv, AllRequestsSound, AllPagesSound
    <2>2. requests'[p] = s.reqs
        BY <2>1 DEF PutPage
    <2>3. CASE Tracked(rows, s.page, s.reqs) /\ editor'[p] = s.page
        BY <2>2, <2>3 DEF PageTracked
    <2>4. CASE UnderWay(s.reqs) = {} /\ editor'[p] = [NewPage EXCEPT !.at = "left"]
        <3>1. PICK e : e = [NewPage EXCEPT !.at = "left"]
            OBVIOUS
        <3>2. /\ e.at = "left" /\ e.id = 0 /\ e.edit = 0 /\ ~e.crossed
            BY <3>1 DEF NewPage
        <3>3. Tracked(rows, e, s.reqs)
            BY <2>4, <3>2 DEF Tracked, SavesTell, Told
        <3>4. EditsKnown(edits, e, s.reqs)
            BY <3>2 DEF EditsKnown, ScreenInv
        <3>. QED
            BY <2>2, <2>4, <3>1, <3>3, <3>4 DEF PageTracked
    <2>. QED
        BY <2>1, <2>3, <2>4 DEF PutPage
<1>. QED
    BY <1>1, <1>2, <1>3 DEF ScreenInv

LEMMA OpenTracks == ASSUME ScreenInv, NEW p \in EditorPages, Open(p) PROVE ScreenInv'
<1>1. UNCHANGED <<deskVars, edits>> /\ editor[p].at = "closed" /\ DOMAIN editor = EditorPages
    BY DEF Open, ScreenInv, DeskInv, AllPagesSound
<1>2. DeskInv'
    BY OpenKeeps DEF ScreenInv
<1>3. PageTracked(p) /\ UnderWay(requests[p]) = {} /\ DOMAIN editor[p] = PageFields
    BY <1>1, PageOf DEF ScreenInv, PageTracked, EditsKnown, PageSound
<1>4. PICK e : /\ editor' = [editor EXCEPT ![p] = e]
               /\ \/ e = [editor[p] EXCEPT !.at = "open"]
                  \/ \E a \in DOMAIN rows : e = [NewPage EXCEPT !.at = "open", !.id = a, !.copy = rows[a],
                                                                !.text = rows[a].text]
    BY DEF Open
<1>5. Tracked(rows, e, requests[p]) /\ EditsKnown(edits, e, requests[p])
    <2>1. CASE e = [editor[p] EXCEPT !.at = "open"]
        <3>1. /\ e.at = "open" /\ e.id = editor[p].id /\ e.edit = editor[p].edit /\ e.crossed = editor[p].crossed
              /\ e.dirty = editor[p].dirty /\ e.text = editor[p].text /\ e.others = editor[p].others
            BY <1>3, <2>1 DEF PageFields
        <3>. QED
            BY <1>3, <3>1 DEF PageTracked, Tracked, SavesTell, Told, EditsKnown
    <2>2. ASSUME NEW a \in DOMAIN rows,
                 e = [NewPage EXCEPT !.at = "open", !.id = a, !.copy = rows[a], !.text = rows[a].text]
          PROVE  Tracked(rows, e, requests[p]) /\ EditsKnown(edits, e, requests[p])
        <3>1. e.at = "open" /\ e.id = a /\ e.edit = 0 /\ e.text = rows[a].text
            BY <2>2 DEF NewPage
        <3>2. Tracked(rows, e, requests[p])
            BY <1>3, <3>1 DEF Tracked, SavesTell, Told
        <3>. QED
            BY <1>3, <3>1, <3>2 DEF PageTracked, EditsKnown, ScreenInv
    <2>. QED
        BY <1>4, <2>1, <2>2
<1>6. UNCHANGED <<rows, requests, edits>>
    BY <1>1 DEF deskVars
<1>7. ASSUME NEW q \in EditorPages PROVE PageTracked(q)'
    BY <1>1, <1>4, <1>5, <1>6 DEF ScreenInv, PageTracked
<1>. QED
    BY <1>2, <1>6, <1>7 DEF ScreenInv

\* An edit is newer than every save under way.
LEMMA TypeTextTracks == ASSUME ScreenInv, NEW p \in EditorPages, TypeText(p) PROVE ScreenInv'
<1>1. /\ UNCHANGED deskVars /\ edits' = edits + 1 /\ edits \in Nat /\ DOMAIN editor = EditorPages
      /\ editor[p].at = "open"
    BY DEF TypeText, ScreenInv, DeskInv, AllPagesSound
<1>2. DeskInv'
    BY TypeTextKeeps DEF ScreenInv
<1>3. PICK text, e : /\ editor' = [editor EXCEPT ![p] = e]
                     /\ e = [editor[p] EXCEPT !.text = text, !.edit = edits', !.dirty = TRUE, !.timer = TRUE,
                                              !.pressed = IF @ = {} THEN {} ELSE @ \cup {text}]
    BY DEF TypeText
<1>4. /\ e.at = "open" /\ e.text = text /\ e.edit = edits + 1 /\ e.dirty
      /\ e.id = editor[p].id /\ e.crossed = editor[p].crossed /\ e.others = editor[p].others
      /\ e.inFlight = editor[p].inFlight /\ editor[p].pressed \subseteq e.pressed
    <2>1. DOMAIN editor[p] = PageFields
        BY PageOf DEF ScreenInv, PageSound
    <2>2. e.pressed = IF editor[p].pressed = {} THEN {} ELSE editor[p].pressed \cup {text}
        BY <1>3, <2>1 DEF PageFields
    <2>. QED
        BY <1>1, <1>3, <2>1, <2>2 DEF PageFields
<1>5. UNCHANGED <<rows, requests>>
    BY <1>1 DEF deskVars
<1>6. PageTracked(p)
    BY DEF ScreenInv
<1>7. EditsKnown(edits + 1, e, requests[p])
    BY <1>1, <1>4, <1>6 DEF PageTracked, EditsKnown
<1>8. Tracked(rows, e, requests[p])
    <2>1. SUFFICES ASSUME ~e.crossed PROVE Tracked(rows, e, requests[p])
        BY DEF Tracked
    <2>2. /\ \A i, j \in UnderWay(requests[p]) : i = j
          /\ \A i \in UnderWay(requests[p]) : requests[p][i].op # "create" => requests[p][i].id = editor[p].id
          /\ SavesTell(editor[p], requests[p])
          /\ editor[p].others \/ Told(rows, editor[p], requests[p])
        BY <1>4, <1>6, <2>1 DEF PageTracked, Tracked
    <2>3. \A i \in UnderWay(requests[p]) : requests[p][i].edit # e.edit
        BY <1>1, <1>4, <1>6 DEF PageTracked, EditsKnown, UnderWay
    <2>4. SavesTell(e, requests[p])
        BY <1>4, <2>2, <2>3 DEF SavesTell
    <2>5. e.others \/ Told(rows, e, requests[p])
        BY <1>4, <2>2 DEF Told
    <2>. QED
        BY <1>4, <2>2, <2>4, <2>5 DEF Tracked
<1>9. ASSUME NEW q \in EditorPages PROVE PageTracked(q)'
    <2>1. CASE q = p
        BY <1>1, <1>3, <1>5, <1>7, <1>8, <2>1 DEF PageTracked
    <2>2. CASE q # p
        BY <1>1, <1>3, <1>5, <2>2 DEF ScreenInv, PageTracked, EditsKnown
    <2>. QED
        BY <2>1, <2>2
<1>. QED
    BY <1>1, <1>2, <1>9 DEF ScreenInv

LEMMA SavesTrack == ASSUME ScreenInv, NEW p \in EditorPages, TimerFires(p) \/ SaveKeys(p) PROVE ScreenInv'
<1>1. PutPage(p, save(p, Now(p), NoThen)) /\ UNCHANGED <<rows, approved, edits>>
    BY DEF TimerFires, SaveKeys
<1>2. ThenSound(NoThen) /\ NoThen[1] # "submit"
    BY DEF ThenSound, NoThen
<1>3. Now(p).page.at # "closed"
    BY NowTracked DEF TimerFires, SaveKeys, StateTracked, EditsKnown
<1>4. StateSound(p, Len(rows), save(p, Now(p), NoThen))
    BY <1>2, NowTracked, SaveSound
<1>5. StateTracked(save(p, Now(p), NoThen)) /\ save(p, Now(p), NoThen).page.at # "closed"
    BY <1>2, <1>3, NowTracked, SaveTracked
<1>. QED
    BY <1>1, <1>4, <1>5, PutTracked DEF StateTracked

LEMMA ActTracks == ASSUME ScreenInv, NEW p \in EditorPages, Act(p) PROVE ScreenInv'
<1>1. PICK s : s = Now(p)
    OBVIOUS
<1>2. PICK t : t = [s EXCEPT !.page.pressed = {s.page.text}]
    OBVIOUS
<1>3. PICK op \in PanelOffers(p, s.page), time \in {"none", "later"} : PutPage(p, save(p, t, <<op, time>>))
    BY <1>1, <1>2 DEF Act
<1>4. UNCHANGED <<rows, approved, edits>> /\ s.page.at = "open" /\ ~saving(s.page)
    BY <1>1 DEF Act
<1>5. /\ Len(rows) \in Nat /\ edits \in Nat /\ StateSound(p, Len(rows), s) /\ StateTracked(s)
      /\ DOMAIN s = {"page", "reqs"} /\ DOMAIN s.page = PageFields
    BY <1>1, NowTracked DEF StateSound, PageSound
<1>6. /\ t.reqs = s.reqs /\ SameEdits(s.page, t.page) /\ t.page.at = "open" /\ t.page.pressed = {s.page.text}
      /\ t.page.copy = s.page.copy /\ DOMAIN t = {"page", "reqs"} /\ DOMAIN t.page = PageFields
      /\ t.page.inFlight = 0
    BY <1>2, <1>4, <1>5 DEF PageFields, SameEdits, saving
<1>7. StateSound(p, Len(rows), t) /\ StateTracked(t)
    <2>1. StateSound(p, Len(rows), t)
        BY <1>5, <1>6 DEF StateSound, PageSound, SameEdits
    <2>2. SameRequests(s, t)
        BY <1>6 DEF SameRequests
    <2>. QED
        BY <1>5, <1>6, <2>1, <2>2, StillTracked
<1>8. PICK then : then = <<op, time>>
    OBVIOUS
<1>9. ThenSound(then) /\ (then[1] = "submit" => canEdit(p, s.page))
    <2>1. op \in {"submit", "requestChanges", "withdraw"} /\ (op = "submit" => canEdit(p, s.page))
        BY <1>3 DEF PanelOffers, canEdit
    <2>. QED
        BY <1>8, <2>1 DEF ThenSound
<1>10. then[1] = "submit" => ~saving(t.page) /\ canEdit(p, t.page) /\ t.page.text \in t.page.pressed
    BY <1>6, <1>9 DEF canEdit, saving, SameEdits
<1>11. StateSound(p, Len(rows), save(p, t, then))
    BY <1>5, <1>7, <1>9, SaveSound
<1>12. StateTracked(save(p, t, then)) /\ save(p, t, then).page.at # "closed"
    BY <1>5, <1>6, <1>7, <1>9, <1>10, SaveTracked
<1>. QED
    BY <1>3, <1>4, <1>8, <1>11, <1>12, PutTracked DEF StateTracked

LEMMA ConfirmDeleteTracks == ASSUME ScreenInv, NEW p \in EditorPages, ConfirmDelete(p) PROVE ScreenInv'
<1>1. PICK s : s = Now(p)
    OBVIOUS
<1>2. PICK r : r = [NoRequest EXCEPT !.at = "sent", !.op = "remove", !.id = s.page.id]
    OBVIOUS
<1>3. PICK u : u = [page |-> [Send(s, r).page EXCEPT !.busy = TRUE], reqs |-> Send(s, r).reqs]
    OBVIOUS
<1>4. /\ Len(rows) \in Nat /\ edits \in Nat /\ StateSound(p, Len(rows), s) /\ StateTracked(s) /\ s.page = editor[p]
      /\ DOMAIN s.page = PageFields
    BY <1>1, NowTracked DEF StateSound, PageSound
<1>5. PutPage(p, u) /\ UNCHANGED <<rows, approved, edits>> /\ s.page.id # 0 /\ s.page.at = "open"
    BY <1>1, <1>2, <1>3, <1>4 DEF ConfirmDelete
<1>6. /\ RequestSound(p, Len(rows), r) /\ r.at = "sent" /\ r.edit = 0 /\ r.id = s.page.id /\ r.op = "remove"
    <2>. s.page.id \in 1 .. Len(rows)
        BY <1>4, <1>5 DEF StateSound, PageSound
    <2>. QED
        BY <1>2, <1>4 DEF RequestSound, NoRequest, RequestFields, RowFields, ThenSound, NoThen, NoRow, Row, Ops
<1>7. PICK t : t = Send(s, r)
    OBVIOUS
<1>8. t.page = [s.page EXCEPT !.crossed = UnderWay(s.reqs) # {} \/ (s.page.crossed /\ r.op # "update")]
    BY <1>7 DEF Send
<1>9. /\ u.reqs = t.reqs /\ u.page.crossed = t.page.crossed /\ DOMAIN u = {"page", "reqs"} /\ DOMAIN u.page = PageFields
      /\ u.page.id = s.page.id /\ u.page.text = s.page.text /\ u.page.edit = s.page.edit
      /\ u.page.dirty = s.page.dirty /\ u.page.others = s.page.others /\ u.page.at = s.page.at
    BY <1>3, <1>4, <1>7, <1>8 DEF PageFields
<1>10. StateSound(p, Len(rows), u)
    <2>1. RequestsSound(p, Len(rows), u.reqs)
        BY <1>4, <1>6, <1>7, <1>9, SendSound
    <2>. QED
        BY <1>4, <1>9, <2>1 DEF StateSound, PageSound
<1>11. StateTracked(u)
    <2>1. r.op \notin SaveOps /\ r.op # "submit"
        BY <1>6 DEF SaveOps
    <2>2. r.edit \in 0 .. edits
        BY <1>4, <1>6
    <2>3. u.reqs = Send(s, r).reqs /\ u.page.crossed = Send(s, r).page.crossed
        BY <1>7, <1>9
    <2>. QED
        BY <1>4, <1>5, <1>6, <1>9, <2>1, <2>2, <2>3, SentTracked
<1>. QED
    BY <1>5, <1>9, <1>10, <1>11, PutTracked DEF StateTracked

LEMMA LeaveTracks == ASSUME ScreenInv, NEW p \in EditorPages, Leave(p) PROVE ScreenInv'
<1>1. PICK s : s = Now(p)
    OBVIOUS
<1>2. PICK t : t = IF s.page.dirty \/ saving(s.page) THEN save(p, s, NoThen) ELSE s
    OBVIOUS
<1>3. PICK u : u = [t EXCEPT !.page.at = "left", !.page.timer = FALSE]
    OBVIOUS
<1>4. PutPage(p, u) /\ UNCHANGED <<rows, approved, edits>> /\ s.page.at = "open"
    BY <1>1, <1>2, <1>3 DEF Leave
<1>5. Len(rows) \in Nat /\ edits \in Nat /\ StateSound(p, Len(rows), s) /\ StateTracked(s)
    BY <1>1, NowTracked
<1>6. ThenSound(NoThen) /\ NoThen[1] # "submit"
    BY DEF ThenSound, NoThen
<1>7. StateSound(p, Len(rows), t) /\ StateTracked(t)
    BY <1>2, <1>4, <1>5, <1>6, SaveSound, SaveTracked
<1>8. DOMAIN t = {"page", "reqs"} /\ DOMAIN t.page = PageFields
    BY <1>7 DEF StateSound, PageSound
<1>9. /\ u.reqs = t.reqs /\ SameEdits(t.page, u.page) /\ u.page.at = "left" /\ u.page.pressed = t.page.pressed
      /\ DOMAIN u = {"page", "reqs"} /\ DOMAIN u.page = PageFields
    BY <1>3, <1>8 DEF PageFields, SameEdits
<1>10. StateSound(p, Len(rows), u)
    BY <1>7, <1>9 DEF StateSound, PageSound, SameEdits
<1>11. StateTracked(u)
    BY <1>7, <1>9, StillTracked DEF SameRequests
<1>. QED
    BY <1>4, <1>9, <1>10, <1>11, PutTracked DEF StateTracked

\* What a page says of itself when an answer has come: the request it was for
\* is over.
LEMMA AnswerFrees ==
    ASSUME ScreenInv, NEW p \in EditorPages, NEW i \in Places, requests[p][i].at # "none"
    PROVE  LET r == requests[p][i]
               reqs == [requests[p] EXCEPT ![i] = NoRequest]
           IN  /\ Len(rows) \in Nat /\ edits \in Nat /\ DOMAIN editor[p] = PageFields /\ editor[p].at # "closed"
               /\ EditsKnown(edits, editor[p], reqs) /\ RequestSound(p, Len(rows), r)
               /\ RequestsSound(p, Len(rows), reqs)
               /\ PageSound(Len(rows), editor[p])
               /\ ~editor[p].crossed =>
                     /\ UnderWay(reqs) = {}
                     /\ r.op # "create" => r.id = editor[p].id
                     /\ r.op \in SaveOps =>
                           /\ editor[p].dirty
                           /\ r.edit = editor[p].edit => r.text = editor[p].text
                           /\ r.then[1] = "submit" => r.text \in editor[p].pressed
                     /\ editor[p].others \/ editor[p].dirty \/ editor[p].id = 0
                           \/ rows[editor[p].id].text = editor[p].text
                     /\ editor[p].others \/ (r.op \in SaveOps /\ r.at = "done" => rows[r.id].text = r.text)
<1>1. PICK reqs : reqs = [requests[p] EXCEPT ![i] = NoRequest]
    OBVIOUS
<1>2. /\ Len(rows) \in Nat /\ edits \in Nat /\ PageSound(Len(rows), editor[p]) /\ PageTracked(p)
      /\ RequestsSound(p, Len(rows), requests[p]) /\ i \in UnderWay(requests[p])
    BY PageOf DEF ScreenInv, DeskInv, AllRequestsSound, UnderWay
<1>3. RequestsSound(p, Len(rows), reqs)
    BY <1>1, <1>2, NoRequestSound DEF RequestsSound
<1>4. editor[p].at # "closed" /\ EditsKnown(edits, editor[p], reqs)
    BY <1>1, <1>2 DEF PageTracked, EditsKnown, NoRequest, RequestsSound
<1>5. ASSUME ~editor[p].crossed
      PROVE  /\ \A j \in UnderWay(requests[p]) : i = j
             /\ requests[p][i].op # "create" => requests[p][i].id = editor[p].id
             /\ SavesTell(editor[p], requests[p])
             /\ editor[p].others \/ Told(rows, editor[p], requests[p])
    BY <1>2, <1>5 DEF PageTracked, Tracked
<1>6. ASSUME ~editor[p].crossed PROVE UnderWay(reqs) = {}
    BY <1>1, <1>2, <1>5, <1>6 DEF UnderWay, NoRequest, RequestsSound
<1>. QED
    BY <1>1, <1>2, <1>3, <1>4, <1>5, <1>6 DEF PageSound, RequestsSound, SavesTell, Told

LEMMA SaveEndsTracks ==
    ASSUME ScreenInv, NEW p \in EditorPages, NEW i \in Places, NEW ok \in BOOLEAN, SaveEnds(p, i, ok)
    PROVE  ScreenInv'
<1>1. PICK r, reqs : r = requests[p][i] /\ reqs = [requests[p] EXCEPT ![i] = NoRequest]
    OBVIOUS
<1>2. PICK answered : answered = IF ok THEN SaveAccepted(editor[p], r) ELSE [editor[p] EXCEPT !.saveError = TRUE]
    OBVIOUS
<1>3. PICK e : e = [answered EXCEPT !.inFlight = 0]
    OBVIOUS
<1>4. PICK s : s = [page |-> [e EXCEPT !.timer = @ \/ (e.dirty /\ ~e.saveError)], reqs |-> reqs]
    OBVIOUS
<1>5. /\ PutPage(p, Run(Woken(p, s, r.waiters), r.then)) /\ UNCHANGED <<rows, approved, edits>>
      /\ r.op \in SaveOps /\ r.at # "none" /\ (ok => r.at = "done")
    BY <1>1, <1>2, <1>3, <1>4 DEF SaveEnds, SaveOps
<1>6. /\ Len(rows) \in Nat /\ edits \in Nat /\ DOMAIN editor[p] = PageFields /\ editor[p].at # "closed"
      /\ EditsKnown(edits, editor[p], reqs) /\ RequestSound(p, Len(rows), r) /\ RequestsSound(p, Len(rows), reqs)
      /\ PageSound(Len(rows), editor[p])
      /\ ~editor[p].crossed =>
            /\ UnderWay(reqs) = {}
            /\ r.op # "create" => r.id = editor[p].id
            /\ editor[p].dirty
            /\ r.edit = editor[p].edit => r.text = editor[p].text
            /\ r.then[1] = "submit" => r.text \in editor[p].pressed
            /\ editor[p].others \/ (r.at = "done" => rows[r.id].text = r.text)
    BY <1>1, <1>5, AnswerFrees
<1>7. /\ DOMAIN answered = PageFields
      /\ answered.id = (IF ok THEN r.id ELSE editor[p].id)
      /\ answered.dirty = (IF ok THEN editor[p].dirty /\ editor[p].edit # r.edit ELSE editor[p].dirty)
      /\ ok \/ answered.saveError
      /\ answered.at = editor[p].at /\ answered.crossed = editor[p].crossed /\ answered.others = editor[p].others
      /\ answered.text = editor[p].text /\ answered.edit = editor[p].edit /\ answered.pressed = editor[p].pressed
    BY <1>2, <1>6 DEF SaveAccepted, PageFields
<1>8. /\ DOMAIN s.page = PageFields /\ DOMAIN s = {"page", "reqs"} /\ s.reqs = reqs
      /\ s.page.id = answered.id /\ s.page.dirty = answered.dirty /\ s.page.saveError = answered.saveError
      /\ s.page.at = editor[p].at /\ s.page.crossed = editor[p].crossed /\ s.page.others = editor[p].others
      /\ s.page.text = editor[p].text /\ s.page.edit = editor[p].edit /\ s.page.pressed = editor[p].pressed
    BY <1>3, <1>4, <1>7 DEF PageFields
<1>9. StateSound(p, Len(rows), s)
    BY <1>6, <1>7, <1>8 DEF StateSound, PageSound, RequestSound
<1>10. StateTracked(s) /\ NotBlank(s)
    <2>1. EditsKnown(edits, s.page, s.reqs)
        BY <1>6, <1>8 DEF EditsKnown
    <2>2. ASSUME ~s.page.crossed PROVE Tracked(rows, s.page, s.reqs) /\ UnderWay(s.reqs) = {}
        <3>1. UnderWay(s.reqs) = {}
            BY <1>6, <1>8, <2>2
        <3>2. ~s.page.others /\ ~s.page.dirty => rows[s.page.id].text = s.page.text
            BY <1>5, <1>6, <1>7, <1>8, <2>2
        <3>. QED
            BY <3>1, <3>2 DEF Tracked, SavesTell, Told
    <2>. QED
        BY <2>1, <2>2 DEF StateTracked, Tracked, NotBlank
<1>11. PICK w : w = Woken(p, s, r.waiters)
    OBVIOUS
<1>12. r.waiters \in Nat /\ ThenSound(r.then) /\ s.page.at # "closed"
    BY <1>6, <1>8 DEF RequestSound
<1>13. StateSound(p, Len(rows), w)
    BY <1>6, <1>9, <1>11, <1>12, WokenSound
<1>14. StateTracked(w) /\ Undisturbed(s, w)
    BY <1>6, <1>9, <1>10, <1>11, <1>12, WokenTracked
<1>15. r.then[1] = "submit" => StoredIsPressed(w)
    <2>1. SUFFICES ASSUME r.then[1] = "submit", ~w.page.saveError, UnderWay(w.reqs) = {}, ~w.page.crossed, ~w.page.others
                   PROVE  rows[w.page.id].text \in w.page.pressed
        BY DEF StoredIsPressed
    <2>2. /\ w.page.id = s.page.id /\ w.page.pressed = editor[p].pressed
          /\ ~editor[p].others /\ ~answered.saveError /\ ~editor[p].crossed
        BY <1>8, <1>14, <2>1 DEF Undisturbed
    <2>3. ok /\ s.page.id = r.id /\ r.at = "done"
        BY <1>5, <1>7, <1>8, <2>2
    <2>. QED
        BY <1>6, <2>1, <2>2, <2>3
<1>16. PICK t : t = Run(w, r.then)
    OBVIOUS
<1>17. w.page.at # "closed"
    BY <1>12, <1>14 DEF Undisturbed
<1>18. StateSound(p, Len(rows), t)
    BY <1>6, <1>12, <1>13, <1>16, RunSound
<1>19. StateTracked(t) /\ t.page.at # "closed"
    BY <1>6, <1>12, <1>13, <1>14, <1>15, <1>16, <1>17, RunTracked
<1>20. PutPage(p, t)
    BY <1>5, <1>11, <1>16
<1>. QED
    BY <1>5, <1>18, <1>19, <1>20, PutTracked DEF StateTracked

LEMMA RunEndsTracks ==
    ASSUME ScreenInv, NEW p \in EditorPages, NEW i \in Places, NEW ok \in BOOLEAN, RunEnds(p, i, ok)
    PROVE  ScreenInv'
<1>1. PICK r, reqs : r = requests[p][i] /\ reqs = [requests[p] EXCEPT ![i] = NoRequest]
    OBVIOUS
<1>2. PICK e : e = [editor[p] EXCEPT !.busy = FALSE]
    OBVIOUS
<1>3. PICK after : after = IF ~ok THEN e
                           ELSE IF r.op = "remove" THEN [e EXCEPT !.dirty = FALSE, !.timer = FALSE, !.at = "left"]
                           ELSE [e EXCEPT !.copy = r.row]
    OBVIOUS
<1>4. PICK s : s = [page |-> after, reqs |-> reqs]
    OBVIOUS
<1>5. /\ PutPage(p, s) /\ UNCHANGED <<rows, approved, edits>>
      /\ r.op \notin SaveOps /\ r.at # "none"
    BY <1>1, <1>2, <1>3, <1>4 DEF RunEnds, SaveOps
<1>6. /\ DOMAIN editor[p] = PageFields /\ editor[p].at # "closed"
      /\ EditsKnown(edits, editor[p], reqs) /\ RequestsSound(p, Len(rows), reqs) /\ PageSound(Len(rows), editor[p])
      /\ ~editor[p].crossed =>
            /\ UnderWay(reqs) = {}
            /\ editor[p].others \/ editor[p].dirty \/ editor[p].id = 0 \/ rows[editor[p].id].text = editor[p].text
    BY <1>1, <1>5, AnswerFrees
<1>7. /\ DOMAIN after = PageFields /\ after.id = editor[p].id /\ after.crossed = editor[p].crossed
      /\ after.others = editor[p].others /\ after.text = editor[p].text /\ after.edit = editor[p].edit
      /\ after.at # "closed"
      /\ (after.at = "left" /\ ~after.timer) \/ after.dirty = editor[p].dirty
    BY <1>2, <1>3, <1>6 DEF PageFields
<1>8. s.page = after /\ s.reqs = reqs /\ DOMAIN s = {"page", "reqs"}
    BY <1>4
<1>9. StateSound(p, Len(rows), s)
    BY <1>6, <1>7, <1>8 DEF StateSound, PageSound
<1>10. EditsKnown(edits, s.page, s.reqs)
    BY <1>6, <1>7, <1>8 DEF EditsKnown
<1>11. Tracked(rows, s.page, s.reqs) \/ (s.page.at = "left" /\ ~s.page.timer /\ UnderWay(s.reqs) = {})
    <2>1. SUFFICES ASSUME ~after.crossed, after.dirty = editor[p].dirty PROVE Tracked(rows, s.page, s.reqs)
        BY <1>6, <1>7, <1>8 DEF Tracked
    <2>2. UnderWay(s.reqs) = {}
        BY <1>6, <1>7, <1>8, <2>1
    <2>. QED
        BY <1>6, <1>7, <1>8, <2>1, <2>2 DEF Tracked, SavesTell, Told
<1>. QED
    BY <1>5, <1>7, <1>8, <1>9, <1>10, <1>11, PutTracked

\* What the service writes elsewhere does not concern the page.
LEMMA ElsewhereTracked ==
    ASSUME NEW p, NEW n, NEW table, NEW next, NEW e, NEW reqs, RequestsSound(p, n, reqs), Tracked(table, e, reqs),
           \A a \in ({e.id} \cup {reqs[j].id : j \in Places}) \ {0} : next[a].text = table[a].text
    PROVE  Tracked(next, e, reqs)
<1>1. \A j \in UnderWay(reqs) :
          /\ reqs[j].op # "create" \/ reqs[j].at = "done" => next[reqs[j].id].text = table[reqs[j].id].text
    BY DEF RequestsSound, RequestSound, UnderWay
<1>2. e.id # 0 => next[e.id].text = table[e.id].text
    OBVIOUS
<1>3. Told(table, e, reqs) => Told(next, e, reqs)
    BY <1>1, <1>2 DEF Told, SaveOps
<1>. QED
    BY <1>3 DEF Tracked

\* A request that the service goes on with.
LEMMA ServedTracked ==
    ASSUME NEW table, NEW next, NEW e, NEW f, NEW reqs, DOMAIN reqs = Places, NEW i \in Places, NEW k,
           Tracked(table, e, reqs), reqs[i].at # "none", k.at # "none",
           k.op = reqs[i].op, k.edit = reqs[i].edit, k.text = reqs[i].text, k.then = reqs[i].then,
           k.op # "create" => k.id = reqs[i].id,
           f.crossed = e.crossed, f.id = e.id, f.dirty = e.dirty, f.edit = e.edit, f.text = e.text,
           f.inFlight = e.inFlight, f.pressed = e.pressed,
           ~e.crossed /\ ~f.others =>
               /\ ~e.dirty /\ e.id # 0 => next[e.id].text = e.text
               /\ k.op \in SaveOps /\ k.at = "done" => next[k.id].text = k.text
               /\ k.op # "create" /\ k.at = "read" => k.row.text = next[k.id].text
               /\ k.op = "submit" /\ k.at \in {"sent", "read"} => next[k.id].text \in k.seen
    PROVE  Tracked(next, f, [reqs EXCEPT ![i] = k])
<1>1. SUFFICES ASSUME ~e.crossed PROVE Tracked(next, f, [reqs EXCEPT ![i] = k])
    BY DEF Tracked
<1>2. PICK after : after = [reqs EXCEPT ![i] = k]
    OBVIOUS
<1>3. UnderWay(reqs) = {i} /\ UnderWay(after) = {i} /\ after[i] = k
    <2>1. \A j \in UnderWay(reqs) : i = j
        BY <1>1 DEF Tracked, UnderWay
    <2>. QED
        BY <1>2, <2>1 DEF UnderWay
<1>4. (k.op # "create" => k.id = e.id) /\ SavesTell(e, reqs)
    BY <1>1, <1>3 DEF Tracked
<1>5. SavesTell(f, after)
    BY <1>3, <1>4 DEF SavesTell
<1>6. f.others \/ Told(next, f, after)
    BY <1>1, <1>3 DEF Told
<1>. QED
    BY <1>2, <1>3, <1>4, <1>5, <1>6 DEF Tracked

\* What is known of a request under way.
LEMMA RequestTracked ==
    ASSUME ScreenInv, NEW p \in EditorPages, NEW i \in Places, requests[p][i].at # "none", ~editor[p].crossed
    PROVE  LET r == requests[p][i]
           IN  /\ r.op # "create" => r.id = editor[p].id
               /\ r.op \in SaveOps => editor[p].dirty
               /\ ~editor[p].others =>
                     /\ ~editor[p].dirty /\ editor[p].id # 0 => rows[editor[p].id].text = editor[p].text
                     /\ r.op # "create" /\ r.at = "read" => r.row.text = rows[r.id].text
                     /\ r.op = "submit" /\ r.at \in {"sent", "read"} => rows[r.id].text \in r.seen
<1>1. PageTracked(p) /\ i \in UnderWay(requests[p])
    BY DEF ScreenInv, UnderWay
<1>. QED
    BY <1>1 DEF PageTracked, Tracked, SavesTell, Told

LEMMA EditsStayKnown ==
    ASSUME NEW n \in Nat, NEW e, NEW f, NEW reqs, DOMAIN reqs = Places, NEW i \in Places, NEW k, EditsKnown(n, e, reqs),
           f.edit = e.edit, f.at = e.at, f.timer = e.timer, k.edit = reqs[i].edit, reqs[i].at # "none"
    PROVE  EditsKnown(n, f, [reqs EXCEPT ![i] = k])
BY DEF EditsKnown, UnderWay

LEMMA CreateTracks ==
    ASSUME ScreenInv, NEW p \in EditorPages, NEW i \in Places, DeskCreates(p, i), UNCHANGED <<editor, edits>>
    PROVE  ScreenInv'
<1>1. DeskInv'
    BY CreateKeeps DEF ScreenInv
<1>2. PICK r, k : /\ r = requests[p][i]
                  /\ k = [r EXCEPT !.at = "done", !.id = Len(rows'), !.row = rows'[Len(rows')]]
    OBVIOUS
<1>3. /\ rows' = Append(rows, Row(UserOf[p], r.text)) /\ r.at = "sent" /\ r.op = "create"
      /\ requests' = [requests EXCEPT ![p][i] = k]
    BY <1>2 DEF DeskCreates
<1>4. /\ IsTable(rows) /\ DOMAIN requests = EditorPages /\ \A q \in EditorPages : RequestsSound(q, Len(rows), requests[q])
      /\ DOMAIN r = RequestFields
    BY <1>2 DEF ScreenInv, DeskInv, AllRequestsSound, RequestsSound, RequestSound
<1>5. PICK row : row = Row(UserOf[p], r.text)
    OBVIOUS
<1>. DOMAIN row = RowFields /\ row.text = r.text
    BY <1>5 DEF Row, RowFields
<1>6. /\ Len(rows) \in Nat /\ Len(rows') = Len(rows) + 1 /\ rows'[Len(rows) + 1].text = r.text
      /\ \A a \in 1 .. Len(rows) : rows'[a] = rows[a]
    BY <1>3, <1>4, <1>5, TableGrows DEF IsTable
<1>7. \A q \in EditorPages : editor[q].id \in 0 .. Len(rows) /\ \A j \in Places : requests[q][j].id \in 0 .. Len(rows)
    BY PageOf, <1>4 DEF ScreenInv, PageSound, RequestsSound, RequestSound
<1>8. /\ k.at = "done" /\ k.op = "create" /\ k.edit = r.edit /\ k.text = r.text /\ k.then = r.then /\ k.id = Len(rows')
    BY <1>2, <1>3, <1>4 DEF RequestFields
<1>9. ASSUME NEW q \in EditorPages, q # p PROVE PageTracked(q)'
    <2>1. requests'[q] = requests[q] /\ PageTracked(q)
        BY <1>3, <1>9 DEF ScreenInv
    <2>2. \A a \in ({editor[q].id} \cup {requests[q][j].id : j \in Places}) \ {0} : rows'[a].text = rows[a].text
        BY <1>6, <1>7
    <2>3. Tracked(rows', editor[q], requests[q])
        BY <1>4, <2>1, <2>2, ElsewhereTracked DEF PageTracked
    <2>. QED
        BY <2>1, <2>3 DEF PageTracked
<1>10. PageTracked(p)'
    <2>1. PICK e, reqs : e = editor[p] /\ reqs = requests[p]
        OBVIOUS
    <2>2. /\ editor'[p] = e /\ requests'[p] = [reqs EXCEPT ![i] = k] /\ DOMAIN reqs = Places
          /\ Tracked(rows, e, reqs) /\ EditsKnown(edits, e, reqs) /\ edits \in Nat /\ reqs[i] = r
        BY <1>2, <1>3, <1>4, <2>1 DEF ScreenInv, PageTracked, RequestsSound
    <2>3. ~e.crossed => e.dirty
        BY <1>2, <1>3, <2>1, RequestTracked DEF SaveOps
    <2>4. r.at # "none" /\ k.at # "none" /\ rows'[k.id].text = k.text
        BY <1>3, <1>6, <1>8
    <2>5. Tracked(rows', e, [reqs EXCEPT ![i] = k])
        <3>1. /\ reqs[i].at # "none" /\ k.op = reqs[i].op /\ k.edit = reqs[i].edit /\ k.text = reqs[i].text
              /\ k.then = reqs[i].then /\ k.op = "create"
            BY <1>3, <1>8, <2>2
        <3>2. ~e.crossed => e.dirty /\ rows'[k.id].text = k.text
            BY <2>3, <2>4
        <3>. QED
            BY <2>2, <2>4, <3>1, <3>2, ServedTracked
    <2>6. EditsKnown(edits, e, [reqs EXCEPT ![i] = k])
        BY <1>8, <2>2, <2>4, EditsStayKnown
    <2>. QED
        BY <2>2, <2>5, <2>6 DEF PageTracked
<1>. QED
    BY <1>1, <1>9, <1>10 DEF ScreenInv

LEMMA ReadTracks ==
    ASSUME ScreenInv, NEW p \in EditorPages, NEW i \in Places, DeskReads(p, i), UNCHANGED <<editor, edits>>
    PROVE  ScreenInv'
<1>1. DeskInv'
    BY ReadKeeps DEF ScreenInv
<1>2. PICK r, k : /\ r = requests[p][i]
                  /\ k = IF Permitted(p, r, rows[r.id]) THEN [r EXCEPT !.at = "read", !.row = rows[r.id]]
                         ELSE [r EXCEPT !.at = "refused"]
    OBVIOUS
<1>3. /\ rows' = rows /\ r.at = "sent" /\ r.op # "create"
      /\ requests' = [requests EXCEPT ![p][i] = k]
    BY <1>2 DEF DeskReads
<1>4. /\ DOMAIN requests = EditorPages /\ DOMAIN requests[p] = Places /\ DOMAIN r = RequestFields
    BY <1>2 DEF ScreenInv, DeskInv, AllRequestsSound, RequestsSound, RequestSound
<1>5. /\ k.at \in {"read", "refused"} /\ (k.at = "read" => k.row = rows[r.id])
      /\ k.op = r.op /\ k.edit = r.edit /\ k.text = r.text /\ k.then = r.then /\ k.id = r.id /\ k.seen = r.seen
    BY <1>2, <1>4 DEF RequestFields
<1>6. ASSUME NEW q \in EditorPages, q # p PROVE PageTracked(q)'
    BY <1>3, <1>6 DEF ScreenInv, PageTracked
<1>7. PageTracked(p)'
    <2>1. PICK e, reqs : e = editor[p] /\ reqs = requests[p]
        OBVIOUS
    <2>2. /\ editor'[p] = e /\ requests'[p] = [reqs EXCEPT ![i] = k] /\ DOMAIN reqs = Places
          /\ Tracked(rows, e, reqs) /\ EditsKnown(edits, e, reqs) /\ edits \in Nat /\ reqs[i] = r
        BY <1>2, <1>3, <1>4, <2>1 DEF ScreenInv, PageTracked
    <2>3. ~e.crossed /\ ~e.others =>
              /\ ~e.dirty /\ e.id # 0 => rows[e.id].text = e.text
              /\ r.op = "submit" => rows[r.id].text \in r.seen
        BY <1>2, <1>3, <2>1, RequestTracked
    <2>4. r.at # "none" /\ k.at # "none" /\ k.at # "done"
        BY <1>3, <1>5
    <2>5. Tracked(rows, e, [reqs EXCEPT ![i] = k])
        <3>1. /\ reqs[i].at # "none" /\ k.op = reqs[i].op /\ k.edit = reqs[i].edit /\ k.text = reqs[i].text
              /\ k.then = reqs[i].then /\ k.id = reqs[i].id
            BY <1>5, <2>2, <2>4
        <3>2. ~e.crossed /\ ~e.others =>
                  /\ ~e.dirty /\ e.id # 0 => rows[e.id].text = e.text
                  /\ k.at = "read" => k.row.text = rows[k.id].text
                  /\ k.op = "submit" => rows[k.id].text \in k.seen
            BY <1>5, <2>3
        <3>. QED
            BY <2>2, <2>4, <3>1, <3>2, ServedTracked
    <2>6. EditsKnown(edits, e, [reqs EXCEPT ![i] = k])
        BY <1>5, <2>2, <2>4, EditsStayKnown
    <2>. QED
        BY <1>3, <2>2, <2>5, <2>6 DEF PageTracked
<1>. QED
    BY <1>1, <1>6, <1>7 DEF ScreenInv

\* The text that a request leaves in the article.
LEMMA WrittenText ==
    ASSUME NEW p, NEW n, NEW r, RequestSound(p, n, r), r.at = "read", DOMAIN rows[r.id] = RowFields
    PROVE  /\ r.op = "update" => RowWritten(p, r).text = r.text
           /\ r.op # "update" => RowWritten(p, r).text \in {r.row.text, rows[r.id].text}
<1>. USE DEF RequestSound, RowFields
<1>1. CASE r.op = "update"
    BY <1>1 DEF RowWritten
<1>2. CASE r.op = "submit"
    BY <1>2 DEF RowWritten, Published, Submitted
<1>3. CASE r.op = "requestChanges"
    BY <1>3 DEF RowWritten
<1>4. CASE r.op = "withdraw"
    BY <1>4 DEF RowWritten
<1>5. CASE r.op = "remove"
    BY <1>5 DEF RowWritten
<1>. QED
    BY <1>1, <1>2, <1>3, <1>4, <1>5 DEF Ops

\* Whose write it was, and where.
NotedAt(q, p, r) ==
    editor'[q] = IF r.id \notin {editor[q].id} \cup {requests[q][j].id : j \in Places} \/ rows' = rows THEN editor[q]
                 ELSE [editor[q] EXCEPT !.others = IF q # p THEN TRUE ELSE @ /\ r.op # "update"]

LEMMA WriteTracks ==
    ASSUME ScreenInv, NEW p \in EditorPages, NEW i \in Places, DeskWrites(p, i), DeskInv', edits' = edits,
           \A q \in EditorPages : NotedAt(q, p, requests[p][i])
    PROVE  ScreenInv'
<1>1. PICK r : r = requests[p][i]
    OBVIOUS
<1>2. PICK k : k = IF rows[r.id].status = "gone" THEN [r EXCEPT !.at = "refused"]
                   ELSE [r EXCEPT !.at = "done", !.row = RowWritten(p, r)]
    OBVIOUS
<1>3. /\ r.at = "read" /\ requests' = [requests EXCEPT ![p][i] = k]
      /\ IF rows[r.id].status = "gone" THEN rows' = rows ELSE rows' = [rows EXCEPT ![r.id] = RowWritten(p, r)]
    BY <1>1, <1>2 DEF DeskWrites
<1>4. /\ IsTable(rows) /\ Len(rows) \in Nat /\ RequestSound(p, Len(rows), r) /\ DOMAIN r = RequestFields
      /\ DOMAIN requests = EditorPages /\ \A q \in EditorPages : RequestsSound(q, Len(rows), requests[q])
    BY <1>1, RequestIsSound DEF ScreenInv, DeskInv, AllRequestsSound, RequestSound
<1>5. r.id \in 1 .. Len(rows) /\ DOMAIN rows[r.id] = RowFields /\ r.op # "create"
    BY <1>3, <1>4 DEF RequestSound, IsTable
<1>6. /\ k.at = (IF rows[r.id].status = "gone" THEN "refused" ELSE "done")
      /\ k.op = r.op /\ k.edit = r.edit /\ k.text = r.text /\ k.then = r.then /\ k.id = r.id /\ k.seen = r.seen
    BY <1>2, <1>4 DEF RequestFields
<1>7. /\ \A a \in 1 .. Len(rows) : a # r.id => rows'[a] = rows[a]
      /\ k.at = "done" => rows'[r.id] = RowWritten(p, r)
      /\ k.at # "done" => rows' = rows
    BY <1>3, <1>4, <1>5, <1>6 DEF IsTable
<1>8. \A q \in EditorPages : editor[q].id \in 0 .. Len(rows) /\ \A j \in Places : requests[q][j].id \in 0 .. Len(rows)
    BY PageOf, <1>4 DEF ScreenInv, PageSound, RequestsSound, RequestSound
<1>9. \A q \in EditorPages : DOMAIN editor[q] = PageFields /\ DOMAIN requests[q] = Places /\ PageTracked(q)
    BY <1>4, PageOf DEF ScreenInv, PageSound, RequestsSound
<1>10. ASSUME NEW q \in EditorPages, q # p PROVE PageTracked(q)'
    <2>1. PICK e, f, reqs : e = editor[q] /\ f = editor'[q] /\ reqs = requests[q]
        OBVIOUS
    <2>2. /\ requests'[q] = reqs /\ Tracked(rows, e, reqs) /\ EditsKnown(edits, e, reqs)
          /\ RequestsSound(q, Len(rows), reqs) /\ DOMAIN e = PageFields
        BY <1>3, <1>4, <1>9, <1>10, <2>1 DEF PageTracked
    <2>3. CASE f = e /\ rows' = rows
        BY <2>1, <2>2, <2>3 DEF PageTracked
    <2>4. CASE f = e /\ r.id \notin {e.id} \cup {reqs[j].id : j \in Places}
        <3>1. \A a \in ({e.id} \cup {reqs[j].id : j \in Places}) \ {0} : rows'[a].text = rows[a].text
            BY <1>7, <1>8, <2>1, <2>4
        <3>2. Tracked(rows', e, reqs)
            BY <2>2, <3>1, ElsewhereTracked
        <3>. QED
            BY <2>1, <2>2, <2>4, <3>2 DEF PageTracked
    <2>5. CASE f = [e EXCEPT !.others = TRUE]
        <3>1. /\ f.crossed = e.crossed /\ f.id = e.id /\ f.dirty = e.dirty /\ f.edit = e.edit /\ f.text = e.text
              /\ f.inFlight = e.inFlight /\ f.pressed = e.pressed /\ f.at = e.at /\ f.timer = e.timer /\ f.others
            BY <2>2, <2>5 DEF PageFields
        <3>2. Tracked(rows', f, reqs)
            BY <2>2, <3>1 DEF Tracked, SavesTell
        <3>3. EditsKnown(edits, f, reqs)
            BY <2>2, <3>1 DEF EditsKnown
        <3>. QED
            BY <2>1, <2>2, <3>2, <3>3 DEF PageTracked
    <2>6. NotedAt(q, p, r)
        BY <1>1
    <2>7. \/ f = e /\ rows' = rows
          \/ f = e /\ r.id \notin {e.id} \cup {reqs[j].id : j \in Places}
          \/ f = [e EXCEPT !.others = TRUE]
        BY <1>10, <2>1, <2>6 DEF NotedAt
    <2>. QED
        BY <2>3, <2>4, <2>5, <2>7
<1>11. PageTracked(p)'
    <2>1. PICK e, f, reqs : e = editor[p] /\ f = editor'[p] /\ reqs = requests[p]
        OBVIOUS
    <2>2. /\ requests'[p] = [reqs EXCEPT ![i] = k] /\ Tracked(rows, e, reqs) /\ EditsKnown(edits, e, reqs)
          /\ DOMAIN reqs = Places /\ DOMAIN e = PageFields /\ reqs[i] = r /\ edits \in Nat
        BY <1>1, <1>3, <1>4, <1>9, <2>1 DEF PageTracked, ScreenInv
    <2>3. \/ f = e /\ rows' = rows
          \/ f = [e EXCEPT !.others = e.others /\ r.op # "update"]
        BY <1>1, <2>1 DEF NotedAt
    <2>4. /\ f.crossed = e.crossed /\ f.id = e.id /\ f.dirty = e.dirty /\ f.edit = e.edit /\ f.text = e.text
          /\ f.inFlight = e.inFlight /\ f.pressed = e.pressed /\ f.at = e.at /\ f.timer = e.timer
          /\ r.op # "update" /\ ~f.others => ~e.others
        BY <2>2, <2>3 DEF PageFields
    <2>5. ~e.crossed =>
              /\ r.id = e.id /\ (r.op = "update" => e.dirty)
              /\ ~e.others => /\ ~e.dirty /\ e.id # 0 => rows[e.id].text = e.text
                              /\ r.row.text = rows[r.id].text
        BY <1>1, <1>3, <1>5, <2>1, RequestTracked DEF SaveOps
    <2>6. /\ k.at = "done" /\ r.op = "update" => rows'[r.id].text = r.text
          /\ r.op # "update" /\ r.row.text = rows[r.id].text => rows'[r.id].text = rows[r.id].text
        BY <1>3, <1>4, <1>5, <1>7, WrittenText
    <2>7. ASSUME ~e.crossed, ~f.others
          PROVE  /\ ~e.dirty /\ e.id # 0 => rows'[e.id].text = e.text
                 /\ k.op \in SaveOps /\ k.at = "done" => rows'[k.id].text = k.text
        <3>1. CASE r.op = "update"
            BY <1>6, <2>5, <2>6, <2>7, <3>1
        <3>2. CASE r.op # "update"
            BY <1>5, <1>6, <2>4, <2>5, <2>6, <2>7, <3>2 DEF SaveOps
        <3>. QED
            BY <3>1, <3>2
    <2>8. r.at # "none" /\ k.at \in {"refused", "done"}
        BY <1>3, <1>6
    <2>9. Tracked(rows', f, [reqs EXCEPT ![i] = k])
        BY <1>6, <2>2, <2>4, <2>7, <2>8, ServedTracked
    <2>10. EditsKnown(edits, f, [reqs EXCEPT ![i] = k])
        BY <1>6, <2>2, <2>4, <2>8, EditsStayKnown
    <2>. QED
        BY <2>1, <2>2, <2>9, <2>10 DEF PageTracked
<1>. QED
    BY <1>10, <1>11 DEF ScreenInv

LEMMA ServeTracks == ASSUME ScreenInv, Serve PROVE ScreenInv'
<1>1. DeskInv'
    BY ServeKeeps DEF ScreenInv
<1>2. CASE ClockReaches /\ UNCHANGED <<editor, edits>>
    BY <1>1, <1>2 DEF ClockReaches, ScreenInv, PageTracked
<1>3. ASSUME NEW p \in EditorPages, NEW i \in Places, DeskCreates(p, i) \/ DeskReads(p, i), UNCHANGED <<editor, edits>>
      PROVE  ScreenInv'
    BY <1>3, CreateTracks, ReadTracks
<1>4. ASSUME NEW p \in EditorPages, NEW i \in Places, DeskWrites(p, i), edits' = edits,
             editor' = [q \in EditorPages |->
                           IF requests[p][i].id \notin {editor[q].id} \cup {requests[q][j].id : j \in Places} \/ rows' = rows
                           THEN editor[q]
                           ELSE [editor[q] EXCEPT !.others = IF q # p THEN TRUE
                                                             ELSE @ /\ requests[p][i].op # "update"]]
      PROVE  ScreenInv'
    <2>1. \A q \in EditorPages : NotedAt(q, p, requests[p][i])
        BY <1>4 DEF NotedAt
    <2>. QED
        BY <1>1, <1>4, <2>1, WriteTracks
<1>. QED
    BY <1>2, <1>3, <1>4 DEF Serve

LEMMA ScreenInitially == ASSUME EditorInit PROVE ScreenInv
<1>1. DeskInv /\ edits = 0
    BY DeskInitially DEF EditorInit
<1>2. ASSUME NEW p \in EditorPages PROVE PageTracked(p)
    <2>1. editor[p] = NewPage /\ requests[p] = [i \in Places |-> NoRequest]
        BY DEF EditorInit
    <2>2. UnderWay(requests[p]) = {} /\ \A i \in Places : requests[p][i].edit = 0
        BY <2>1 DEF UnderWay, NoRequest
    <2>3. ~editor[p].timer /\ editor[p].id = 0 /\ editor[p].edit = 0
        BY <2>1 DEF NewPage
    <2>. QED
        BY <1>1, <2>2, <2>3 DEF PageTracked, Tracked, SavesTell, Told, EditsKnown
<1>. QED
    BY <1>1, <1>2 DEF ScreenInv

LEMMA ScreenStep == ASSUME ScreenInv, [EditorNext]_editorVars PROVE ScreenInv'
<1>1. CASE UNCHANGED editorVars
    <2>1. DeskInv'
        BY DeskStep DEF ScreenInv
    <2>. QED
        BY <1>1, <2>1 DEF editorVars, deskVars, ScreenInv, PageTracked
<1>2. CASE Serve
    BY <1>2, ServeTracks
<1>3. ASSUME NEW p \in EditorPages, Open(p) PROVE ScreenInv'
    BY <1>3, OpenTracks
<1>4. ASSUME NEW p \in EditorPages, TypeText(p) PROVE ScreenInv'
    BY <1>4, TypeTextTracks
<1>5. ASSUME NEW p \in EditorPages, TimerFires(p) \/ SaveKeys(p) PROVE ScreenInv'
    BY <1>5, SavesTrack
<1>6. ASSUME NEW p \in EditorPages, Act(p) PROVE ScreenInv'
    BY <1>6, ActTracks
<1>7. ASSUME NEW p \in EditorPages, ConfirmDelete(p) PROVE ScreenInv'
    BY <1>7, ConfirmDeleteTracks
<1>8. ASSUME NEW p \in EditorPages, Leave(p) PROVE ScreenInv'
    BY <1>8, LeaveTracks
<1>9. ASSUME NEW p \in EditorPages, NEW i \in Places, NEW ok \in BOOLEAN, SaveEnds(p, i, ok) PROVE ScreenInv'
    BY <1>9, SaveEndsTracks
<1>10. ASSUME NEW p \in EditorPages, NEW i \in Places, NEW ok \in BOOLEAN, RunEnds(p, i, ok) PROVE ScreenInv'
    BY <1>10, RunEndsTracks
<1>. QED
    BY <1>1, <1>2, <1>3, <1>4, <1>5, <1>6, <1>7, <1>8, <1>9, <1>10 DEF EditorNext

\* A text that is submitted was on the screen when the button was pressed or
\* since: a save that failed is not followed by what waited for it, and a save
\* that ends finds what was typed meanwhile unsaved (article-editor.ts, save
\* and run).  Someone else's write and a second request of the page's are set
\* aside.
THEOREM ScreenCorrect == EditorSpec => HandedOnWasOnScreen
<1> DEFINE Handed ==
          \A p \in EditorPages, i \in Places :
              requests[p][i].op = "submit" /\ requests[p][i].at = "read" /\ requests'[p][i].at = "done" =>
                  requests[p][i].row.text \in requests[p][i].seen \/ editor[p].others \/ editor[p].crossed
<1>1. EditorInit => ScreenInv
    BY ScreenInitially
<1>2. ScreenInv /\ [EditorNext]_editorVars => ScreenInv'
    BY ScreenStep
<1>3. ScreenInv => Handed
    <2>1. SUFFICES ASSUME ScreenInv, NEW p \in EditorPages, NEW i \in Places, requests[p][i].op = "submit",
                          requests[p][i].at = "read", ~editor[p].others, ~editor[p].crossed
                   PROVE  requests[p][i].row.text \in requests[p][i].seen
        OBVIOUS
    <2>. QED
        BY <2>1, RequestTracked
<1>4. ScreenInv /\ [EditorNext]_editorVars => [Handed]_editorVars
    BY <1>3
<1>. HIDE DEF Handed
<1>5. EditorSpec => [][Handed]_editorVars
    BY <1>1, <1>2, <1>4, PTL DEF EditorSpec
<1>. QED
    BY <1>5 DEF HandedOnWasOnScreen, Handed

------------------------------------------------------------------------------
(* The places of the editor's requests.                                    *)

Saves(reqs) == {i \in UnderWay(reqs) : reqs[i].op \in SaveOps}

\* As many places again are free, whatever follows the requests under way.
HasRoom(reqs, n) == IsFiniteSet(Wanted(reqs)) /\ Cardinality(Wanted(reqs)) + n <= Cardinality(Places)

LEMMA WantedPlaces ==
    ASSUME NEW reqs
    PROVE  \A x : x \in Wanted(reqs) <=> \E i \in UnderWay(reqs) : \E k \in 0 .. Followers(reqs[i]) : x = <<i, k>>
BY DEF Wanted

LEMMA FreePlace ==
    ASSUME IsFiniteSet(Places), NEW reqs, HasRoom(reqs, 1), \A i \in Places : Followers(reqs[i]) \in Nat
    PROVE  Min(Places \ UnderWay(reqs)) \in Places \ UnderWay(reqs)
<1>1. ASSUME Places \subseteq UnderWay(reqs) PROVE FALSE
    <2>1. \A i \in Places : <<i, 0>> \in Wanted(reqs)
        BY <1>1, WantedPlaces
    <2>2. PICK f : f = [i \in Places |-> <<i, 0>>]
        OBVIOUS
    <2>3. f \in Injection(Places, Wanted(reqs))
        BY <2>1, <2>2 DEF Injection, IsInjective
    <2>4. Cardinality(Places) <= Cardinality(Wanted(reqs))
        BY <2>3, FS_Injection DEF HasRoom
    <2>5. Cardinality(Wanted(reqs)) \in Nat /\ Cardinality(Places) \in Nat
        BY FS_CardinalityType DEF HasRoom
    <2>. QED
        BY <2>4, <2>5 DEF HasRoom
<1>2. PICK x \in Places \ UnderWay(reqs) : \A y \in Places \ UnderWay(reqs) : x <= y
    BY <1>1, LeastElement, DeskAssumption
<1>. QED
    BY <1>2 DEF Min

LEMMA LessWanted ==
    ASSUME NEW reqs, NEW other, Wanted(other) \subseteq Wanted(reqs), NEW n \in Nat, HasRoom(reqs, n), IsFiniteSet(Places)
    PROVE  HasRoom(other, n)
<1>1. Cardinality(Wanted(reqs)) \in Nat /\ Cardinality(Places) \in Nat
    BY FS_CardinalityType DEF HasRoom
<1>2. IsFiniteSet(Wanted(other)) /\ Cardinality(Wanted(other)) <= Cardinality(Wanted(reqs))
    BY FS_Subset DEF HasRoom
<1>3. Cardinality(Wanted(other)) \in Nat
    BY <1>2, FS_CardinalityType
<1>. QED
    BY <1>1, <1>2, <1>3 DEF HasRoom

LEMMA MoreWanted ==
    ASSUME IsFiniteSet(Places), NEW reqs, NEW other, NEW n \in Nat, NEW k \in Nat, HasRoom(reqs, n + k),
           NEW D, IsFiniteSet(D), Cardinality(D) <= k, Wanted(other) \subseteq Wanted(reqs) \cup D
    PROVE  HasRoom(other, n)
<1>1. PICK W, V : W = Wanted(reqs) /\ V = Wanted(other)
    OBVIOUS
<1>2. /\ IsFiniteSet(W) /\ Cardinality(W) \in Nat /\ Cardinality(Places) \in Nat /\ Cardinality(D) \in Nat
      /\ Cardinality(W) + (n + k) <= Cardinality(Places)
    BY <1>1, FS_CardinalityType DEF HasRoom
<1>3. IsFiniteSet(W \cup D) /\ Cardinality(W \cup D) = Cardinality(W) + Cardinality(D) - Cardinality(W \cap D)
    BY <1>2, FS_Union
<1>4. Cardinality(W \cap D) \in Nat /\ Cardinality(W \cup D) \in Nat
    BY <1>2, <1>3, FS_Intersection, FS_CardinalityType
<1>5. IsFiniteSet(V) /\ Cardinality(V) <= Cardinality(W \cup D) /\ Cardinality(V) \in Nat
    BY <1>1, <1>3, FS_Subset, FS_CardinalityType
<1>. QED
    BY <1>1, <1>2, <1>3, <1>4, <1>5 DEF HasRoom

\* The end of a request frees its place, and one for each that follows it.
LEMMA FreedPlaces ==
    ASSUME IsFiniteSet(Places), NEW reqs, DOMAIN reqs = Places, HasRoom(reqs, 0), NEW i \in UnderWay(reqs),
           Followers(reqs[i]) \in Nat
    PROVE  HasRoom([reqs EXCEPT ![i] = NoRequest], Followers(reqs[i]) + 1)
<1>. DEFINE other == [reqs EXCEPT ![i] = NoRequest]
<1>1. PICK m \in Nat : m = Followers(reqs[i])
    OBVIOUS
<1>2. PICK D : D = {i} \X (0 .. m)
    OBVIOUS
<1>3. Cardinality(Wanted(reqs)) \in Nat /\ Cardinality(Places) \in Nat /\ IsFiniteSet(Wanted(reqs))
      /\ Cardinality(Wanted(reqs)) <= Cardinality(Places)
    BY FS_CardinalityType DEF HasRoom
<1>4. IsFiniteSet(0 .. m) /\ Cardinality(0 .. m) = m + 1
    BY FS_Interval
<1>5. IsFiniteSet({i}) /\ Cardinality({i}) = 1
    BY FS_Singleton
<1>6. IsFiniteSet(D) /\ Cardinality(D) = Cardinality({i}) * Cardinality(0 .. m)
    BY <1>2, <1>4, <1>5, FS_Product
<1>7. Cardinality(D) = m + 1
    BY <1>4, <1>5, <1>6
<1>8. D \subseteq Wanted(reqs)
    BY <1>1, <1>2, WantedPlaces
<1>9. UnderWay(other) \subseteq UnderWay(reqs) \ {i} /\ \A j \in UnderWay(other) : other[j] = reqs[j]
    BY DEF UnderWay, NoRequest
<1>. HIDE DEF other
<1>10. \A x \in Wanted(other) : x \in Wanted(reqs) /\ x \notin D
    BY <1>2, <1>9, WantedPlaces
<1>11. PICK W, V : W = Wanted(reqs) /\ V = Wanted(other)
    OBVIOUS
<1>12. V \subseteq W \ D /\ W \cap D = D
    BY <1>8, <1>10, <1>11
<1>13. IsFiniteSet(W \ D) /\ Cardinality(W \ D) = Cardinality(W) - Cardinality(D)
    BY <1>3, <1>11, <1>12, FS_Difference
<1>14. IsFiniteSet(V) /\ Cardinality(V) <= Cardinality(W \ D) /\ Cardinality(V) \in Nat
    BY <1>12, <1>13, FS_Subset, FS_CardinalityType
<1>. QED
    BY <1>1, <1>3, <1>7, <1>11, <1>13, <1>14 DEF HasRoom, other

Stages == {"none", "sent", "read", "refused", "done"}

Statuses == {"draft", "in_review", "changes_requested", "published", "gone"}

RequestTyped(r) == r.at \in Stages /\ r.row.status \in Statuses

\* The save that others wait for is under way, and there is a place for all
\* that follows what is.
Placed(s, n) ==
    /\ s.page.inFlight \in {0} \cup Saves(s.reqs)
    /\ s.page.at \in {"closed", "open", "left"}
    /\ \A i \in Places : RequestTyped(s.reqs[i])
    /\ HasRoom(s.reqs, n)

LEMMA FewerPlaces ==
    ASSUME IsFiniteSet(Places), NEW s, NEW n \in Nat, NEW m \in Nat, m <= n, Placed(s, n)
    PROVE  Placed(s, m)
<1>1. Cardinality(Wanted(s.reqs)) \in Nat /\ Cardinality(Places) \in Nat
    BY FS_CardinalityType DEF HasRoom, Placed
<1>. QED
    BY <1>1 DEF HasRoom, Placed

\* What sending a request makes of the places.
LEMMA SentPlaced ==
    ASSUME IsFiniteSet(Places), NEW p, Len(rows) \in Nat, NEW s, StateSound(p, Len(rows), s),
           NEW r, r.at = "sent", r.waiters = 0, RequestTyped(r), ThenSound(r.then),
           NEW n \in Nat, Placed(s, n + 1 + Followers(r)),
           NEW u, u.reqs = Send(s, r).reqs, u.page.at = s.page.at,
           \/ u.page.inFlight = s.page.inFlight
           \/ u.page.inFlight = Send(s, r).place /\ r.op \in SaveOps
    PROVE  Placed(u, n)
<1>1. PICK i : i = Min(Places \ UnderWay(s.reqs))
    OBVIOUS
<1>2. \A j \in Places : Followers(s.reqs[j]) \in Nat
    BY DEF StateSound, RequestsSound, RequestSound, Followers
<1>3. Followers(r) = 0 \/ Followers(r) = 1
    BY DEF Followers
<1>4. HasRoom(s.reqs, n + 1) /\ HasRoom(s.reqs, 1)
    <2>1. Cardinality(Wanted(s.reqs)) \in Nat /\ Cardinality(Places) \in Nat
        BY FS_CardinalityType DEF HasRoom, Placed
    <2>. QED
        BY <1>3, <2>1 DEF HasRoom, Placed
<1>5. i \in Places /\ i \notin UnderWay(s.reqs)
    BY <1>1, <1>2, <1>4, FreePlace
<1>6. u.reqs = [s.reqs EXCEPT ![i] = r] /\ Send(s, r).place = i
    BY <1>1 DEF Send
<1>7. DOMAIN s.reqs = Places
    BY DEF StateSound, RequestsSound
<1>8. u.reqs[i] = r /\ \A j \in Places : j # i => u.reqs[j] = s.reqs[j]
    BY <1>5, <1>6, <1>7
<1>9. UnderWay(u.reqs) = UnderWay(s.reqs) \cup {i} /\ i \in UnderWay(u.reqs)
    BY <1>5, <1>8 DEF UnderWay
<1>10. \A j \in UnderWay(s.reqs) : j # i /\ u.reqs[j] = s.reqs[j]
    BY <1>5, <1>8 DEF UnderWay
<1>11. HasRoom(u.reqs, n)
    <2>1. \A x \in Wanted(u.reqs) : x \in Wanted(s.reqs) \/ \E k \in 0 .. Followers(r) : x = <<i, k>>
        BY <1>8, <1>9, <1>10, WantedPlaces
    <2>2. PICK D : D = {i} \X (0 .. Followers(r))
        OBVIOUS
    <2>3. IsFiniteSet(D) /\ Cardinality(D) = Followers(r) + 1
        <3>1. PICK m \in Nat : m = Followers(r)
            BY <1>3
        <3>2. IsFiniteSet(0 .. m) /\ Cardinality(0 .. m) = m + 1
            BY FS_Interval
        <3>3. IsFiniteSet({i}) /\ Cardinality({i}) = 1
            BY FS_Singleton
        <3>4. IsFiniteSet(D) /\ Cardinality(D) = Cardinality({i}) * Cardinality(0 .. m)
            BY <2>2, <3>1, <3>2, <3>3, FS_Product
        <3>. QED
            BY <3>1, <3>2, <3>3, <3>4
    <2>4. Wanted(u.reqs) \subseteq Wanted(s.reqs) \cup D
        BY <2>1, <2>2
    <2>5. PICK k \in Nat : k = 1 + Followers(r)
        BY <1>3
    <2>6. HasRoom(s.reqs, n + k)
        BY <1>3, <2>5 DEF Placed
    <2>7. Cardinality(D) <= k
        BY <1>3, <2>3, <2>5
    <2>. QED
        BY <2>3, <2>4, <2>6, <2>7, MoreWanted
<1>12. \A j \in Places : RequestTyped(u.reqs[j])
    BY <1>8 DEF Placed
<1>13. u.page.inFlight \in {0} \cup Saves(u.reqs)
    <2>1. Saves(s.reqs) \subseteq Saves(u.reqs)
        BY <1>9, <1>10 DEF Saves
    <2>2. r.op \in SaveOps => i \in Saves(u.reqs)
        BY <1>8, <1>9 DEF Saves
    <2>. QED
        BY <1>6, <2>1, <2>2 DEF Placed
<1>. QED
    BY <1>11, <1>12, <1>13 DEF Placed

LEMMA RunPlaced ==
    ASSUME IsFiniteSet(Places), NEW p, Len(rows) \in Nat, NEW s, StateSound(p, Len(rows), s), NEW then, ThenSound(then),
           NEW n \in Nat, Placed(s, n + (IF then = NoThen THEN 0 ELSE 1))
    PROVE  Placed(Run(s, then), n)
<1> DEFINE r == [NoRequest EXCEPT !.at = "sent", !.op = then[1], !.time = then[2], !.id = s.page.id,
                                  !.seen = s.page.pressed]
           t == Send(s, r)
           u == [page |-> [t.page EXCEPT !.busy = TRUE, !.pressed = {}], reqs |-> t.reqs]
<1>1. CASE Run(s, then) = s
    BY <1>1, FewerPlaces
<1>2. CASE then # NoThen /\ s.page.id # 0 /\ Run(s, then) = u
    <2>1. r.at = "sent" /\ r.waiters = 0 /\ RequestTyped(r) /\ r.then = NoThen
        BY DEF NoRequest, RequestTyped, Stages, Statuses, NoRow, Row
    <2>. HIDE DEF r
    <2>2. ThenSound(r.then) /\ Followers(r) = 0
        BY <2>1 DEF ThenSound, Followers
    <2>3. DOMAIN s.page = PageFields
        BY DEF StateSound, PageSound
    <2>4. t.page = [s.page EXCEPT !.crossed = UnderWay(s.reqs) # {} \/ (s.page.crossed /\ r.op # "update")]
        BY DEF Send
    <2>. HIDE DEF t
    <2>5. u.reqs = t.reqs /\ u.page.at = s.page.at /\ u.page.inFlight = s.page.inFlight
        BY <2>3, <2>4 DEF PageFields
    <2>. HIDE DEF u
    <2>6. u.reqs = Send(s, r).reqs
        BY <2>5 DEF t
    <2>7. Placed(s, n + 1 + Followers(r))
        BY <1>2, <2>2
    <2>8. Placed(u, n)
        BY <2>1, <2>2, <2>5, <2>6, <2>7, SentPlaced
    <2>. QED
        BY <1>2, <2>8
<1>. QED
    BY <1>1, <1>2 DEF Run

LEMMA SaveNowPlaced ==
    ASSUME IsFiniteSet(Places), NEW p, Len(rows) \in Nat, NEW s, StateSound(p, Len(rows), s), NEW then, ThenSound(then),
           NEW n \in Nat, Placed(s, n + 1 + (IF then = NoThen THEN 0 ELSE 1))
    PROVE  Placed(SaveNow(p, s, then), n)
<1> DEFINE r == [NoRequest EXCEPT !.at = "sent", !.op = IF s.page.id = 0 THEN "create" ELSE "update",
                                  !.id = s.page.id, !.text = s.page.text, !.edit = s.page.edit, !.then = then]
           t == Send(s, r)
           u == [page |-> [t.page EXCEPT !.inFlight = t.place, !.saveError = FALSE], reqs |-> t.reqs]
           clean == [s EXCEPT !.page.dirty = FALSE]
<1>1. Placed(s, n + (IF then = NoThen THEN 0 ELSE 1))
    BY FewerPlaces
<1>2. CASE SaveNow(p, s, then) = Run(s, then)
    BY <1>1, <1>2, RunPlaced
<1>3. CASE SaveNow(p, s, then) = Run(clean, then)
    <2>1. StateSound(p, Len(rows), clean)
        BY DEF StateSound, PageSound, PageFields
    <2>2. clean.reqs = s.reqs /\ clean.page.at = s.page.at /\ clean.page.inFlight = s.page.inFlight
        BY DEF StateSound, PageSound, PageFields
    <2>. HIDE DEF clean
    <2>3. Placed(clean, n + (IF then = NoThen THEN 0 ELSE 1))
        BY <1>1, <2>2 DEF Placed
    <2>. QED
        BY <1>3, <2>1, <2>3, RunPlaced
<1>4. CASE SaveNow(p, s, then) = u
    <2>1. r.at = "sent" /\ r.waiters = 0 /\ RequestTyped(r) /\ r.then = then /\ r.op \in SaveOps
        BY DEF NoRequest, RequestTyped, Stages, Statuses, NoRow, Row, SaveOps
    <2>. HIDE DEF r
    <2>2. ThenSound(r.then) /\ Followers(r) = (IF then = NoThen THEN 0 ELSE 1)
        BY <2>1 DEF Followers
    <2>3. DOMAIN s.page = PageFields
        BY DEF StateSound, PageSound
    <2>4. t.page = [s.page EXCEPT !.crossed = UnderWay(s.reqs) # {} \/ (s.page.crossed /\ r.op # "update")]
        BY DEF Send
    <2>. HIDE DEF t
    <2>5. u.reqs = t.reqs /\ u.page.at = s.page.at /\ u.page.inFlight = t.place
        BY <2>3, <2>4 DEF PageFields
    <2>. HIDE DEF u
    <2>6. u.reqs = Send(s, r).reqs /\ u.page.inFlight = Send(s, r).place
        BY <2>5 DEF t
    <2>7. Placed(s, n + 1 + Followers(r))
        BY <2>2
    <2>8. Placed(u, n)
        BY <2>1, <2>2, <2>5, <2>6, <2>7, SentPlaced
    <2>. QED
        BY <1>4, <2>8
<1>. QED
    BY <1>2, <1>3, <1>4 DEF SaveNow

\* A save takes a place, or waits in one for the save under way.
LEMMA SavePlaced ==
    ASSUME IsFiniteSet(Places), NEW p, Len(rows) \in Nat, NEW s, StateSound(p, Len(rows), s), NEW then, ThenSound(then),
           NEW n \in Nat, Placed(s, n + 1 + (IF then = NoThen THEN 0 ELSE 1))
    PROVE  Placed(save(p, s, then), n)
<1> DEFINE t == [s EXCEPT !.page.timer = FALSE]
<1>1. /\ DOMAIN s = {"page", "reqs"} /\ DOMAIN s.page = PageFields /\ DOMAIN s.reqs = Places
      /\ \A j \in Places : RequestSound(p, Len(rows), s.reqs[j])
    BY DEF StateSound, PageSound, RequestsSound
<1>2. /\ t.reqs = s.reqs /\ t.page.at = s.page.at /\ t.page.inFlight = s.page.inFlight /\ t.page.id = s.page.id
      /\ DOMAIN t = {"page", "reqs"} /\ DOMAIN t.page = PageFields
    BY <1>1 DEF PageFields
<1>. HIDE DEF t
<1>3. Placed(t, n + 1 + (IF then = NoThen THEN 0 ELSE 1)) /\ StateSound(p, Len(rows), t)
    BY <1>2 DEF Placed, StateSound, PageSound
<1>4. CASE ~saving(s.page)
    BY <1>3, <1>4, SaveNowPlaced DEF save, t
<1>5. CASE saving(s.page)
    <2>1. PICK i \in UnderWay(s.reqs) : i = s.page.inFlight /\ i \in Saves(s.reqs)
        BY <1>5 DEF saving, Placed, Saves
    <2>2. i \in Places
        BY DEF UnderWay
    <2>3. PICK r : r = s.reqs[i]
        OBVIOUS
    <2> DEFINE k == [r EXCEPT !.waiters = @ + 1]
               reqs == [s.reqs EXCEPT ![i] = k]
               u == [t EXCEPT !.reqs = reqs]
    <2>4. save(p, s, then) = u
        BY <1>2, <1>5, <2>1, <2>3 DEF save, t
    <2>5. /\ k.at = r.at /\ k.op = r.op /\ k.row = r.row /\ k.then = r.then /\ k.waiters = r.waiters + 1
          /\ r.waiters \in Nat
        BY <1>1, <2>2, <2>3 DEF RequestSound, RequestFields
    <2>. HIDE DEF k
    <2>6. reqs[i] = k /\ \A j \in Places : j # i => reqs[j] = s.reqs[j]
        BY <1>1, <2>2
    <2>7. u.reqs = reqs /\ u.page = t.page
        BY <1>2
    <2>. HIDE DEF u, reqs
    <2>8. UnderWay(reqs) = UnderWay(s.reqs)
        BY <2>2, <2>3, <2>5, <2>6 DEF UnderWay
    <2>9. Saves(reqs) = Saves(s.reqs)
        BY <2>3, <2>5, <2>6, <2>8 DEF Saves, UnderWay
    <2>10. \A j \in Places : RequestTyped(reqs[j])
        BY <2>3, <2>5, <2>6 DEF Placed, RequestTyped
    <2>11. PICK m \in Nat : m = Followers(r)
        BY <2>5 DEF Followers
    <2>12. Followers(k) = m + 1
        BY <2>5, <2>11 DEF Followers
    <2>13. Wanted(reqs) \subseteq Wanted(s.reqs) \cup {<<i, m + 1>>}
        <3>1. ASSUME NEW x \in Wanted(reqs) PROVE x \in Wanted(s.reqs) \/ x = <<i, m + 1>>
            <4>0. PICK j \in UnderWay(s.reqs) : \E l \in 0 .. Followers(reqs[j]) : x = <<j, l>>
                BY <2>8, <3>1, WantedPlaces
            <4>1. PICK l \in 0 .. Followers(reqs[j]) : x = <<j, l>>
                BY <4>0
            <4>2. CASE j = i
                <5>1. l \in 0 .. m \/ l = m + 1
                    BY <2>6, <2>12, <4>2
                <5>. QED
                    BY <2>1, <2>3, <2>11, <4>1, <4>2, <5>1, WantedPlaces
            <4>3. CASE j # i
                <5>1. reqs[j] = s.reqs[j]
                    BY <2>6, <4>3 DEF UnderWay
                <5>. QED
                    BY <4>1, <5>1, WantedPlaces
            <4>. QED
                BY <4>2, <4>3
        <3>. QED
            BY <3>1
    <2>14. HasRoom(reqs, n)
        <3>1. Placed(s, n + 1)
            BY FewerPlaces
        <3>2. PICK D : D = {<<i, m + 1>>}
            OBVIOUS
        <3>3. IsFiniteSet(D) /\ Cardinality(D) = 1
            BY <3>2, FS_Singleton
        <3>4. Cardinality(D) <= 1
            BY <3>3
        <3>5. HasRoom(s.reqs, n + 1)
            BY <3>1 DEF Placed
        <3>6. Wanted(reqs) \subseteq Wanted(s.reqs) \cup D
            BY <2>13, <3>2
        <3>. QED
            BY <3>3, <3>4, <3>5, <3>6, MoreWanted
    <2>15. u.page.inFlight \in {0} \cup Saves(u.reqs) /\ u.page.at \in {"closed", "open", "left"}
        BY <1>2, <2>7, <2>9 DEF Placed
    <2>16. Placed(u, n)
        BY <2>7, <2>10, <2>14, <2>15 DEF Placed
    <2>. QED
        BY <2>4, <2>16
<1>. QED
    BY <1>4, <1>5

\* Those that waited go on, each in a place of its own at the most.
LEMMA WokenPlaced ==
    ASSUME IsFiniteSet(Places), NEW p, Len(rows) \in Nat, NEW s, StateSound(p, Len(rows), s), NEW waiters \in Nat,
           NEW n \in Nat
    PROVE  Placed(s, n + waiters) => Placed(Woken(p, s, waiters), n)
<1>1. PICK after : /\ Woken(p, s, waiters) = after[waiters]
                   /\ \A k \in 0 .. waiters : after[k] = IF k = 0 THEN s ELSE Resume(p, after[k - 1])
    BY WokenIsChain
<1>. SUFFICES ASSUME Placed(s, n + waiters) PROVE Placed(Woken(p, s, waiters), n)
    OBVIOUS
<1> DEFINE Good(t, k) == StateSound(p, Len(rows), t) /\ Placed(t, n + (waiters - k))
           S == {k \in Nat : k <= waiters => Good(after[k], k)}
<1>2. 0 \in S
    BY <1>1
<1>3. ASSUME NEW k \in Nat, k \in S PROVE k + 1 \in S
    <2>1. SUFFICES ASSUME k + 1 <= waiters PROVE Good(after[k + 1], k + 1)
        OBVIOUS
    <2>2. PICK t : t = after[k] /\ Good(t, k) /\ after[k + 1] = Resume(p, t)
        BY <1>1, <1>3, <2>1
    <2>3. PICK m \in Nat : m = n + (waiters - (k + 1)) /\ m + 1 = n + (waiters - k)
        BY <2>1
    <2>4. Placed(t, m) /\ Placed(t, m + 1)
        BY <2>2, <2>3, FewerPlaces
    <2>5. CASE ~t.page.dirty
        BY <2>2, <2>3, <2>4, <2>5 DEF Resume
    <2>6. CASE t.page.dirty
        <3>1. ThenSound(NoThen)
            BY DEF ThenSound
        <3>2. PICK u : u = SaveNow(p, t, NoThen)
            OBVIOUS
        <3>3. StateSound(p, Len(rows), u)
            BY <2>2, <3>1, <3>2, SaveNowSound
        <3>4. Placed(t, m + 1 + (IF NoThen = NoThen THEN 0 ELSE 1))
            BY <2>3, <2>4
        <3>5. Placed(u, m)
            BY <2>2, <3>1, <3>2, <3>4, SaveNowPlaced
        <3>. QED
            BY <2>2, <2>3, <2>6, <3>2, <3>3, <3>5 DEF Resume
    <2>. QED
        BY <2>5, <2>6
<1>4. \A k \in Nat : k \in S
    <2>. HIDE DEF S
    <2>. QED
        BY <1>2, <1>3, SetInduction
<1>5. Good(after[waiters], waiters)
    BY <1>4
<1>. QED
    BY <1>1, <1>5

------------------------------------------------------------------------------
(* The pages and the articles, typed.                                      *)

PagePlaced(p) == Placed(Now(p), 0)

\* The inductive invariant.
PlacesInv ==
    /\ DeskInv
    /\ \A a \in DOMAIN rows : rows[a].status \in Statuses
    /\ \A p \in EditorPages : PagePlaced(p)

LEMMA PlacedNow ==
    ASSUME IsFiniteSet(Places), PlacesInv, NEW p \in EditorPages
    PROVE  /\ Len(rows) \in Nat /\ StateSound(p, Len(rows), Now(p)) /\ Placed(Now(p), 0)
           /\ Now(p).page = editor[p] /\ Now(p).reqs = requests[p]
           /\ \A n \in Nat : Room(p, n) => Placed(Now(p), n)
BY PageIsSound DEF PlacesInv, PagePlaced, Now, Placed, HasRoom, Room

\* What a page does changes its own places only.
LEMMA PutPlaced ==
    ASSUME IsFiniteSet(Places), PlacesInv, NEW p \in EditorPages, NEW s, Placed(s, 0), PutPage(p, s), DeskInv', UNCHANGED rows
    PROVE  PlacesInv'
<1>1. DOMAIN requests = EditorPages /\ DOMAIN editor = EditorPages
    BY DEF PlacesInv, DeskInv, AllRequestsSound, AllPagesSound
<1>2. ASSUME NEW q \in EditorPages, q # p PROVE PagePlaced(q)'
    <2>1. editor'[q] = editor[q] /\ requests'[q] = requests[q]
        BY <1>2 DEF PutPage
    <2>. QED
        BY <2>1 DEF PlacesInv, PagePlaced, Now, Placed
<1>3. PagePlaced(p)'
    <2>1. requests'[p] = s.reqs
        BY <1>1 DEF PutPage
    <2>2. editor'[p] = s.page \/ editor'[p] = [NewPage EXCEPT !.at = "left"]
        BY <1>1 DEF PutPage
    <2>3. editor'[p].inFlight \in {0} \cup Saves(s.reqs) /\ editor'[p].at \in {"closed", "open", "left"}
        BY <2>2 DEF Placed, NewPage
    <2>. QED
        BY <2>1, <2>3 DEF PagePlaced, Now, Placed
<1>. QED
    BY <1>2, <1>3 DEF PlacesInv

\* A page that changes without its requests.
LEMMA PageTyped ==
    ASSUME IsFiniteSet(Places), PlacesInv, NEW p \in EditorPages, NEW e, editor' = [editor EXCEPT ![p] = e], DeskInv', UNCHANGED deskVars,
           e.inFlight = 0 \/ e.inFlight = editor[p].inFlight, e.at \in {"closed", "open", "left"}
    PROVE  PlacesInv'
<1>1. DOMAIN editor = EditorPages
    BY DEF PlacesInv, DeskInv, AllPagesSound
<1>2. ASSUME NEW q \in EditorPages PROVE PagePlaced(q)'
    <2>1. q # p => editor'[q] = editor[q]
        OBVIOUS
    <2>2. editor'[p] = e
        BY <1>1
    <2>. QED
        BY <2>1, <2>2 DEF PlacesInv, PagePlaced, Now, Placed, deskVars
<1>. QED
    BY <1>2 DEF PlacesInv, deskVars

LEMMA OpenPlaces == ASSUME IsFiniteSet(Places), PlacesInv, NEW p \in EditorPages, Open(p) PROVE PlacesInv'
<1>1. UNCHANGED deskVars /\ DeskInv' /\ DOMAIN editor[p] = PageFields
    BY OpenKeeps, PlacedNow DEF Open, PlacesInv, StateSound, PageSound
<1>2. PICK e : /\ editor' = [editor EXCEPT ![p] = e] /\ e.at = "open"
               /\ e.inFlight = 0 \/ e.inFlight = editor[p].inFlight
    <2>1. CASE editor' = [editor EXCEPT ![p].at = "open"]
        <3>1. PICK e : e = [editor[p] EXCEPT !.at = "open"]
            OBVIOUS
        <3>2. e.at = "open" /\ e.inFlight = editor[p].inFlight
            BY <1>1, <3>1 DEF PageFields
        <3>3. editor' = [editor EXCEPT ![p] = e]
            BY <2>1, <3>1
        <3>. QED
            BY <3>2, <3>3
    <2>2. ASSUME NEW a \in DOMAIN rows,
                 editor' = [editor EXCEPT ![p] = [NewPage EXCEPT !.at = "open", !.id = a, !.copy = rows[a],
                                                                 !.text = rows[a].text]]
          PROVE  \E e : /\ editor' = [editor EXCEPT ![p] = e] /\ e.at = "open"
                        /\ e.inFlight = 0 \/ e.inFlight = editor[p].inFlight
        <3>1. PICK e : e = [NewPage EXCEPT !.at = "open", !.id = a, !.copy = rows[a], !.text = rows[a].text]
            OBVIOUS
        <3>2. e.at = "open" /\ e.inFlight = 0
            BY <3>1 DEF NewPage
        <3>3. editor' = [editor EXCEPT ![p] = e]
            BY <2>2, <3>1
        <3>. QED
            BY <3>2, <3>3
    <2>. QED
        BY <2>1, <2>2 DEF Open
<1>. QED
    BY <1>1, <1>2, PageTyped

LEMMA TypeTextPlaces == ASSUME IsFiniteSet(Places), PlacesInv, NEW p \in EditorPages, TypeText(p) PROVE PlacesInv'
<1>1. UNCHANGED deskVars /\ DeskInv' /\ DOMAIN editor[p] = PageFields /\ editor[p].at = "open"
    BY TypeTextKeeps, PlacedNow DEF TypeText, PlacesInv, StateSound, PageSound
<1>2. PICK text : editor' = [editor EXCEPT ![p] =
                                [editor[p] EXCEPT !.text = text, !.edit = edits', !.dirty = TRUE, !.timer = TRUE,
                                                  !.pressed = IF @ = {} THEN {} ELSE @ \cup {text}]]
    BY DEF TypeText
<1>3. PICK e : e = [editor[p] EXCEPT !.text = text, !.edit = edits', !.dirty = TRUE, !.timer = TRUE,
                                     !.pressed = IF @ = {} THEN {} ELSE @ \cup {text}]
    OBVIOUS
<1>4. e.at = "open" /\ e.inFlight = editor[p].inFlight
    BY <1>1, <1>3 DEF PageFields
<1>. QED
    BY <1>1, <1>2, <1>3, <1>4, PageTyped

LEMMA SavesPlaces == ASSUME IsFiniteSet(Places), PlacesInv, NEW p \in EditorPages, TimerFires(p) \/ SaveKeys(p) PROVE PlacesInv'
<1>1. PutPage(p, save(p, Now(p), NoThen)) /\ Room(p, 1) /\ UNCHANGED rows
    BY DEF TimerFires, SaveKeys
<1>2. Placed(Now(p), 0 + 1 + (IF NoThen = NoThen THEN 0 ELSE 1))
    BY <1>1, PlacedNow
<1>3. Placed(save(p, Now(p), NoThen), 0)
    BY <1>2, PlacedNow, SavePlaced DEF ThenSound
<1>. QED
    BY <1>1, <1>3, SavesKeep, PutPlaced DEF PlacesInv

LEMMA ActPlaces == ASSUME IsFiniteSet(Places), PlacesInv, NEW p \in EditorPages, Act(p) PROVE PlacesInv'
<1> DEFINE s == Now(p)
           t == [s EXCEPT !.page.pressed = {s.page.text}]
<1>1. PICK op \in PanelOffers(p, s.page), time \in {"none", "later"} :
          PutPage(p, save(p, t, <<op, time>>)) /\ Room(p, 2) /\ UNCHANGED rows
    BY DEF Act
<1>2. ThenSound(<<op, time>>)
    <2>1. op \in {"submit", "requestChanges", "withdraw"}
        BY DEF PanelOffers
    <2>. QED
        BY <2>1 DEF ThenSound
<1>3. StateSound(p, Len(rows), s) /\ Len(rows) \in Nat /\ Placed(s, 2)
    BY <1>1, PlacedNow
<1>. HIDE DEF s
<1>4. /\ t.reqs = s.reqs /\ t.page.at = s.page.at /\ t.page.inFlight = s.page.inFlight
      /\ StateSound(p, Len(rows), t)
    BY <1>3 DEF StateSound, PageSound, PageFields
<1>. HIDE DEF t
<1>5. Placed(t, 2)
    BY <1>3, <1>4 DEF Placed
<1>6. PICK n \in Nat : n = 0 + 1 + (IF <<op, time>> = NoThen THEN 0 ELSE 1) /\ n <= 2
    OBVIOUS
<1>7. Placed(t, n)
    BY <1>5, <1>6, FewerPlaces
<1>8. Placed(save(p, t, <<op, time>>), 0)
    BY <1>2, <1>3, <1>4, <1>6, <1>7, SavePlaced
<1>. QED
    BY <1>1, <1>8, ActKeeps, PutPlaced DEF PlacesInv

LEMMA ConfirmDeletePlaces == ASSUME IsFiniteSet(Places), PlacesInv, NEW p \in EditorPages, ConfirmDelete(p) PROVE PlacesInv'
<1> DEFINE e == editor[p]
           s == Now(p)
           r == [NoRequest EXCEPT !.at = "sent", !.op = "remove", !.id = e.id]
           t == Send(s, r)
           u == [page |-> [t.page EXCEPT !.busy = TRUE], reqs |-> t.reqs]
<1>1. PutPage(p, u) /\ Room(p, 1) /\ UNCHANGED rows
    BY DEF ConfirmDelete
<1>2. r.at = "sent" /\ r.waiters = 0 /\ r.then = NoThen /\ RequestTyped(r)
    BY DEF NoRequest, RequestTyped, Stages, Statuses, NoRow, Row
<1>. HIDE DEF r
<1>3. ThenSound(r.then) /\ Followers(r) = 0
    BY <1>2 DEF ThenSound, Followers
<1>4. StateSound(p, Len(rows), s) /\ Len(rows) \in Nat /\ Placed(s, 1)
    BY <1>1, PlacedNow
<1>. HIDE DEF s
<1>5. t.page = [s.page EXCEPT !.crossed = UnderWay(s.reqs) # {} \/ (s.page.crossed /\ r.op # "update")]
    BY DEF Send
<1>6. DOMAIN s.page = PageFields
    BY <1>4 DEF StateSound, PageSound
<1>7. t.reqs = Send(s, r).reqs
    OBVIOUS
<1>. HIDE DEF t
<1>8. u.reqs = t.reqs /\ u.page.at = s.page.at /\ u.page.inFlight = s.page.inFlight
    BY <1>5, <1>6 DEF PageFields
<1>. HIDE DEF u
<1>9. u.reqs = Send(s, r).reqs /\ Placed(s, 0 + 1 + Followers(r))
    BY <1>3, <1>4, <1>7, <1>8
<1>10. Placed(u, 0)
    BY <1>2, <1>3, <1>4, <1>8, <1>9, SentPlaced
<1>. QED
    BY <1>1, <1>10, ConfirmDeleteKeeps, PutPlaced DEF PlacesInv

LEMMA LeavePlaces == ASSUME IsFiniteSet(Places), PlacesInv, NEW p \in EditorPages, Leave(p) PROVE PlacesInv'
<1> DEFINE s == Now(p)
           t == IF s.page.dirty \/ saving(s.page) THEN save(p, s, NoThen) ELSE s
           u == [t EXCEPT !.page.at = "left", !.page.timer = FALSE]
<1>1. PutPage(p, u) /\ Room(p, 1) /\ UNCHANGED rows
    BY DEF Leave
<1>2. StateSound(p, Len(rows), s) /\ Len(rows) \in Nat /\ Placed(s, 0) /\ Placed(s, 1)
    BY <1>1, PlacedNow
<1>. HIDE DEF s
<1>3. ThenSound(NoThen) /\ Placed(s, 0 + 1 + (IF NoThen = NoThen THEN 0 ELSE 1))
    BY <1>2 DEF ThenSound
<1>4. StateSound(p, Len(rows), save(p, s, NoThen)) /\ Placed(save(p, s, NoThen), 0)
    BY <1>2, <1>3, SaveSound, SavePlaced
<1>5. StateSound(p, Len(rows), t) /\ Placed(t, 0)
    BY <1>2, <1>4
<1>. HIDE DEF t
<1>6. u.reqs = t.reqs /\ u.page.at = "left" /\ u.page.inFlight = t.page.inFlight
    BY <1>5 DEF StateSound, PageSound, PageFields
<1>. HIDE DEF u
<1>7. Placed(u, 0)
    BY <1>5, <1>6 DEF Placed
<1>. QED
    BY <1>1, <1>7, LeaveKeeps, PutPlaced DEF PlacesInv

\* A save that ends frees the places of those that followed it.
LEMMA SaveEndsPlaces ==
    ASSUME IsFiniteSet(Places), PlacesInv, NEW p \in EditorPages, NEW i \in Places, NEW ok \in BOOLEAN, SaveEnds(p, i, ok)
    PROVE  PlacesInv'
<1> DEFINE r == requests[p][i]
           answered == IF ok THEN SaveAccepted(editor[p], r) ELSE [editor[p] EXCEPT !.saveError = TRUE]
           e == [answered EXCEPT !.inFlight = 0]
           again == e.dirty /\ ~e.saveError
           after == [e EXCEPT !.timer = @ \/ again]
           reqs == [requests[p] EXCEPT ![i] = NoRequest]
           s == [page |-> after, reqs |-> reqs]
<1>1. PutPage(p, Run(Woken(p, s, r.waiters), r.then)) /\ UNCHANGED rows /\ r.at # "none" /\ DeskInv'
    BY SaveEndsKeeps DEF SaveEnds, PlacesInv
<1>2. /\ Len(rows) \in Nat /\ RequestSound(p, Len(rows), r) /\ PageSound(Len(rows), editor[p])
      /\ RequestsSound(p, Len(rows), requests[p])
    BY RequestIsSound, PageOf DEF DeskInv, AllRequestsSound, PlacesInv
<1>3. r.waiters \in Nat /\ ThenSound(r.then) /\ i \in UnderWay(requests[p]) /\ DOMAIN requests[p] = Places
    BY <1>1, <1>2 DEF RequestSound, RequestsSound, UnderWay
<1>4. PICK l \in Nat : l = (IF r.then = NoThen THEN 0 ELSE 1)
    OBVIOUS
<1>5. Followers(requests[p][i]) = r.waiters + l
    BY <1>4 DEF Followers
<1>6. HasRoom(requests[p], 0) /\ \A j \in Places : RequestTyped(requests[p][j])
    BY PlacedNow DEF Placed
<1>7. editor[p].at \in {"closed", "open", "left"} /\ DOMAIN editor[p] = PageFields
    BY <1>2, PlacedNow DEF Placed, PageSound
<1>8. HasRoom(reqs, r.waiters + l + 1)
    <2>1. Followers(requests[p][i]) \in Nat
        BY <1>3, <1>5
    <2>2. HasRoom([requests[p] EXCEPT ![i] = NoRequest], Followers(requests[p][i]) + 1)
        BY <1>3, <1>6, <2>1, FreedPlaces
    <2>. QED
        BY <1>5, <2>2
<1>9. \A j \in Places : RequestTyped(reqs[j])
    <2>1. RequestTyped(NoRequest)
        BY DEF RequestTyped, NoRequest, Stages, Statuses, NoRow, Row
    <2>. QED
        BY <1>3, <1>6, <2>1
<1>10. /\ PageSound(Len(rows), answered) /\ answered.at = editor[p].at
    <2>. HIDE DEF r
    <2>. QED
        BY <1>2, <1>7 DEF PageSound, PageFields, SaveAccepted, RequestSound
<1>. HIDE DEF answered
<1>11. PageSound(Len(rows), e) /\ e.inFlight = 0 /\ e.at = editor[p].at
    BY <1>10 DEF PageSound, PageFields
<1>. HIDE DEF e
<1>12. PageSound(Len(rows), after) /\ after.inFlight = 0 /\ after.at = editor[p].at
    BY <1>11 DEF PageSound, PageFields
<1>. HIDE DEF after
<1>13. RequestsSound(p, Len(rows), reqs)
    BY <1>2, NoRequestSound DEF RequestsSound
<1>. HIDE DEF reqs
<1>14. PICK waiters \in Nat : waiters = r.waiters
    BY <1>3
<1>15. StateSound(p, Len(rows), s) /\ Placed(s, waiters + l + 1)
    <2>1. DOMAIN s = {"page", "reqs"} /\ s.page = after /\ s.reqs = reqs
        OBVIOUS
    <2>2. HasRoom(reqs, waiters + l + 1)
        BY <1>8, <1>14
    <2>. HIDE DEF s
    <2>. QED
        BY <1>7, <1>9, <1>12, <1>13, <2>1, <2>2 DEF StateSound, Placed
<1>. HIDE DEF s, r
<1>16. Placed(s, l + waiters)
    BY <1>15, FewerPlaces
<1>17. StateSound(p, Len(rows), Woken(p, s, waiters)) /\ Placed(Woken(p, s, waiters), l)
    BY <1>2, <1>15, <1>16, WokenSound, WokenPlaced
<1>18. PICK t : t = Woken(p, s, waiters)
    OBVIOUS
<1>19. Placed(t, 0 + (IF r.then = NoThen THEN 0 ELSE 1))
    BY <1>4, <1>17, <1>18
<1>20. Placed(Run(t, r.then), 0)
    BY <1>2, <1>3, <1>17, <1>18, <1>19, RunPlaced
<1>. QED
    BY <1>1, <1>14, <1>18, <1>20, PutPlaced

\* What was handed on was no save: the save under way stays.
LEMMA RunEndsPlaces ==
    ASSUME IsFiniteSet(Places), PlacesInv, NEW p \in EditorPages, NEW i \in Places, NEW ok \in BOOLEAN, RunEnds(p, i, ok)
    PROVE  PlacesInv'
<1> DEFINE r == requests[p][i]
           e == [editor[p] EXCEPT !.busy = FALSE]
           after == IF ~ok THEN e
                    ELSE IF r.op = "remove" THEN [e EXCEPT !.dirty = FALSE, !.timer = FALSE, !.at = "left"]
                    ELSE [e EXCEPT !.copy = r.row]
           reqs == [requests[p] EXCEPT ![i] = NoRequest]
           s == [page |-> after, reqs |-> reqs]
<1>1. PutPage(p, s) /\ UNCHANGED rows /\ DeskInv' /\ r.op \notin SaveOps
    BY RunEndsKeeps DEF RunEnds, PlacesInv, SaveOps
<1>2. /\ DOMAIN editor[p] = PageFields /\ DOMAIN requests[p] = Places /\ Placed(Now(p), 0)
      /\ Now(p).page = editor[p] /\ Now(p).reqs = requests[p]
    BY PlacedNow DEF StateSound, PageSound, RequestsSound
<1>3. e.at = editor[p].at /\ e.inFlight = editor[p].inFlight /\ DOMAIN e = PageFields
    BY <1>2 DEF PageFields
<1>4. after.at \in {editor[p].at, "left"} /\ after.inFlight = editor[p].inFlight
    <2>. HIDE DEF e, r
    <2>. QED
        BY <1>3 DEF PageFields
<1>. HIDE DEF after
<1>5. reqs[i] = NoRequest /\ \A j \in Places : j # i => reqs[j] = requests[p][j]
    BY <1>2
<1>. HIDE DEF reqs
<1>6. UnderWay(reqs) \subseteq UnderWay(requests[p]) \ {i} /\ Saves(reqs) = Saves(requests[p])
    BY <1>1, <1>5 DEF UnderWay, NoRequest, Saves, SaveOps
<1>7. \A j \in UnderWay(reqs) : reqs[j] = requests[p][j]
    BY <1>5, <1>6 DEF UnderWay
<1>8. Wanted(reqs) \subseteq Wanted(requests[p])
    BY <1>6, <1>7, WantedPlaces
<1>9. HasRoom(reqs, 0)
    BY <1>2, <1>8, LessWanted DEF Placed
<1>10. \A j \in Places : RequestTyped(reqs[j])
    <2>1. RequestTyped(NoRequest)
        BY DEF RequestTyped, NoRequest, Stages, Statuses, NoRow, Row
    <2>. QED
        BY <1>2, <1>5, <2>1 DEF Placed
<1>11. Placed(s, 0)
    BY <1>2, <1>4, <1>6, <1>9, <1>10 DEF Placed
<1>. HIDE DEF s
<1>. QED
    BY <1>1, <1>11, PutPlaced

\* A request that the service takes a step on stays in its place, and what
\* follows it.
LEMMA ServedPlaces ==
    ASSUME IsFiniteSet(Places), PlacesInv, NEW p \in EditorPages, NEW i \in Places, NEW r,
           requests' = [requests EXCEPT ![p][i] = r], requests[p][i].at # "none", r.at # "none",
           r.op = requests[p][i].op, r.waiters = requests[p][i].waiters, r.then = requests[p][i].then, RequestTyped(r),
           DeskInv', \A a \in DOMAIN rows' : rows'[a].status \in Statuses,
           \A q \in EditorPages : editor'[q].inFlight = editor[q].inFlight /\ editor'[q].at = editor[q].at
    PROVE  PlacesInv'
<1>1. SUFFICES ASSUME NEW q \in EditorPages PROVE PagePlaced(q)'
    BY DEF PlacesInv
<1>2. Placed(Now(q), 0) /\ Now(q).page = editor[q] /\ Now(q).reqs = requests[q] /\ DOMAIN requests[q] = Places
    BY PlacedNow DEF StateSound, RequestsSound
<1>3. CASE q # p
    <2>1. requests'[q] = requests[q]
        BY <1>3
    <2>. QED
        BY <1>2, <2>1 DEF PagePlaced, Now, Placed
<1>4. CASE q = p
    <2>1. PICK reqs : reqs = requests'[p]
        OBVIOUS
    <2>2. reqs[i] = r /\ \A j \in Places : j # i => reqs[j] = requests[p][j]
        BY <1>2, <1>4, <2>1 DEF PlacesInv, DeskInv, AllRequestsSound
    <2>3. UnderWay(reqs) = UnderWay(requests[p])
        BY <2>2 DEF UnderWay
    <2>4. Saves(reqs) = Saves(requests[p])
        BY <2>2, <2>3 DEF Saves, UnderWay
    <2>5. \A j \in Places : Followers(reqs[j]) = Followers(requests[p][j])
        BY <2>2 DEF Followers
    <2>6. Wanted(reqs) \subseteq Wanted(requests[p])
        BY <2>3, <2>5, WantedPlaces DEF UnderWay
    <2>7. HasRoom(reqs, 0)
        BY <1>2, <1>4, <2>6, LessWanted DEF Placed
    <2>8. \A j \in Places : RequestTyped(reqs[j])
        BY <1>2, <1>4, <2>2 DEF Placed
    <2>. QED
        BY <1>2, <1>4, <2>1, <2>4, <2>7, <2>8 DEF PagePlaced, Now, Placed
<1>. QED
    BY <1>3, <1>4

\* What is written is an article in one of its states.
LEMMA WrittenTyped ==
    ASSUME NEW p, NEW r, r.op \in Ops \ {"create"}, r.row.status \in Statuses, DOMAIN r.row = RowFields,
           DOMAIN rows[r.id] = RowFields
    PROVE  RowWritten(p, r).status \in Statuses
<1>. USE DEF Statuses, RowFields
<1>1. CASE r.op = "update"
    BY <1>1 DEF RowWritten
<1>2. CASE r.op = "submit"
    BY <1>2 DEF RowWritten, Published, Submitted
<1>3. CASE r.op = "requestChanges"
    BY <1>3 DEF RowWritten
<1>4. CASE r.op = "withdraw"
    BY <1>4 DEF RowWritten
<1>5. CASE r.op = "remove"
    BY <1>5 DEF RowWritten
<1>. QED
    BY <1>1, <1>2, <1>3, <1>4, <1>5 DEF Ops

\* The step itself, as a change of one request and of the table.
LEMMA ServedAs ==
    ASSUME IsFiniteSet(Places), PlacesInv, NEW p \in EditorPages, NEW i \in Places, DeskCreates(p, i) \/ DeskReads(p, i) \/ DeskWrites(p, i)
    PROVE  \E r : /\ requests' = [requests EXCEPT ![p][i] = r] /\ requests[p][i].at # "none" /\ r.at # "none"
                  /\ r.op = requests[p][i].op /\ r.waiters = requests[p][i].waiters /\ r.then = requests[p][i].then
                  /\ RequestTyped(r) /\ \A a \in DOMAIN rows' : rows'[a].status \in Statuses
<1> DEFINE k == requests[p][i]
           Answer(r) == /\ requests' = [requests EXCEPT ![p][i] = r] /\ r.at # "none"
                      /\ r.op = k.op /\ r.waiters = k.waiters /\ r.then = k.then /\ RequestTyped(r)
                      /\ \A a \in DOMAIN rows' : rows'[a].status \in Statuses
<1>1. RequestSound(p, Len(rows), k) /\ Len(rows) \in Nat /\ RequestTyped(k)
    BY RequestIsSound, PlacedNow DEF PlacesInv, Placed
<1>2. IsTable(rows) /\ \A a \in DOMAIN rows : rows[a].status \in Statuses
    BY DEF PlacesInv, DeskInv
<1>3. CASE DeskCreates(p, i)
    <2> DEFINE row == Row(UserOf[p], k.text)
               r == [k EXCEPT !.at = "done", !.id = Len(rows'), !.row = rows'[Len(rows')]]
    <2>1. rows' = Append(rows, row) /\ requests' = [requests EXCEPT ![p][i] = r]
        BY <1>3 DEF DeskCreates
    <2>2. DOMAIN row = RowFields /\ row.status \in Statuses
        BY DEF Row, RowFields, Statuses
    <2>. HIDE DEF row
    <2>3. /\ IsTable(rows') /\ Len(rows') = Len(rows) + 1 /\ rows'[Len(rows) + 1] = row
          /\ \A a \in 1 .. Len(rows) : rows'[a] = rows[a]
        BY <1>2, <2>1, <2>2, TableGrows
    <2>4. \A a \in DOMAIN rows' : rows'[a].status \in Statuses
        <3>1. DOMAIN rows' = 1 .. Len(rows) + 1 /\ DOMAIN rows = 1 .. Len(rows)
            BY <1>2, <2>3 DEF IsTable
        <3>. QED
            BY <1>1, <1>2, <2>2, <2>3, <3>1
    <2>. HIDE DEF k
    <2>5. /\ r.at = "done" /\ r.op = k.op /\ r.waiters = k.waiters /\ r.then = k.then /\ r.row = row
        BY <1>1, <2>3 DEF RequestSound, RequestFields
    <2>. HIDE DEF r
    <2>6. Answer(r)
        BY <2>1, <2>2, <2>4, <2>5 DEF RequestTyped, Stages, k
    <2>. QED
        BY <1>3, <2>6 DEF DeskCreates, k
<1>4. CASE DeskReads(p, i)
    <2>1. k.at = "sent" /\ k.op # "create" /\ UNCHANGED rows
        BY <1>4 DEF DeskReads
    <2>2. rows[k.id].status \in Statuses
        <3>. HIDE DEF k
        <3>. QED
            BY <1>1, <1>2, <2>1 DEF RequestSound, IsTable
    <2>3. PICK r : /\ requests' = [requests EXCEPT ![p][i] = r]
                   /\ r = [k EXCEPT !.at = "read", !.row = rows[k.id]] \/ r = [k EXCEPT !.at = "refused"]
        BY <1>4 DEF DeskReads
    <2>4. /\ r.at \in {"read", "refused"} /\ r.op = k.op /\ r.waiters = k.waiters /\ r.then = k.then
          /\ r.row = rows[k.id] \/ r.row = k.row
        <3>. HIDE DEF k
        <3>. QED
            BY <1>1, <2>3 DEF RequestSound, RequestFields
    <2>5. RequestTyped(r)
        <3>. HIDE DEF k
        <3>. QED
            BY <1>1, <2>2, <2>4 DEF RequestTyped, Stages
    <2>6. Answer(r)
        BY <1>2, <2>1, <2>3, <2>4, <2>5
    <2>. QED
        BY <2>1, <2>6
<1>5. CASE DeskWrites(p, i)
    <2>1. k.at = "read"
        BY <1>5 DEF DeskWrites
    <2>2. k.id \in 1 .. Len(rows) /\ k.op \in Ops \ {"create"} /\ DOMAIN k.row = RowFields /\ DOMAIN rows[k.id] = RowFields
          /\ k.row.status \in Statuses
        <3>. HIDE DEF k
        <3>. QED
            BY <1>1, <1>2, <2>1 DEF RequestSound, IsTable, RequestTyped
    <2>3. CASE rows[k.id].status = "gone"
        <3>1. UNCHANGED rows /\ requests' = [requests EXCEPT ![p][i] = [k EXCEPT !.at = "refused"]]
            BY <1>5, <2>3 DEF DeskWrites
        <3>2. PICK r : r = [k EXCEPT !.at = "refused"]
            OBVIOUS
        <3>3. r.at = "refused" /\ r.op = k.op /\ r.waiters = k.waiters /\ r.then = k.then /\ r.row = k.row
            <4>. HIDE DEF k
            <4>. QED
                BY <1>1, <3>2 DEF RequestSound, RequestFields
        <3>4. Answer(r)
            BY <1>1, <1>2, <3>1, <3>2, <3>3 DEF RequestTyped, Stages
        <3>. QED
            BY <2>1, <3>4
    <2>4. CASE rows[k.id].status # "gone"
        <3>1. PICK row : row = RowWritten(p, k)
            OBVIOUS
        <3>2. rows' = [rows EXCEPT ![k.id] = row] /\ requests' = [requests EXCEPT ![p][i] = [k EXCEPT !.at = "done", !.row = row]]
            BY <1>5, <2>4, <3>1 DEF DeskWrites
        <3>3. row.status \in Statuses
            <4>. HIDE DEF k
            <4>. QED
                BY <2>2, <3>1, WrittenTyped
        <3>4. \A a \in DOMAIN rows' : rows'[a].status \in Statuses
            <4>. HIDE DEF k
            <4>. QED
                BY <1>2, <3>2, <3>3
        <3>5. PICK r : r = [k EXCEPT !.at = "done", !.row = row]
            OBVIOUS
        <3>6. r.at = "done" /\ r.op = k.op /\ r.waiters = k.waiters /\ r.then = k.then /\ r.row = row
            <4>. HIDE DEF k
            <4>. QED
                BY <1>1, <3>5 DEF RequestSound, RequestFields
        <3>7. Answer(r)
            BY <3>2, <3>3, <3>4, <3>5, <3>6 DEF RequestTyped, Stages
        <3>. QED
            BY <2>1, <3>7
    <2>. QED
        BY <2>3, <2>4
<1>. QED
    BY <1>3, <1>4, <1>5

LEMMA ServePlaces == ASSUME IsFiniteSet(Places), PlacesInv, Serve PROVE PlacesInv'
<1>1. DeskInv'
    BY ServeKeeps DEF PlacesInv
<1>2. CASE ClockReaches /\ UNCHANGED editor
    BY <1>1, <1>2 DEF ClockReaches, PlacesInv, PagePlaced, Now, Placed
<1>3. ASSUME NEW p \in EditorPages, NEW i \in Places, DeskCreates(p, i) \/ DeskReads(p, i) \/ DeskWrites(p, i),
             \A q \in EditorPages : editor'[q].inFlight = editor[q].inFlight /\ editor'[q].at = editor[q].at
      PROVE  PlacesInv'
    BY <1>1, <1>3, ServedAs, ServedPlaces
<1>4. ASSUME NEW p \in EditorPages, NEW i \in Places,
             editor' = [q \in EditorPages |->
                           IF requests[p][i].id \notin {editor[q].id} \cup {requests[q][j].id : j \in Places} \/ rows' = rows
                           THEN editor[q]
                           ELSE [editor[q] EXCEPT !.others = IF q # p THEN TRUE
                                                             ELSE @ /\ requests[p][i].op # "update"]]
      PROVE  \A q \in EditorPages : editor'[q].inFlight = editor[q].inFlight /\ editor'[q].at = editor[q].at
    <2>1. SUFFICES ASSUME NEW q \in EditorPages PROVE editor'[q].inFlight = editor[q].inFlight /\ editor'[q].at = editor[q].at
        OBVIOUS
    <2>2. editor'[q] = editor[q] \/ \E b : editor'[q] = [editor[q] EXCEPT !.others = b]
        BY <1>4
    <2>3. DOMAIN editor[q] = PageFields
        BY PlacedNow DEF StateSound, PageSound, PlacesInv, DeskInv, AllPagesSound
    <2>. QED
        BY <2>2, <2>3 DEF PageFields
<1>. QED
    BY <1>2, <1>3, <1>4 DEF Serve

LEMMA PlacesInitially == ASSUME IsFiniteSet(Places), EditorInit PROVE PlacesInv
<1>1. DeskInv
    BY DeskInitially
<1>2. rows = <<>> /\ DOMAIN rows = {}
    BY DEF EditorInit
<1>3. ASSUME NEW p \in EditorPages PROVE PagePlaced(p)
    <2>1. requests[p] = [i \in Places |-> NoRequest] /\ editor[p] = NewPage
        BY DEF EditorInit
    <2>2. UnderWay(requests[p]) = {}
        BY <2>1 DEF UnderWay, NoRequest
    <2>3. Wanted(requests[p]) = {}
        BY <2>2, WantedPlaces
    <2>4. Cardinality(Places) \in Nat
        BY FS_CardinalityType
    <2>5. HasRoom(requests[p], 0)
        BY <2>3, <2>4, FS_EmptySet DEF HasRoom
    <2>6. \A i \in Places : RequestTyped(requests[p][i])
        BY <2>1 DEF RequestTyped, NoRequest, Stages, Statuses, NoRow, Row
    <2>. QED
        BY <2>1, <2>5, <2>6 DEF PagePlaced, Now, Placed, NewPage
<1>. QED
    BY <1>1, <1>2, <1>3 DEF PlacesInv

LEMMA PlacesStep == ASSUME IsFiniteSet(Places), PlacesInv, [EditorNext]_editorVars PROVE PlacesInv'
<1>1. CASE UNCHANGED editorVars
    <2>1. DeskInv'
        BY <1>1, DeskStep DEF PlacesInv
    <2>. QED
        BY <1>1, <2>1 DEF editorVars, deskVars, PlacesInv, PagePlaced, Now, Placed
<1>2. CASE Serve
    BY <1>2, ServePlaces
<1>3. ASSUME NEW p \in EditorPages, Open(p) PROVE PlacesInv'
    BY <1>3, OpenPlaces
<1>4. ASSUME NEW p \in EditorPages, TypeText(p) PROVE PlacesInv'
    BY <1>4, TypeTextPlaces
<1>5. ASSUME NEW p \in EditorPages, TimerFires(p) \/ SaveKeys(p) PROVE PlacesInv'
    BY <1>5, SavesPlaces
<1>6. ASSUME NEW p \in EditorPages, Act(p) PROVE PlacesInv'
    BY <1>6, ActPlaces
<1>7. ASSUME NEW p \in EditorPages, ConfirmDelete(p) PROVE PlacesInv'
    BY <1>7, ConfirmDeletePlaces
<1>8. ASSUME NEW p \in EditorPages, Leave(p) PROVE PlacesInv'
    BY <1>8, LeavePlaces
<1>9. ASSUME NEW p \in EditorPages, NEW i \in Places, NEW ok \in BOOLEAN, SaveEnds(p, i, ok) PROVE PlacesInv'
    BY <1>9, SaveEndsPlaces
<1>10. ASSUME NEW p \in EditorPages, NEW i \in Places, NEW ok \in BOOLEAN, RunEnds(p, i, ok) PROVE PlacesInv'
    BY <1>10, RunEndsPlaces
<1>. QED
    BY <1>1, <1>2, <1>3, <1>4, <1>5, <1>6, <1>7, <1>8, <1>9, <1>10 DEF EditorNext

\* The save that others wait for is under way, so that its end wakes them
\* (article-editor.ts, save and inFlight); a request and an article are in one
\* of their states.
THEOREM EditorTypeCorrect ==
    ASSUME IsFiniteSet(Places)
    PROVE  EditorSpec => []EditorTypeOK
<1>1. EditorInit => PlacesInv
    BY PlacesInitially
<1>2. PlacesInv /\ [EditorNext]_editorVars => PlacesInv'
    BY PlacesStep
<1>3. ASSUME PlacesInv PROVE EditorTypeOK
    <2>1. ASSUME NEW p \in EditorPages
          PROVE  /\ editor[p].at \in {"closed", "open", "left"} /\ editor[p].id \in 0 .. Len(rows)
                 /\ editor[p].inFlight \in {0} \cup UnderWay(requests[p])
                 /\ \A i \in Places : requests[p][i].at \in {"none", "sent", "read", "refused", "done"}
        BY <1>3, PlacedNow DEF Placed, Saves, StateSound, PageSound, RequestTyped, Stages
    <2>. QED
        BY <1>3, <2>1 DEF EditorTypeOK, PlacesInv, DeskInv, Statuses
<1>. QED
    BY <1>1, <1>2, <1>3, PTL DEF EditorSpec

===============================================================================
