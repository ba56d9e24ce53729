------------------------------ MODULE RecordPages ------------------------------
(***************************************************************************)
(* The pages that show records: what each asks for, what it shows while    *)
(* an answer is out, what it lets the visitor do, and what it writes.      *)
(*                                                                         *)
(* A page is a table of resources.  A resource asks again whenever what it *)
(* depends on in the address changes, and forgets its value then; the      *)
(* first value the server drew is handed to the browser and stands         *)
(* wherever the resource has none of its own.  One page is open at a time; *)
(* a page whose address changes stays, another page is a new one.          *)
(*                                                                         *)
(* Loaded names stand in `lookups`: module ReferenceData has how they are  *)
(* loaded.  The framework's `resource` is modelled from how the pages use  *)
(* it.  What is offered leads to addresses of module SiteRoutes.  Wording, *)
(* formats and the order of rows are left out.                             *)
(***************************************************************************)
EXTENDS SiteRoutes, FiniteSets

CONSTANTS
    Records, NoRecord,  \* what an address names, and what an address without has
    Bare,               \* the records about which nothing is recorded
    Rows,               \* the rows of a list, or the record itself
    Terms, NoTerm,      \* what a list is narrowed to, and what it is not
    LastOffset,         \* the last page of a list (a bound)
    MaxMoves            \* addresses and terms chosen, and writes (a bound)

ASSUME PagesAssumption == LastOffset \in Nat /\ MaxMoves \in Nat

NoValue == [rows |-> {}, of |-> <<>>, known |-> FALSE]

------------------------------------------------------------------------------
(* The pages: what each reads, and the lists of names that are loaded      *)
(* before a resource has its value; what the address and the page's own    *)
(* controls set; what it writes, and whether one write is made at a time.  *)

Reads(keys, waits) == [keys |-> keys, waits |-> waits]

Reader(reads) == [reads |-> reads, writes |-> "nothing", single |-> TRUE]

Writer(reads, writes, single) == [Reader(reads) EXCEPT !.writes = writes, !.single = single]

TransferFeed == Reader([transfers |-> Reads({"term", "offset"}, {"teams"})])

ClubList == Reader([clubs |-> Reads({"offset"}, {"leagues"})])

CompetitionList == Reader([leagues |-> Reads({"offset"}, {})])

\* The entrants are asked for once a season is picked.
CompetitionPage ==
    Reader([league |-> Reads({"id"}, {}), clubs |-> Reads({"id", "offset"}, {}),
            entrants |-> Reads({"id", "season"}, {"teams"})])

SeasonList == Reader([seasons |-> Reads({}, {})])

\* Too short a term is not sent: it finds nothing.
SearchPage == Reader([results |-> Reads({"term"}, {})])

CoachPage == Reader([coach |-> Reads({"id"}, {"teams"}), spells |-> Reads({"id"}, {})])

ClubPage ==
    Writer([club |-> Reads({"id"}, {"leagues"}), squad |-> Reads({"id"}, {}), staff |-> Reads({"id"}, {}),
            entries |-> Reads({"id"}, {"seasons", "leagues"})], "entries", TRUE)

\* The career's clubs have their names when the player is there.  Mutant: the
\* player is not kept waiting for them.
PlayerReads(waits) ==
    Reader([player |-> Reads({"id"}, waits), transfers |-> Reads({"id"}, {}),
            stats |-> Reads({"id"}, {"seasons", "leagues"}), values |-> Reads({"id"}, {})])
PlayerPageUnnamed == PlayerReads({})
PlayerPage == PlayerReads({"teams"})

GamesHub == Reader([games |-> Reads({}, {})])

ArticlePage == Reader([article |-> Reads({"id"}, {}), more |-> Reads({"id"}, {})])

\* A row that is being written is locked, the others are not.
UserList == Writer([users |-> Reads({"term", "offset"}, {})], "users", FALSE)

AccountPage == Writer([identities |-> Reads({}, {})], "identities", TRUE)

------------------------------------------------------------------------------
(* Their templates: the resource a whole page hangs on; what each part     *)
(* says when it has no rows to show, and the names its rows are written    *)
(* with; and who is offered what.                                          *)

Part(loading, error, none, names) ==
    [loading |-> loading, error |-> error, none |-> none, names |-> names, season |-> "any", first |-> "value"]

List(names) == Part("loading", "error", "empty", names)
Section(names) == Part("empty", "empty", "empty", names)
Optional(names) == Part("", "", "", names)

\* A list that shows that it is loading rather than what it had.
Patient(names) == [List(names) EXCEPT !.first = "loading"]

\* A link to another page, and who is offered it; a control of the page itself.
Link(who, path) == [who |-> who, path |-> path]
Control(who) == Link(who, <<>>)

Template(shell, parts, offers) == [shell |-> shell, parts |-> parts, offers |-> offers]

TransferFeedView ==
    Template("none", [transfers |-> List({"teams"})], [setTerm |-> Control("all"), goTo |-> Control("all")])

ClubListView ==
    Template("none", [clubs |-> List({"leagues"})],
             [create |-> Link("admin", <<"clubs", "new">>), goTo |-> Control("all")])

CompetitionListView ==
    Template("none", [leagues |-> List({})],
             [create |-> Link("admin", <<"competitions", "new">>), goTo |-> Control("all")])

CompetitionPageView ==
    Template("league",
        [clubs    |-> [Part("loading", "empty", "empty", {}) EXCEPT !.season = "now"],
         entrants |-> [List({"teams", "seasons"}) EXCEPT !.season = "picked"]],
        [edit |-> Link("admin", <<"competitions", "id", "edit">>),
         pickSeason |-> Control("all"), goTo |-> Control("all")])

SeasonListView ==
    Template("none", [seasons |-> List({})],
             [create |-> Link("admin", <<"seasons", "new">>), edit |-> Link("admin", <<"seasons", "id", "edit">>)])

SearchPageView == Template("none", [results |-> List({})], [setTerm |-> Control("all")])

CoachPageView ==
    Template("coach", [spells |-> Section({"teams"})],
        [edit |-> Link("editor", <<"coaches", "id", "edit">>),
         appoint |-> Link("editor", <<"coaches", "id", "spells", "new">>)])

\* The club itself is the administrators', its contents are its editors'.
ClubPageView ==
    Template("club",
        [squad |-> Section({}), staff |-> Section({}),
         entries |-> Part("loading", "empty", "empty", {"seasons", "leagues"})],
        [edit |-> Link("admin", <<"clubs", "id", "edit">>),
         editors |-> Link("admin", <<"admin", "clubs", "id", "editors">>),
         addPlayer |-> Link("editor", <<"players", "new">>),
         enter |-> Link("editor", <<"clubs", "id", "seasons", "new">>),
         write |-> Control("admin")])

\* The value chart is drawn for any answer; a move is corrected row by row.
PlayerParts ==
    [stats |-> Optional({"teams", "leagues", "seasons"}), values |-> Part("", "", "rows", {}),
     transfers |-> Section({"teams"})]

PlayerPageView ==
    Template("player", PlayerParts,
        [edit |-> Link("editor", <<"players", "id", "edit">>),
         transfer |-> Link("editor", <<"players", "id", "transfer">>),
         correct |-> Link("editor", <<"transfers", "id", "edit">>),
         value |-> Link("admin", <<"players", "id", "values", "new">>)])

GamesHubView ==
    Template("none", [games |-> Part("loading", "error", "rows", {})],
             [retry |-> Control("all"), play |-> Link("all", <<"games", "played-for-both">>)])

\* The author's own link is there whatever role the author has by now.
ArticlePageView ==
    Template("article", [more |-> Optional({})],
             [edit |-> Link("author", <<"desk", "id">>), articles |-> Link("all", <<"articles">>)])

\* One's own row offers no deletion, and a change of one's own role says what it does.
UserListView ==
    Template("none", [users |-> Patient({})],
             [setTerm |-> Control("all"), goTo |-> Control("all"), write |-> Control("all")])

AccountPageView ==
    Template("none", [identities |-> Patient({})],
             [write |-> Control("all"), login |-> Link("all", <<"login">>)])

Table(class, view) == [class |-> class, view |-> view]

Pages ==
    [TransferFeed    |-> Table(TransferFeed, TransferFeedView),
     ClubList        |-> Table(ClubList, ClubListView),
     CompetitionList |-> Table(CompetitionList, CompetitionListView),
     CompetitionPage |-> Table(CompetitionPage, CompetitionPageView),
     SeasonList      |-> Table(SeasonList, SeasonListView),
     SearchPage      |-> Table(SearchPage, SearchPageView),
     CoachPage       |-> Table(CoachPage, CoachPageView),
     ClubPage        |-> Table(ClubPage, ClubPageView),
     PlayerPage      |-> Table(PlayerPage, PlayerPageView),
     GamesHub        |-> Table(GamesHub, GamesHubView),
     ArticlePage     |-> Table(ArticlePage, ArticlePageView),
     UserList        |-> Table(UserList, UserListView),
     AccountPage     |-> Table(AccountPage, AccountPageView)]

------------------------------------------------------------------------------

VARIABLES
    side,       \* where the page lives: server or browser
    page, args, \* args: [id, season, term, offset]
    res,        \* res[r]: [status, value, got, seed]
    lookups,    \* lists of names that are loaded
    slot,       \* the row the page shows as being written
    sent,       \* sent[row]: writes of the row under way
    gone,       \* rows written, and so not what they were
    missed,     \* history: a row was written and the list not read again
    moves

pagesVars == <<side, page, args, res, lookups, slot, sent, gone, missed, moves>>

reads(p) == Pages[p].class.reads

Written == Pages[page].class.writes

Served(p) == p \notin {"UserList", "AccountPage"}

\* The addresses that open a page.
ArgsOf(p) ==
    [id: IF \E r \in DOMAIN reads(p) : "id" \in reads(p)[r].keys THEN Records ELSE {NoRecord},
     season: {"now"}, term: IF p = "SearchPage" THEN Terms \cup {NoTerm} ELSE {NoTerm}, offset: {0}]

Query(p, a, r) == [k \in reads(p)[r].keys |-> a[k]]

Unasked(p, a, r) == "season" \in reads(p)[r].keys /\ a.season = "now"

\* A resource that asks: the seed stands for what it does not have yet.
Ask(p, a, r, seed) ==
    [status |-> IF Unasked(p, a, r) THEN "idle" ELSE "loading", value |-> seed, got |-> NoValue, seed |-> seed]

Loading(r) == res[r].status \in {"loading", "reloading"}

------------------------------------------------------------------------------
(* What is on the screen.                                                  *)

Stands ==
    LET shell == Pages[page].view.shell IN shell = "none" \/ res[shell].value.known

\* What a part says.  Mutant: that it is loading, before it looks for a value.
SaysLoading(part, r) == IF Loading(r) THEN part.loading ELSE "rows"
Says(part, r) ==
    LET v == res[r].value
    IN  CASE part.first = "loading" /\ Loading(r)  -> "loading"
          [] OTHER ->
             CASE v.known /\ v.rows # {}           -> "rows"
               [] ~v.known /\ Loading(r)           -> part.loading
               [] ~v.known /\ res[r].status = "error" -> part.error
               [] OTHER                            -> part.none

Parts == Pages[page].view.parts

\* The parts on the screen: none before the page's own record is there.
Picture ==
    [r \in DOMAIN Parts |->
        IF Stands /\ (Parts[r].season # "any" => Parts[r].season = args.season) THEN Says(Parts[r], r) ELSE "hidden"]

DrawnRows(r) == IF r \in DOMAIN Picture /\ Picture[r] = "rows" THEN res[r].value.rows ELSE {}

\* The list that a paginator stands under.
Paged == {r \in DOMAIN Picture : Picture[r] = "rows" /\ "offset" \in DOMAIN res[r].value.of}

\* What is offered, and to whom.
OfferedTo(who) ==
    LET offers == Pages[page].view.offers
        may(c) == \/ offers[c].who = "all"
                  \/ offers[c].who = "editor" /\ who \in {"editor", "admin"}
                  \/ who = "admin"
                  \/ offers[c].who = "author" /\ who # "visitor"
        drawn(c) == /\ c = "goTo" => Paged # {}
                    /\ c = "write" => DrawnRows(Written) # {}
                    /\ c = "pickSeason" => "seasons" \in lookups
                    /\ c = "retry" => \E r \in DOMAIN Picture : Picture[r] = "error"
    IN  IF Stands THEN {c \in DOMAIN offers : may(c) /\ drawn(c)} ELSE {}

------------------------------------------------------------------------------
(* Opening pages.                                                          *)

\* What was still being written when a page is left is not followed.
NewInstance(p, a, seeds) ==
    /\ page' = p /\ args' = a
    /\ res' = [r \in DOMAIN reads(p) |-> Ask(p, a, r, seeds[r])]
    /\ slot' = "none" /\ sent' = [x \in Rows |-> 0] /\ gone' = {} /\ missed' = FALSE

PagesInit ==
    /\ \E p \in DOMAIN Pages : \E a \in ArgsOf(p) :
          /\ page = p /\ args = a
          /\ side = IF Served(p) THEN "server" ELSE "browser"
          /\ res = [r \in DOMAIN reads(p) |-> Ask(p, a, r, NoValue)]
    /\ lookups = {} /\ moves = 0
    /\ slot = "none" /\ sent = [x \in Rows |-> 0] /\ gone = {} /\ missed = FALSE

\* The server waits for everything that is out; the browser takes the values
\* and the names that came, once.
Hydrate ==
    /\ side = "server" /\ \A r \in DOMAIN res : ~Loading(r)
    /\ side' = "browser"
    /\ NewInstance(page, args, [r \in DOMAIN res |-> res[r].value])
    /\ UNCHANGED <<lookups, moves>>

MoveOn == side = "browser" /\ moves < MaxMoves /\ moves' = moves + 1

\* Resources that depend on what was set ask again.
Change(keys, a) ==
    /\ args' = a
    /\ res' = [r \in DOMAIN res |-> IF reads(page)[r].keys \cap keys # {} THEN Ask(page, a, r, res[r].seed) ELSE res[r]]
    /\ missed' = (missed /\ (Written \in DOMAIN res => res'[Written] = res[Written]))
    /\ UNCHANGED <<side, page, lookups, slot, sent, gone>>

FollowLink ==
    /\ MoveOn
    /\ \E p \in DOMAIN Pages : \E a \in ArgsOf(p) :
          IF p # page
          THEN NewInstance(p, a, [r \in DOMAIN reads(p) |-> NoValue]) /\ UNCHANGED <<side, lookups>>
          ELSE /\ a # args
               /\ Change({k \in {"id", "term"} : a[k] # args[k]}, [args EXCEPT !.id = a.id, !.term = a.term])

\* A narrowed list begins at its first page.
SetTerm ==
    /\ page # "SearchPage" /\ "setTerm" \in OfferedTo("admin") /\ MoveOn
    /\ \E t \in Terms \cup {NoTerm} : Change({"term", "offset"}, [args EXCEPT !.term = t, !.offset = 0])

\* Previous and next are counted from the list that is drawn.
GoTo ==
    /\ "goTo" \in OfferedTo("admin") /\ MoveOn
    /\ \E r \in Paged : \E d \in {-1, 1} :
          LET next == res[r].value.of.offset + d
          IN  next \in 0 .. LastOffset /\ Change({"offset"}, [args EXCEPT !.offset = next])

PickSeason ==
    /\ "pickSeason" \in OfferedTo("admin") /\ MoveOn
    /\ \E s \in {"now", "picked"} \ {args.season} : Change({"season"}, [args EXCEPT !.season = s])

------------------------------------------------------------------------------
(* Answers.                                                                *)

Answers(r) ==
    IF r = Written THEN {Rows \ gone}
    ELSE IF r = Pages[page].view.shell THEN {Rows}
    ELSE IF r = "results" /\ args.term = NoTerm THEN {{}}
    ELSE IF args.id = NoRecord THEN {Rows, {}} ELSE {IF args.id \in Bare THEN {} ELSE Rows}

Known(r, rows) == [rows |-> rows, of |-> Query(page, args, r), known |-> TRUE]

Settle(r, to, names) ==
    /\ res' = [res EXCEPT ![r] = to]
    /\ lookups' = lookups \cup names
    /\ UNCHANGED <<side, page, args, slot, sent, gone, missed, moves>>

\* The service reads a list that is being written to before its answer is here.
ServiceReads(r) ==
    /\ r = Written /\ Loading(r) /\ ~res[r].got.known
    /\ \E rows \in Answers(r) : Settle(r, [res[r] EXCEPT !.got = Known(r, rows)], {})

AnswerArrives(r) ==
    /\ Loading(r) /\ (r = Written => res[r].got.known)
    /\ \E v \in (IF r = Written THEN {res[r].got} ELSE {Known(r, rows) : rows \in Answers(r)}) :
          Settle(r, [res[r] EXCEPT !.status = "resolved", !.value = v, !.got = NoValue], reads(page)[r].waits)

AnswerFails(r) ==
    /\ Loading(r) /\ ~(r = "results" /\ args.term = NoTerm)
    /\ \E names \in {{}, reads(page)[r].waits} :
          Settle(r, [res[r] EXCEPT !.status = "error", !.value = NoValue, !.got = NoValue], names)

\* The season picker's own list.
SeasonsArrive ==
    /\ page = "CompetitionPage" /\ "seasons" \notin lookups
    /\ lookups' = lookups \cup {"seasons"}
    /\ UNCHANGED <<side, page, args, res, slot, sent, gone, missed, moves>>

\* What is loading its first value is not asked again.  Mutant: nor is anything.
ReloadNothing(r) == UNCHANGED res
Reload(r) ==
    res' = IF res[r].status \in {"resolved", "error", "reloading"}
           THEN [res EXCEPT ![r].status = "reloading", ![r].got = NoValue] ELSE res

Retry ==
    /\ "retry" \in OfferedTo("visitor") /\ MoveOn
    /\ Reload("games")
    /\ UNCHANGED <<side, page, args, lookups, slot, sent, gone, missed>>

------------------------------------------------------------------------------
(* Writes: an entry withdrawn, an account's role or the account, a linked  *)
(* provider.                                                               *)

StartWrite(row) ==
    /\ "write" \in OfferedTo("admin") /\ row \in DrawnRows(Written) /\ MoveOn
    /\ IF Pages[page].class.single THEN slot = "none" ELSE slot # row
    /\ slot' = row
    /\ sent' = [sent EXCEPT ![row] = @ + 1]
    /\ UNCHANGED <<side, page, args, res, lookups, gone, missed>>

\* The answer may be a refusal, or an error after the write was done.
WriteEnds(row, outcome) ==
    /\ sent[row] > 0
    /\ sent' = [sent EXCEPT ![row] = @ - 1]
    /\ slot' = "none"
    /\ gone' = IF outcome = "refused" THEN gone ELSE gone \cup {row}
    /\ IF outcome = "done" THEN Reload(Written) ELSE UNCHANGED res
    /\ missed' = CASE outcome = "done" -> res' = res /\ (missed \/ res[Written].status = "loading")
                   [] outcome = "lost" -> TRUE
                   [] OTHER -> missed
    /\ UNCHANGED <<side, page, args, lookups, moves>>

PagesNext ==
    \/ Hydrate \/ FollowLink \/ SetTerm \/ GoTo \/ PickSeason \/ SeasonsArrive \/ Retry
    \/ \E r \in DOMAIN res : ServiceReads(r) \/ AnswerArrives(r) \/ AnswerFails(r)
    \/ \E row \in Rows : StartWrite(row)
    \/ \E row \in Rows, outcome \in {"done", "refused", "lost"} : WriteEnds(row, outcome)

PagesSpec == PagesInit /\ [][PagesNext]_pagesVars

------------------------------------------------------------------------------

PagesTypeOK ==
    /\ side \in {"server", "browser"} /\ page \in DOMAIN Pages
    /\ DOMAIN res = DOMAIN reads(page)
    /\ \A r \in DOMAIN res : res[r].status \in {"idle", "loading", "reloading", "resolved", "error"}
    /\ lookups \subseteq {"teams", "leagues", "seasons"}
    /\ args.offset \in 0 .. LastOffset /\ sent \in [Rows -> 0 .. MaxMoves]

\* Rows on the screen answer what the address and the controls ask for now,
\* unless they are what the server drew, which stands for whatever this
\* instance of the page asks next until its answer; and they are never drawn
\* before the names they are written with are loaded, whichever of the page's
\* requests loads them.
RowsAreWholeAndOwn ==
    \A r \in DOMAIN Parts :
        DrawnRows(r) # {} =>
            /\ res[r].value.of = Query(page, args, r) \/ (res[r].value = res[r].seed /\ res[r].status = "loading")
            /\ Parts[r].names \subseteq lookups

\* The browser's first picture of a page is the one the server drew, wherever
\* the server's requests were answered.
HydratesAsDrawn ==
    [][side = "server" /\ side' = "browser" =>
        \/ \E r \in DOMAIN res : res[r].status = "error"
        \/ Picture' = Picture]_pagesVars

\* A list that has settled shows no row as it was before it was written,
\* unless the write's answer was lost or came while the list was loading for
\* another page or term: a list that is loading is not read again.
ListCatchesUp ==
    Written \in DOMAIN res /\ res[Written].status = "resolved" /\ ~missed =>
        res[Written].value.rows \cap gone = {}
===============================================================================
