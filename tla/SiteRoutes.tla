------------------------------ MODULE SiteRoutes ------------------------------
(***************************************************************************)
(* Which page an address opens, and behind which guard.  An address is a   *)
(* sequence of segments; in the table "*" stands for any one segment and   *)
(* <<"**">> for any address.  A page is named by its component; `leave`    *)
(* says whether it may ask before it is left.                              *)
(***************************************************************************)
EXTENDS Integers, Sequences

Page(path, component, guard) == [path |-> path, component |-> component, guard |-> guard, leave |-> FALSE]

Editor(path, component, guard) == [Page(path, component, guard) EXCEPT !.leave = TRUE]

RecordRoutes == <<
    Page(<<>>, "TransferFeed", "open"),
    Page(<<"transfers">>, "TransferFeed", "open"),
    Page(<<"search">>, "SearchPage", "open"),
    Page(<<"transfers", "*", "edit">>, "TransferEdit", "editor"),
    Page(<<"players", "new">>, "PlayerForm", "editor"),
    Page(<<"players", "*">>, "PlayerPage", "open"),
    Page(<<"players", "*", "edit">>, "PlayerForm", "editor"),
    Page(<<"players", "*", "transfer">>, "TransferForm", "editor"),
    Page(<<"players", "*", "values", "new">>, "ValueForm", "admin"),
    Page(<<"clubs">>, "ClubList", "open"),
    Page(<<"clubs", "new">>, "ClubForm", "admin"),
    Page(<<"clubs", "*">>, "ClubPage", "open"),
    Page(<<"clubs", "*", "edit">>, "ClubForm", "admin"),
    Page(<<"clubs", "*", "seasons", "new">>, "SeasonEntryForm", "editor"),
    Page(<<"competitions">>, "CompetitionList", "open"),
    Page(<<"competitions", "new">>, "CompetitionForm", "admin"),
    Page(<<"competitions", "*">>, "CompetitionPage", "open"),
    Page(<<"competitions", "*", "edit">>, "CompetitionForm", "admin"),
    Page(<<"seasons">>, "SeasonList", "open"),
    Page(<<"seasons", "new">>, "SeasonForm", "admin"),
    Page(<<"seasons", "*", "edit">>, "SeasonForm", "admin") >>

PersonRoutes == <<
    Page(<<"coaches", "new">>, "CoachForm", "editor"),
    Page(<<"coaches", "*">>, "CoachPage", "open"),
    Page(<<"coaches", "*", "edit">>, "CoachForm", "editor"),
    Page(<<"coaches", "*", "spells", "new">>, "SpellForm", "editor"),
    Page(<<"login">>, "Login", "open"),
    Page(<<"register">>, "Register", "open"),
    Page(<<"verify-email">>, "VerifyEmail", "open"),
    Page(<<"auth", "callback">>, "OAuthCallback", "open"),
    Page(<<"account">>, "AccountPage", "signed in"),
    Page(<<"admin", "users">>, "UserList", "admin"),
    Page(<<"admin", "clubs", "*", "editors">>, "ClubEditors", "admin"),
    Page(<<"tactics">>, "TacticsList", "signed in"),
    Editor(<<"tactics", "new">>, "TacticsEditor", "open"),
    Editor(<<"tactics", "*", "edit">>, "TacticsEditor", "signed in"),
    Page(<<"articles">>, "ArticleList", "open"),
    Page(<<"articles", "*">>, "ArticlePage", "open"),
    Page(<<"desk">>, "ArticleDesk", "editor"),
    Editor(<<"desk", "new">>, "ArticleEditor", "editor"),
    Editor(<<"desk", "*">>, "ArticleEditor", "editor"),
    Page(<<"tactics", "*">>, "TacticsViewer", "open") >>

GamesRoutes == <<
    Page(<<"games">>, "GamesHub", "open"),
    Page(<<"games", "played-for-both">>, "PlayedForBothPage", "open") >>

Routes == RecordRoutes \o PersonRoutes \o GamesRoutes \o << Page(<<"**">>, "NotFound", "open") >>

Fits(pattern, path) ==
    \/ pattern = <<"**">>
    \/ /\ Len(pattern) = Len(path)
       /\ \A i \in DOMAIN path : pattern[i] \in {"*", path[i]}

\* The browser's router takes the first entry that fits.
RouteOf(path) ==
    Routes[CHOOSE r \in DOMAIN Routes :
               Fits(Routes[r].path, path) /\ \A q \in 1 .. r - 1 : ~Fits(Routes[q].path, path)]

\* Whom a guard lets through.
Admits(guard, role) ==
    \/ guard = "open"
    \/ guard = "signed in" /\ role # "visitor"
    \/ guard = "editor" /\ role \in {"editor", "admin"}
    \/ guard = "admin" /\ role = "admin"

\* Every address of the tables, with each of Ids in the place of a parameter.
Addresses(Ids) ==
    UNION {{[i \in DOMAIN Routes[r].path |-> IF Routes[r].path[i] = "*" THEN id ELSE Routes[r].path[i]]
               : id \in Ids} : r \in DOMAIN Routes}
===============================================================================
