------------------------------ MODULE ArticleDesk ------------------------------
(***************************************************************************)
(* The articles of the analysis section and the editorial desk's requests  *)
(* on them.  A request reads the article, decides, and writes the whole    *)
(* row: two steps, between which other requests come in.                   *)
(*                                                                         *)
(* A request belongs to the page that made it, which has a few places for  *)
(* requests under way.  An article's text is a number, 0 when there is     *)
(* none yet.  A publication time is none, now (already past) or the one    *)
(* moment `later`, which passes when it likes.                             *)
(***************************************************************************)
EXTENDS Integers, Sequences, FiniteSets

CONSTANTS
    EditorPages, UserOf, \* open pages of the editor, and who sits at each
    Writers, Admins,    \* editors, and administrators
    MaxArticles,        \* articles that can be made (a bound)
    MaxEdits,           \* edits that can be made, each a text of its own (a bound)
    Places              \* requests that a page may have under way (a bound)

ASSUME DeskAssumption == MaxArticles \in Nat /\ Places # {} /\ Places \subseteq Nat \ {0}

VARIABLES
    rows,       \* rows[a]: the article a, "gone" when it was deleted
    requests,   \* requests[p]: of the page p, in its places
    passed,     \* the moment `later` is over
    approved    \* history: approved[a]: the texts of a that an administrator
                \*  wrote or published

deskVars == <<rows, requests, passed, approved>>

Row(author, text) == [status |-> "draft", author |-> author, text |-> text, at |-> "none", first |-> FALSE]

NoRow == Row("nobody", 0)

NoThen == <<"none", "none">>

\* The page's part: the edit that a save carries, the saves that wait for it,
\* what follows it, and (history) the texts on the screen since it was asked for.
NoRequest == [at |-> "none", op |-> "none", id |-> 0, text |-> 0, time |-> "none", row |-> NoRow,
              edit |-> 0, waiters |-> 0, then |-> NoThen, seen |-> {}]

IsAdmin(p) == UserOf[p] \in Admins

Live(row) == row.status = "published" /\ (row.at = "now" \/ (row.at = "later" /\ passed))

ClockReaches ==
    /\ ~passed /\ passed' = TRUE
    /\ UNCHANGED <<rows, requests, approved>>

------------------------------------------------------------------------------
(* What each request asks for.                                             *)

\* A writer's own only, and while the administrators do not have it.
\* Mutant: a published article is not locked for its writer.
MayUpdateUnlocked(p, row) == IsAdmin(p) \/ row.status # "in_review"
MayUpdate(p, row) == IsAdmin(p) \/ row.status \in {"draft", "changes_requested"}

MaySubmit(p, row) ==
    /\ row.text # 0
    /\ IF IsAdmin(p) THEN ~Live(row) ELSE row.status \in {"draft", "changes_requested"}

Permitted(p, r, row) ==
    /\ row.status # "gone" /\ (IsAdmin(p) \/ row.author = UserOf[p])
    /\ CASE r.op = "update" -> MayUpdate(p, row)
         [] r.op = "submit" -> MaySubmit(p, row)
         [] r.op = "requestChanges" -> IsAdmin(p) /\ row.status = "in_review"
         [] r.op = "withdraw" -> row.status \in {"in_review", "published"}
         [] r.op = "remove" -> IsAdmin(p) \/ row.status # "published"

\* Approving without a time keeps the one the writer asked for.
Published(row, time) ==
    LET asked == IF time = "none" /\ row.status = "in_review" THEN row.at ELSE time
        at == IF asked = "later" /\ ~passed THEN "later" ELSE "now"
    IN  [row EXCEPT !.status = "published", !.at = at, !.first = TRUE]

Submitted(row, time) ==
    [row EXCEPT !.status = "in_review", !.at = IF time = "later" /\ ~passed THEN "later" ELSE "none"]

RowWritten(p, r) ==
    CASE r.op = "update" -> [r.row EXCEPT !.text = r.text]
      [] r.op = "submit" -> IF IsAdmin(p) THEN Published(r.row, r.time) ELSE Submitted(r.row, r.time)
      [] r.op = "requestChanges" -> [r.row EXCEPT !.status = "changes_requested"]
      [] r.op = "withdraw" -> [r.row EXCEPT !.status = "draft", !.at = "none"]
      [] r.op = "remove" -> [rows[r.id] EXCEPT !.status = "gone"]

------------------------------------------------------------------------------
(* The service.                                                            *)

Approve(p, r, a) ==
    approved' = [approved EXCEPT ![a] =
                    IF IsAdmin(p) /\ r.op \in {"create", "update", "submit"} THEN @ \cup {rows'[a].text} ELSE @]

\* The thousandth article is the last; the count is read before the insert.
DeskCreates(p, i) ==
    LET r == requests[p][i]
    IN  /\ r.at = "sent" /\ r.op = "create" /\ Len(rows) < MaxArticles
        /\ rows' = Append(rows, Row(UserOf[p], r.text))
        /\ Approve(p, r, Len(rows'))
        /\ requests' = [requests EXCEPT ![p][i] = [r EXCEPT !.at = "done", !.id = Len(rows'), !.row = rows'[Len(rows')]]]
        /\ UNCHANGED passed

DeskReads(p, i) ==
    LET r == requests[p][i]
    IN  /\ r.at = "sent" /\ r.op # "create"
        /\ requests' = [requests EXCEPT ![p][i] =
                           IF Permitted(p, r, rows[r.id]) THEN [r EXCEPT !.at = "read", !.row = rows[r.id]]
                           ELSE [r EXCEPT !.at = "refused"]]
        /\ UNCHANGED <<rows, passed, approved>>

\* A row that is gone is not there to be updated.
DeskWrites(p, i) ==
    LET r == requests[p][i]
        row == RowWritten(p, r)
    IN  /\ r.at = "read"
        /\ IF rows[r.id].status = "gone"
           THEN /\ requests' = [requests EXCEPT ![p][i].at = "refused"]
                /\ UNCHANGED <<rows, approved>>
           ELSE /\ rows' = [rows EXCEPT ![r.id] = row]
                /\ Approve(p, r, r.id)
                /\ requests' = [requests EXCEPT ![p][i] = [r EXCEPT !.at = "done", !.row = row]]
        /\ UNCHANGED passed

DeskNext ==
    \/ ClockReaches
    \/ \E p \in EditorPages, i \in Places : DeskCreates(p, i) \/ DeskReads(p, i) \/ DeskWrites(p, i)
===============================================================================
