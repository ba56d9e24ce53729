----------------------------- MODULE AppendedLists -----------------------------
(***************************************************************************)
(* The lists that grow by a button: the analysis section, which is         *)
(* narrowed by tag, the member's tactics boards and the editorial desk,    *)
(* from which rows are deleted through a dialog that asks first.           *)
(*                                                                         *)
(* "More" asks for what comes after as many rows as are shown; the service *)
(* answers with the rows of that moment, newest first.  Filters and tabs   *)
(* only hide rows that were loaded and are left out.                       *)
(***************************************************************************)
EXTENDS SequencesExt, Integers, FiniteSets

CONSTANTS
    Items, Tagged,      \* rows that may be listed, and those that have the tag
    PageSize,
    MaxChanges,         \* rows that others add or take away (a bound)
    MaxTags             \* changes of the tag (a bound)

VARIABLES
    list,           \* articles, or boards (the desk is like them)
    listed,         \* the service's rows, newest first
    tag,
    first,          \* the articles' first page: [at, items, more]
    extra, hasMore, \* what was appended; hasMore is "unknown" until it is
    more,           \* the request under way: [at, tag, after, items, more]
    toDelete, confirming, \* the row the dialog is about, and whether it is open
    deleting,       \* deletions under way: [row, at], at most one per row
    changes, tags,
    disturbed       \* history: a row came or went, a deletion was under way or
                    \*  the tag changed under a request for what is shown

listVars == <<list, listed, tag, first, extra, hasMore, more, toDelete, confirming, deleting, changes, tags, disturbed>>

\* Those of s that are in set, in their order.
Selected(s, set) ==
    LET chosen[n \in 0 .. Len(s)] ==
            IF n = 0 THEN <<>>
            ELSE IF s[n] \in set THEN Append(chosen[n - 1], s[n]) ELSE chosen[n - 1]
    IN  chosen[Len(s)]

NoRows == [at |-> "none", items |-> <<>>, more |-> FALSE]

NoMore == [at |-> "none", tag |-> "all", after |-> 0, items |-> <<>>, more |-> FALSE]

------------------------------------------------------------------------------
(* The service.                                                            *)

Narrowed(t) == IF t = "all" THEN listed ELSE Selected(listed, Tagged)

\* One row more than the page is read, to tell whether there is another page.
PageOf(t, after) ==
    LET rows == Narrowed(t)
        end == IF after + PageSize < Len(rows) THEN after + PageSize ELSE Len(rows)
    IN  [items |-> SubSeq(rows, after + 1, end), more |-> Len(rows) > after + PageSize]

------------------------------------------------------------------------------
(* Growing.                                                                *)

\* What is on the screen.
shown == first.items \o extra

Offset == Len(shown)

canLoadMore ==
    /\ more.at = "none"
    /\ IF hasMore = "unknown" THEN first.at = "ready" /\ first.more ELSE hasMore = "yes"
    /\ list = "articles" => first.at = "ready"

loadMore ==
    /\ canLoadMore
    /\ more' = [NoMore EXCEPT !.at = "out", !.tag = tag, !.after = Offset]
    /\ disturbed' = (disturbed \/ deleting # {})
    /\ UNCHANGED <<list, listed, tag, first, extra, hasMore, toDelete, confirming, deleting, changes, tags>>

FirstAnswered ==
    /\ first.at = "out"
    /\ LET page == PageOf(tag, 0)
       IN  first' = [at |-> "ready", items |-> page.items, more |-> page.more]
    /\ UNCHANGED <<list, listed, tag, extra, hasMore, more, toDelete, confirming, deleting, changes, tags, disturbed>>

FirstFails ==
    /\ first.at = "out"
    /\ first' = [first EXCEPT !.at = "failed"]
    /\ UNCHANGED <<list, listed, tag, extra, hasMore, more, toDelete, confirming, deleting, changes, tags, disturbed>>

MoreAnswered ==
    /\ more.at = "out"
    /\ LET page == PageOf(more.tag, more.after)
       IN  more' = [more EXCEPT !.at = "back", !.items = page.items, !.more = page.more]
    /\ UNCHANGED <<list, listed, tag, first, extra, hasMore, toDelete, confirming, deleting, changes, tags, disturbed>>

\* Whatever the tag is by now.
MoreArrives ==
    /\ more.at = "back"
    /\ more' = NoMore
    /\ extra' = extra \o more.items
    /\ hasMore' = IF more.more THEN "yes" ELSE "no"
    /\ UNCHANGED <<list, listed, tag, first, toDelete, confirming, deleting, changes, tags, disturbed>>

\* What is shown stays; a first page that fails leaves no button to press.
MoreFails ==
    /\ more.at # "none"
    /\ more' = NoMore
    /\ UNCHANGED <<list, listed, tag, first, extra, hasMore, toDelete, confirming, deleting, changes, tags, disturbed>>

\* A new tag starts from its first page; the request for more goes on.
ChooseTag ==
    /\ list = "articles" /\ tags < MaxTags /\ tags' = tags + 1
    /\ tag' \in {"all", "tag"} \ {tag}
    /\ first' = [NoRows EXCEPT !.at = "out"]
    /\ extra' = <<>> /\ hasMore' = "unknown"
    /\ disturbed' = (more.at # "none")
    /\ UNCHANGED <<list, listed, more, toDelete, confirming, deleting, changes>>

------------------------------------------------------------------------------
(* Deleting.                                                               *)

NoItem == "none"

askDelete(i) ==
    /\ list = "boards" /\ ~confirming
    /\ i \in ToSet(shown)
    /\ toDelete' = i /\ confirming' = TRUE
    /\ UNCHANGED <<list, listed, tag, first, extra, hasMore, more, deleting, changes, tags, disturbed>>

\* Escape, the backdrop or "cancel": closing never confirms.
dismiss ==
    /\ confirming /\ confirming' = FALSE
    /\ UNCHANGED <<list, listed, tag, first, extra, hasMore, more, toDelete, deleting, changes, tags, disturbed>>

\* The dialog may have lost its row to the end of an earlier deletion.
accept ==
    /\ confirming /\ confirming' = FALSE
    /\ IF toDelete = NoItem \/ \E d \in deleting : d.row = toDelete THEN UNCHANGED <<deleting, disturbed>>
       ELSE /\ deleting' = deleting \cup {[row |-> toDelete, at |-> "out"]}
            /\ disturbed' = (disturbed \/ more.at # "none")
    /\ UNCHANGED <<list, listed, tag, first, extra, hasMore, more, toDelete, changes, tags>>

ServeDelete(d) ==
    /\ d.at = "out"
    /\ listed' = Selected(listed, Items \ {d.row})
    /\ deleting' = (deleting \ {d}) \cup {[d EXCEPT !.at = IF d.row \in ToSet(listed) THEN "gone" ELSE "refused"]}
    /\ UNCHANGED <<list, tag, first, extra, hasMore, more, toDelete, confirming, changes, tags, disturbed>>

Without(row) == Selected(extra, Items \ {row})

DeleteEnds(d, ok) ==
    /\ IF ok THEN d.at = "gone" ELSE d.at \in {"gone", "refused"}
    /\ deleting' = deleting \ {d}
    /\ extra' = IF ok THEN Without(d.row) ELSE extra
    /\ toDelete' = NoItem
    /\ disturbed' = (disturbed \/ (~ok /\ d.at = "gone") \/ more.at # "none")
    /\ UNCHANGED <<list, listed, tag, first, hasMore, more, confirming, changes, tags>>

------------------------------------------------------------------------------
(* Everyone else.                                                          *)

OthersChange ==
    /\ changes < MaxChanges /\ changes' = changes + 1
    /\ \/ \E i \in Items \ ToSet(listed) : listed' = <<i>> \o listed
       \/ \E i \in ToSet(listed) : listed' = Selected(listed, Items \ {i})
    /\ disturbed' = TRUE
    /\ UNCHANGED <<list, tag, first, extra, hasMore, more, toDelete, confirming, deleting, tags>>

ListInit ==
    /\ list \in {"articles", "boards"}
    /\ \E set \in SUBSET Items : listed \in SetToSeqs(set)
    /\ tag = "all"
    /\ first = [NoRows EXCEPT !.at = IF list = "articles" THEN "out" ELSE "none"]
    /\ extra = <<>> /\ hasMore = "unknown"
    /\ more = [NoMore EXCEPT !.at = IF list = "articles" THEN "none" ELSE "out"]
    /\ toDelete = NoItem /\ confirming = FALSE /\ deleting = {}
    /\ changes = 0 /\ tags = 0 /\ disturbed = FALSE

ListNext ==
    \/ loadMore \/ FirstAnswered \/ FirstFails \/ MoreAnswered \/ MoreArrives \/ MoreFails
    \/ ChooseTag \/ dismiss \/ accept \/ OthersChange
    \/ \E i \in Items : askDelete(i)
    \/ \E d \in deleting : ServeDelete(d) \/ \E ok \in BOOLEAN : DeleteEnds(d, ok)

ListSpec == ListInit /\ [][ListNext]_listVars

------------------------------------------------------------------------------

ListTypeOK ==
    /\ ToSet(shown) \subseteq Items /\ Len(shown) <= 2 * Cardinality(Items)
    /\ hasMore \in {"unknown", "yes", "no"}
    /\ more.at \in {"none", "out", "back"} /\ first.at \in {"none", "out", "ready", "failed"}
    /\ \A d \in deleting : d.at \in {"out", "gone", "refused"}

\* A list that grew page by page is the service's list as far as it goes: no
\* row twice, none left out, none that was deleted here, nothing of another
\* tag, and all of it once there is no more to load -- unless rows came or
\* went, or the tag changed, between its requests.
GrownListIsTheServices ==
    (more.at = "none" /\ deleting = {} /\ first.at \notin {"out", "failed"} /\ ~disturbed) =>
        /\ IsPrefix(shown, Narrowed(tag))
        /\ hasMore = "no" => shown = Narrowed(tag)
===============================================================================
