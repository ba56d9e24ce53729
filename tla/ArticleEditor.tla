----------------------------- MODULE ArticleEditor -----------------------------
(***************************************************************************)
(* The page on which an article is written, reviewed and handed on.        *)
(*                                                                         *)
(* There is no Save button: a draft is saved a moment after the typing     *)
(* stops, and before anything that hands it on.  A save that finds another *)
(* under way waits for it; all that wait go on together when it ends.      *)
(* Headline, body, tags and cover are one text here.  A page that was left *)
(* hears of its answers all the same; closing the browser is left out.     *)
(***************************************************************************)
EXTENDS ArticleDesk, FiniteSetsExt

CONSTANT
    MaxActs         \* buttons of the panel pressed (a bound)

VARIABLES
    editor,     \* editor[p]: the page p
    edits, acts \* edits made, and buttons pressed, so far

editorVars == <<deskVars, editor, edits, acts>>

\* `copy` is the article `id` as last answered (0 on a new page), `edit` the
\* last edit, `inFlight` the place of the save that others wait for.
\* History: `pressed`, the texts on the screen since the last button; someone
\* else wrote the article since the page did; two of the page's requests were
\* under way at once.
NewPage == [at |-> "closed", id |-> 0, copy |-> NoRow, text |-> 0, edit |-> 0, dirty |-> FALSE,
            timer |-> FALSE, inFlight |-> 0, saveError |-> FALSE, busy |-> FALSE,
            pressed |-> {}, others |-> FALSE, crossed |-> FALSE]

canEdit(p, e) == e.id = 0 \/ IsAdmin(p) \/ e.copy.status \in {"draft", "changes_requested"}

saving(e) == e.inFlight # 0

------------------------------------------------------------------------------
(* Saving.  What a call does to a page is a function of the page and its   *)
(* places.                                                                 *)

Now(p) == [page |-> editor[p], reqs |-> requests[p]]

UnderWay(reqs) == {i \in Places : reqs[i].at # "none"}

\* Of a page that was left nothing remains when its requests have ended.
PutPage(p, s) ==
    LET over == s.page.at = "left" /\ ~s.page.timer /\ UnderWay(s.reqs) = {}
    IN  /\ editor' = [editor EXCEPT ![p] = IF over THEN [NewPage EXCEPT !.at = "left"] ELSE s.page]
        /\ requests' = [requests EXCEPT ![p] = s.reqs]

\* What follows a request: the saves that wait for it, and what it is saved for.
Followers(r) == r.waiters + (IF r.then = NoThen THEN 0 ELSE 1)

\* A place for every request under way and for those that follow it.
Wanted(reqs) == UNION {{i} \X (0 .. Followers(reqs[i])) : i \in UnderWay(reqs)}

Room(p, n) == Cardinality(Wanted(requests[p])) + n <= Cardinality(Places)

Send(s, r) ==
    LET i == Min(Places \ UnderWay(s.reqs))
        crossed == UnderWay(s.reqs) # {} \/ (s.page.crossed /\ r.op # "update")
    IN  [page |-> [s.page EXCEPT !.crossed = crossed], reqs |-> [s.reqs EXCEPT ![i] = r], place |-> i]

\* Mutant: what waits to be handed on is not told whether the save failed.
RunAnyway(s, then) ==
    LET e == s.page
        r == [NoRequest EXCEPT !.at = "sent", !.op = then[1], !.time = then[2], !.id = e.id, !.seen = e.pressed]
    IN  IF then = NoThen \/ e.id = 0 THEN s
        ELSE LET t == Send(s, r) IN [page |-> [t.page EXCEPT !.busy = TRUE, !.pressed = {}], reqs |-> t.reqs]

\* Submitting and the like, once the text is saved.
Run(s, then) ==
    LET e == s.page
        r == [NoRequest EXCEPT !.at = "sent", !.op = then[1], !.time = then[2], !.id = e.id, !.seen = e.pressed]
    IN  IF then = NoThen \/ e.id = 0 \/ e.saveError THEN s
        ELSE LET t == Send(s, r) IN [page |-> [t.page EXCEPT !.busy = TRUE, !.pressed = {}], reqs |-> t.reqs]

\* A blank page is not worth an article.
SaveNow(p, s, then) ==
    LET e == s.page
        r == [NoRequest EXCEPT !.at = "sent", !.op = IF e.id = 0 THEN "create" ELSE "update", !.id = e.id,
                               !.text = e.text, !.edit = e.edit, !.then = then]
    IN  IF ~e.dirty \/ ~canEdit(p, e) THEN Run(s, then)
        ELSE IF e.id = 0 /\ e.text = 0 THEN Run([s EXCEPT !.page.dirty = FALSE], then)
        ELSE LET t == Send(s, r)
             IN  [page |-> [t.page EXCEPT !.inFlight = t.place, !.saveError = FALSE], reqs |-> t.reqs]

save(p, s, then) ==
    LET t == [s EXCEPT !.page.timer = FALSE]
    IN  IF saving(s.page) THEN [t EXCEPT !.reqs[s.page.inFlight].waiters = @ + 1] ELSE SaveNow(p, t, then)

\* Those that waited go on one after the other, without another wait.
Woken(p, s, waiters) ==
    LET after[n \in 0 .. waiters] ==
            IF n = 0 THEN s
            ELSE IF after[n - 1].page.dirty THEN SaveNow(p, after[n - 1], NoThen) ELSE after[n - 1]
    IN  after[waiters]

SaveAccepted(e, r) == [e EXCEPT !.id = r.id, !.copy = r.row, !.dirty = @ /\ e.edit # r.edit]

\* The end of a save: the save itself, what it left unsaved, those that
\* waited, and last what was to follow it.
SaveEnds(p, i, ok) ==
    LET r == requests[p][i]
        answered == IF ok THEN SaveAccepted(editor[p], r) ELSE [editor[p] EXCEPT !.saveError = TRUE]
        e == [answered EXCEPT !.inFlight = 0]
        again == e.dirty /\ ~e.saveError
        s == [page |-> [e EXCEPT !.timer = @ \/ again], reqs |-> [requests[p] EXCEPT ![i] = NoRequest]]
    IN  /\ r.op \in {"create", "update"}
        /\ r.at = "done" \/ (~ok /\ r.at \in {"sent", "refused"})
        /\ PutPage(p, Run(Woken(p, s, r.waiters), r.then))
        /\ UNCHANGED <<rows, passed, approved, edits, acts>>

------------------------------------------------------------------------------
(* The member at the page.                                                 *)

Open(p) ==
    /\ editor[p].at = "closed"
    /\ \/ editor' = [editor EXCEPT ![p].at = "open"]
       \/ \E a \in DOMAIN rows :
             /\ rows[a].status # "gone" /\ (IsAdmin(p) \/ rows[a].author = UserOf[p])
             /\ editor' = [editor EXCEPT ![p] = [NewPage EXCEPT !.at = "open", !.id = a, !.copy = rows[a],
                                                                !.text = rows[a].text]]
    /\ UNCHANGED <<deskVars, edits, acts>>

\* Every edit is another text, or none.
TypeText(p) ==
    LET e == editor[p]
    IN  /\ e.at = "open" /\ canEdit(p, e) /\ edits < MaxEdits
        /\ edits' = edits + 1
        /\ \E text \in {edits', 0} :
              editor' = [editor EXCEPT ![p] = [e EXCEPT !.text = text, !.edit = edits', !.dirty = TRUE, !.timer = TRUE,
                                                        !.pressed = IF @ = {} THEN {} ELSE @ \cup {text}]]
        /\ UNCHANGED <<deskVars, acts>>

TimerFires(p) ==
    /\ editor[p].timer /\ Room(p, 1)
    /\ PutPage(p, save(p, Now(p), NoThen))
    /\ UNCHANGED <<rows, passed, approved, edits, acts>>

\* Ctrl+S, or leaving and then staying after all.
SaveKeys(p) ==
    /\ editor[p].at = "open" /\ editor[p].dirty /\ Room(p, 1)
    /\ PutPage(p, save(p, Now(p), NoThen))
    /\ UNCHANGED <<rows, passed, approved, edits, acts>>

\* The panel's buttons.
PanelOffers(p, e) ==
    LET mine == e.copy.author = UserOf[p]
        status == e.copy.status
    IN  IF e.id = 0 THEN {}
        ELSE (IF ~Live(e.copy) /\ (IsAdmin(p) \/ status \in {"draft", "changes_requested"}) THEN {"submit"} ELSE {})
               \cup (IF IsAdmin(p) /\ ~mine /\ status = "in_review" THEN {"requestChanges"} ELSE {})
               \cup (IF (status = "in_review" /\ mine) \/ status = "published" THEN {"withdraw"} ELSE {})

Act(p) ==
    LET s == Now(p)
    IN  /\ s.page.at = "open" /\ ~s.page.busy /\ ~saving(s.page) /\ Room(p, 2)
        /\ acts < MaxActs /\ acts' = acts + 1
        /\ \E op \in PanelOffers(p, s.page), time \in (IF passed THEN {"none"} ELSE {"none", "later"}) :
              /\ op = "submit" \/ time = "none"
              /\ PutPage(p, save(p, [s EXCEPT !.page.pressed = {s.page.text}], <<op, time>>))
        /\ UNCHANGED <<rows, passed, approved, edits>>

\* Deleting does not wait for a save.
ConfirmDelete(p) ==
    LET e == editor[p]
        s == Now(p)
        t == Send(s, [NoRequest EXCEPT !.at = "sent", !.op = "remove", !.id = e.id])
    IN  /\ e.at = "open" /\ ~e.busy /\ Room(p, 1) /\ e.id # 0
        /\ acts < MaxActs /\ acts' = acts + 1
        /\ IsAdmin(p) \/ (e.copy.author = UserOf[p] /\ e.copy.status # "published")
        /\ PutPage(p, [page |-> [t.page EXCEPT !.busy = TRUE], reqs |-> t.reqs])
        /\ UNCHANGED <<rows, passed, approved, edits>>

RunEnds(p, i, ok) ==
    LET r == requests[p][i]
        e == [editor[p] EXCEPT !.busy = FALSE]
    IN  /\ r.op \notin {"none", "create", "update"}
        /\ r.at = "done" \/ (~ok /\ r.at \in {"sent", "refused"})
        /\ PutPage(p, [page |-> IF ~ok THEN e
                            ELSE IF r.op = "remove" THEN [e EXCEPT !.dirty = FALSE, !.timer = FALSE, !.at = "left"]
                            ELSE [e EXCEPT !.copy = r.row],
                   reqs |-> [requests[p] EXCEPT ![i] = NoRequest]])
        /\ UNCHANGED <<rows, passed, approved, edits, acts>>

\* What is unsaved is saved on the way out.
Leave(p) ==
    LET s == Now(p)
        t == IF s.page.dirty \/ saving(s.page) THEN save(p, s, NoThen) ELSE s
    IN  /\ s.page.at = "open" /\ Room(p, 1)
        /\ PutPage(p, [t EXCEPT !.page.at = "left", !.page.timer = FALSE])
        /\ UNCHANGED <<rows, passed, approved, edits, acts>>

------------------------------------------------------------------------------

EditorInit ==
    /\ rows = <<>> /\ passed = FALSE /\ edits = 0 /\ acts = 0
    /\ approved = [a \in 1 .. MaxArticles |-> {}]
    /\ requests = [p \in EditorPages |-> [i \in Places |-> NoRequest]]
    /\ editor = [p \in EditorPages |-> NewPage]

\* The service's steps; a write is someone else's to the other pages.
Serve ==
    \/ ClockReaches /\ UNCHANGED <<editor, edits, acts>>
    \/ \E p \in EditorPages, i \in Places :
          (DeskCreates(p, i) \/ DeskReads(p, i)) /\ UNCHANGED <<editor, edits, acts>>
    \/ \E p \in EditorPages, i \in Places :
          LET r == requests[p][i]
          IN  /\ DeskWrites(p, i)
              /\ editor' = [q \in EditorPages |->
                               IF r.id \notin {editor[q].id} \cup {requests[q][j].id : j \in Places} \/ rows' = rows
                               THEN editor[q]
                               ELSE [editor[q] EXCEPT !.others = IF q # p THEN TRUE ELSE @ /\ r.op # "update"]]
              /\ UNCHANGED <<edits, acts>>

EditorNext ==
    \/ Serve
    \/ \E p \in EditorPages :
          Open(p) \/ TypeText(p) \/ TimerFires(p) \/ SaveKeys(p) \/ Act(p) \/ ConfirmDelete(p) \/ Leave(p)
    \/ \E p \in EditorPages, i \in Places, ok \in BOOLEAN : SaveEnds(p, i, ok) \/ RunEnds(p, i, ok)

EditorSpec == EditorInit /\ [][EditorNext]_editorVars

------------------------------------------------------------------------------

EditorTypeOK ==
    /\ Len(rows) <= MaxArticles
    /\ \A a \in DOMAIN rows : rows[a].status \in {"draft", "in_review", "changes_requested", "published", "gone"}
    /\ \A p \in EditorPages :
          /\ editor[p].at \in {"closed", "open", "left"} /\ editor[p].id \in 0 .. Len(rows)
          /\ editor[p].inFlight \in {0} \cup UnderWay(requests[p])
          /\ \A i \in Places : requests[p][i].at \in {"none", "sent", "read", "refused", "done"}

\* What readers can read, or will when its time comes, an administrator wrote
\* or published: no request of a writer that read the article earlier and
\* writes it back later puts another text there.
PublishedTextIsApproved ==
    \A a \in DOMAIN rows : rows[a].status = "published" => rows[a].text \in approved[a]

\* A text that is submitted was on the screen when the button was pressed or
\* since, never an older one whose save had failed -- unless someone else wrote
\* the article meanwhile, or two of the page's requests were under way at once.
HandedOnWasOnScreen ==
    [][\A p \in EditorPages, i \in Places :
         LET r == requests[p][i]
         IN  r.op = "submit" /\ r.at = "read" /\ requests'[p][i].at = "done" =>
                 r.row.text \in r.seen \/ editor[p].others \/ editor[p].crossed]_editorVars
===============================================================================
