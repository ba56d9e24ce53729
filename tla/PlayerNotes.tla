------------------------------ MODULE PlayerNotes ------------------------------
(***************************************************************************)
(* The notes on a player's page, as one member sees and writes them, and   *)
(* the service that keeps one note per player and author.                  *)
(*                                                                         *)
(* The page has two resources: the first page of the player's notes and    *)
(* the member's own note, which need not be on it.  A write reloads both.  *)
(* A reload that is asked for while a resource loads for the first time    *)
(* is dropped; one asked for while it reloads starts over.  The requests   *)
(* of the page, of its other tabs and of other members come in any order.  *)
(*                                                                         *)
(* Notes are numbered as they are created and listed newest first, so a    *)
(* list is the set of its notes.                                           *)
(***************************************************************************)
EXTENDS FiniteSets, Integers

CONSTANTS
    Persons,        \* whose pages are visited: the players
    Others, Me,     \* authors
    Texts,          \* what a note may say: the empty text is not sent
    NotesPage,      \* notes on a page of the list
    MaxNotes,       \* notes ever created (a bound)
    MaxWrites       \* writes, pages and changes made elsewhere (a bound)

ASSUME NotesAssumption == Me \notin Others

VARIABLES
    noted,          \* noted[p]: the notes on p: [id, author, body]
    created,        \* notes created so far
    moderator,      \* may the member administer
    member,         \* is the member signed in
    onPage,         \* the player whose page is open
    resource,       \* "list" and "own": [at, got, answer, value]
    editing,        \* the note that is open for editing
    write,          \* the one that keeps the page busy
    removals,       \* and the deletions, which do not
    pending, asking, \* the dialog's note, and whether it is open
    steps,
    behind          \* history: resources read before something else changed

noteVars == <<noted, created, moderator, member, onPage, resource, editing, write,
              removals, pending, asking, steps, behind>>

Steps == steps < MaxWrites /\ steps' = steps + 1

Resources == {"list", "own"}
Unread == [at |-> "idle", got |-> FALSE, answer |-> {}, value |-> {}]
FirstRead == [Unread EXCEPT !.at = "loading"]
NoNote == [id |-> 0, author |-> Me, body |-> 0]
NoWrite == [at |-> "none", kind |-> "post", player |-> CHOOSE p \in Persons : TRUE, id |-> 0, body |-> 0]

------------------------------------------------------------------------------
(* The service.                                                            *)

NotesBy(p, author) == {n \in noted[p] : n.author = author}

\* The newest: one page of them.
ListByPlayer(p) == {n \in noted[p] : Cardinality({m \in noted[p] : m.id > n.id}) < NotesPage}

\* One note per player and author: a second is refused.
MayCreate(p, author) == NotesBy(p, author) = {} /\ created < MaxNotes
Create(p, author, body) ==
    /\ created' = created + 1
    /\ noted' = [noted EXCEPT ![p] = @ \cup {[id |-> created + 1, author |-> author, body |-> body]}]

\* The rules of Edit and Delete: its author, or an administrator.
MayWrite(n, author, admin) == n.author = author \/ admin

Update(p, id, body) ==
    noted' = [noted EXCEPT ![p] = {IF n.id = id THEN [n EXCEPT !.body = body] ELSE n : n \in @}]

Delete(p, id) == noted' = [noted EXCEPT ![p] = {n \in @ : n.id # id}]

Stored(p, id) == \E n \in noted[p] : n.id = id

------------------------------------------------------------------------------
(* What is on the screen.                                                  *)

mine == resource["own"].value

\* The member's note first, and not twice.
\* Mutant: wherever else it is.
OrderedTwice == [first |-> mine, rest |-> resource["list"].value]
ordered == [first |-> mine, rest |-> {n \in resource["list"].value : \A own \in mine : n.id # own.id}]

isLoading(r) == resource[r].at \in {"loading", "reloading"}

composer == member /\ mine = {} /\ ~isLoading("own")

\* While the list loads for the first time, and after it failed, there is none.
OnScreen ==
    IF resource["list"].at \in {"loading", "failed"} THEN {} ELSE ordered.first \cup ordered.rest

isMine(n) == member /\ n.author = Me

------------------------------------------------------------------------------
(* Reading.                                                                *)

Read(r) == IF r = "list" THEN ListByPlayer(onPage) ELSE NotesBy(onPage, Me)

ServeRead(r) ==
    /\ isLoading(r) /\ ~resource[r].got
    /\ resource' = [resource EXCEPT ![r].got = TRUE, ![r].answer = Read(r)]
    /\ behind' = behind \ {r}
    /\ UNCHANGED <<noted, created, moderator, member, onPage, editing, write, removals,
                   pending, asking, steps>>

ReadArrives(r) ==
    /\ resource[r].got
    /\ resource' = [resource EXCEPT ![r] = [Unread EXCEPT !.at = "ready", !.value = resource[r].answer]]
    /\ UNCHANGED <<noted, created, moderator, member, onPage, editing, write, removals,
                   pending, asking, steps, behind>>

ListFails ==
    /\ isLoading("list")
    /\ resource' = [resource EXCEPT !["list"] = [Unread EXCEPT !.at = "failed"]]
    /\ UNCHANGED <<noted, created, moderator, member, onPage, editing, write, removals,
                   pending, asking, steps, behind>>

Reloaded(r) ==
    IF resource[r].at \in {"idle", "loading"} THEN resource[r]
    ELSE [resource[r] EXCEPT !.at = "reloading", !.got = FALSE, !.answer = {}]

\* Both, because a write changes the list and the member's note.
Refresh == resource' = [r \in Resources |-> Reloaded(r)]

\* A reload that is dropped leaves an answer that was read before the write.
Dropped == {r \in Resources : resource[r].at = "loading" /\ resource[r].got}

------------------------------------------------------------------------------
(* Writing.                                                                *)

startEdit(n) ==
    /\ n \in OnScreen /\ isMine(n) /\ editing # n.id
    /\ editing' = n.id
    /\ UNCHANGED <<noted, created, moderator, member, onPage, resource, write, removals, pending,
                   asking, steps, behind>>

cancelEdit == editing' = 0

LeaveEdit ==
    /\ editing \in {n.id : n \in OnScreen}
    /\ cancelEdit
    /\ UNCHANGED <<noted, created, moderator, member, onPage, resource, write, removals, pending,
                   asking, steps, behind>>

writing == write.at # "none"

Press(w) ==
    /\ ~writing
    /\ write' = w
    /\ Steps
    /\ UNCHANGED <<noted, created, moderator, member, onPage, resource, editing, removals,
                   pending, asking, behind>>

post ==
    /\ composer
    /\ \E text \in Texts : Press([at |-> "out", kind |-> "post", player |-> onPage, id |-> 0, body |-> text])

saveEdit ==
    /\ editing \in {n.id : n \in OnScreen}
    /\ \E text \in Texts :
          Press([at |-> "out", kind |-> "edit", player |-> onPage, id |-> editing, body |-> text])

ServeWrite ==
    /\ write.at = "out"
    /\ \/ /\ write.kind = "post" /\ MayCreate(write.player, Me)
          /\ Create(write.player, Me, write.body)
          /\ write' = [write EXCEPT !.at = "done"]
       \/ /\ write.kind = "edit" /\ Stored(write.player, write.id)
          /\ Update(write.player, write.id, write.body)
          /\ write' = [write EXCEPT !.at = "done"] /\ UNCHANGED created
       \/ /\ IF write.kind = "post" THEN ~MayCreate(write.player, Me) ELSE ~Stored(write.player, write.id)
          /\ write' = [write EXCEPT !.at = "refused"] /\ UNCHANGED <<noted, created>>
    /\ UNCHANGED <<moderator, member, onPage, resource, editing, removals, pending, asking,
                   steps, behind>>

WriteSucceeds ==
    /\ write.at = "done"
    /\ write' = NoWrite
    /\ IF write.kind = "post" THEN UNCHANGED editing ELSE cancelEdit
    /\ Refresh /\ behind' = behind \cup Dropped
    /\ UNCHANGED <<noted, created, moderator, member, onPage, removals, pending, asking, steps>>

\* Refused, never served, or done with an answer that is lost.
WriteFails ==
    /\ writing
    /\ write' = NoWrite
    /\ behind' = IF write.at = "done" THEN Resources ELSE behind
    /\ UNCHANGED <<noted, created, moderator, member, onPage, resource, editing, removals,
                   pending, asking, steps>>

------------------------------------------------------------------------------
(* Deleting.                                                               *)

askDelete(n) ==
    /\ n \in OnScreen /\ ~asking
    /\ IF isMine(n) THEN editing # n.id ELSE member /\ moderator
    /\ pending' = n /\ asking' = TRUE
    /\ UNCHANGED <<noted, created, moderator, member, onPage, resource, editing, write,
                   removals, steps, behind>>

\* An earlier deletion that ends takes the dialog's note away: confirming it
\* then does nothing.
CloseDialog(confirmed) ==
    /\ asking /\ asking' = FALSE
    /\ IF confirmed /\ pending # NoNote
       THEN removals' = removals \cup {[note |-> pending, at |-> "out"]} /\ Steps
       ELSE UNCHANGED <<removals, steps>>
    /\ UNCHANGED <<noted, created, moderator, member, onPage, resource, editing, write,
                   pending, behind>>

\* The note is found by its id alone.
ServeRemoval(d) ==
    /\ d.at = "out"
    /\ \E p \in Persons :
          \/ Stored(p, d.note.id) /\ Delete(p, d.note.id) /\ removals' = (removals \ {d}) \cup {[d EXCEPT !.at = "done"]}
          \/ /\ \A q \in Persons : ~Stored(q, d.note.id)
             /\ removals' = (removals \ {d}) \cup {[d EXCEPT !.at = "refused"]} /\ UNCHANGED noted
    /\ UNCHANGED <<created, moderator, member, onPage, resource, editing, write, pending,
                   asking, steps, behind>>

RemovalSucceeds(d) ==
    /\ d.at = "done"
    /\ removals' = removals \ {d}
    /\ cancelEdit
    /\ Refresh /\ behind' = behind \cup Dropped
    /\ pending' = NoNote
    /\ UNCHANGED <<noted, created, moderator, member, onPage, write, asking, steps>>

RemovalFails(d) ==
    /\ removals' = removals \ {d}
    /\ pending' = NoNote
    /\ behind' = IF d.at = "done" THEN Resources ELSE behind
    /\ UNCHANGED <<noted, created, moderator, member, onPage, resource, editing, write,
                   asking, steps>>

------------------------------------------------------------------------------
(* Coming and going.                                                       *)

\* The component stays and its texts with it; what was read for the other
\* player is dropped.
Visit(p) ==
    /\ p # onPage /\ Steps
    /\ onPage' = p
    /\ resource' = [r \in Resources |-> IF r = "own" /\ ~member THEN Unread ELSE FirstRead]
    /\ behind' = {}
    /\ UNCHANGED <<noted, created, moderator, member, editing, write, removals, pending, asking>>

\* The session is restored, renewed or lost under the page.
SessionChanges ==
    /\ Steps
    /\ member' = ~member
    /\ resource' = [resource EXCEPT !["own"] = IF member THEN Unread ELSE FirstRead]
    /\ behind' = behind \ {"own"}
    /\ UNCHANGED <<noted, created, moderator, onPage, editing, write, removals, pending, asking>>

\* Other members, administrators, and the member in another tab.
Elsewhere ==
    /\ Steps
    /\ \/ \E a \in Others \cup {Me}, body \in Texts : MayCreate(onPage, a) /\ Create(onPage, a, body)
       \/ \E n \in noted[onPage], body \in Texts : Update(onPage, n.id, body) /\ UNCHANGED created
       \/ \E n \in noted[onPage] : Delete(onPage, n.id) /\ UNCHANGED created
    /\ behind' = Resources
    /\ UNCHANGED <<moderator, member, onPage, resource, editing, write, removals, pending, asking>>

\* What may have been written before.
Earlier ==
    UNION {LET own == [id |-> 1, author |-> Me, body |-> text]
               his == [id |-> 2, author |-> a, body |-> text]
           IN  SUBSET {own, his} : a \in Others, text \in Texts}

NotesInit ==
    /\ \E p \in Persons, notes \in Earlier : noted = [[q \in Persons |-> {}] EXCEPT ![p] = notes]
    /\ created = 2
    /\ moderator \in BOOLEAN /\ member \in BOOLEAN /\ onPage \in Persons
    /\ resource = [r \in Resources |-> IF r = "own" /\ ~member THEN Unread ELSE FirstRead]
    /\ editing = 0 /\ write = NoWrite /\ removals = {}
    /\ pending = NoNote /\ asking = FALSE /\ steps = 0 /\ behind = {}

NotesNext ==
    \/ \E r \in Resources : ServeRead(r) \/ ReadArrives(r)
    \/ ListFails
    \/ \E n \in OnScreen : startEdit(n) \/ askDelete(n)
    \/ LeaveEdit \/ post \/ saveEdit \/ ServeWrite \/ WriteSucceeds \/ WriteFails
    \/ \E confirmed \in BOOLEAN : CloseDialog(confirmed)
    \/ \E d \in removals : ServeRemoval(d) \/ RemovalSucceeds(d) \/ RemovalFails(d)
    \/ \E p \in Persons : Visit(p)
    \/ SessionChanges \/ Elsewhere

NotesSpec == NotesInit /\ [][NotesNext]_noteVars

------------------------------------------------------------------------------

NotesTypeOK ==
    /\ \A p \in Persons : \A n, m \in noted[p] : n.author = m.author => n = m
    /\ \A r \in Resources : resource[r].at \in {"idle", "loading", "reloading", "ready", "failed"}
    /\ write.body \in Texts \cup {0} /\ write.at \in {"none", "out", "done", "refused"}
    /\ Cardinality(mine) <= 1 /\ behind \subseteq Resources

\* When the page has come to rest it shows the notes as they are stored: the
\* member's own once, first and as last written, the others after it, and the
\* composer to those and only those who have no note yet -- unless someone
\* else wrote since it was read, or the page asked again too early.
NotesAreCurrent ==
    (/\ ~writing /\ removals = {} /\ behind = {}
     /\ resource["list"].at = "ready"
     /\ resource["own"].at = (IF member THEN "ready" ELSE "idle")) =>
        LET own == IF member THEN NotesBy(onPage, Me) ELSE {}
        IN  /\ ordered = [first |-> own,
                          rest |-> {n \in ListByPlayer(onPage) : own = {} \/ n.author # Me}]
            /\ composer <=> member /\ own = {}
===============================================================================
