----------------------------- MODULE ReferenceData -----------------------------
(***************************************************************************)
(* What turns the ids on a page into names: the lists of clubs,            *)
(* competitions and seasons, read whole once and kept for the visit, and   *)
(* the players' names, asked for by id in batches.  The server fills them  *)
(* while it draws a page and leaves them for the browser, which starts     *)
(* from them.                                                              *)
(*                                                                         *)
(* The three lists are alike: one stands for each.  The names of players   *)
(* do not change here, only whether they are known.                        *)
(***************************************************************************)
EXTENDS SequencesExt, Integers, FiniteSets

CONSTANTS
    Entries,        \* what may be on the list
    PageLimit,      \* MAX_PAGE_SIZE, of the list and of a batch
    OffsetLimit,    \* the safety stop of collect
    People,         \* players whose names are asked for
    MaxAsks         \* calls of load and resolve, and changes of the list (a bound)

VARIABLES
    side,           \* where the page is drawn: server, then browser
    entries,        \* the service's list, in its order
    kept,           \* the ids in the lookup's map
    loading,        \* the load under way: [at, offset, collected, more]
    names,          \* the players whose names are known
    batches,        \* requests for names: [ids, call, at]
    calls,          \* resolve calls that wait for their batches
    transfer,       \* what the server has left: [kept, names]
    asks,
    moved           \* history: the list changed under the load

referenceVars == <<side, entries, kept, loading, names, batches, calls, transfer, asks, moved>>

NoLoad == [at |-> "none", offset |-> 0, collected |-> {}, more |-> FALSE]

Ask == asks < MaxAsks /\ asks' = asks + 1

------------------------------------------------------------------------------
(* A list.                                                                 *)

\* loadTeams, loadLeagues and loadSeasons: only into an empty map, and once
\* however many ask.
load ==
    /\ kept = {} /\ loading.at = "none"
    /\ loading' = [NoLoad EXCEPT !.at = "out"]
    /\ moved' = FALSE
    /\ Ask
    /\ UNCHANGED <<side, entries, kept, names, batches, calls, transfer>>

PageFrom(offset) ==
    SubSeq(entries, offset + 1, IF offset + PageLimit < Len(entries) THEN offset + PageLimit ELSE Len(entries))

ServePage ==
    /\ loading.at = "out"
    /\ loading' = [loading EXCEPT !.at = "back", !.collected = @ \cup ToSet(PageFrom(loading.offset)),
                                  !.more = Len(entries) > loading.offset + PageLimit]
    /\ UNCHANGED <<side, entries, kept, names, batches, calls, transfer, asks, moved>>

\* Mutant: what is left is what was known before the load.
PublishBefore == UNCHANGED transfer
Publish == transfer' = IF side = "server" THEN [transfer EXCEPT !.kept = kept'] ELSE transfer

\* Mutant: the first page is taken for the list.
NeverMore == FALSE
AnotherPage == loading.more /\ loading.offset + PageLimit <= OffsetLimit

\* The map is set once, after the last page.
PageArrives ==
    /\ loading.at = "back"
    /\ IF AnotherPage
       THEN /\ loading' = [loading EXCEPT !.at = "out", !.offset = @ + PageLimit]
            /\ UNCHANGED <<kept, transfer>>
       ELSE kept' = loading.collected /\ loading' = NoLoad /\ Publish
    /\ UNCHANGED <<side, entries, names, batches, calls, asks, moved>>

\* Whoever asks next starts again.
LoadFails ==
    /\ loading.at \in {"out", "back"}
    /\ loading' = NoLoad
    /\ UNCHANGED <<side, entries, kept, names, batches, calls, transfer, asks, moved>>

ListChanges ==
    /\ \/ \E e \in Entries \ ToSet(entries), i \in 1 .. Len(entries) + 1 : entries' = InsertAt(entries, i, e)
       \/ \E i \in DOMAIN entries : entries' = RemoveAt(entries, i)
    /\ moved' = TRUE
    /\ Ask
    /\ UNCHANGED <<side, kept, loading, names, batches, calls, transfer>>

------------------------------------------------------------------------------
(* Names.                                                                  *)

InFlight == UNION {b.ids : b \in batches}

\* Cut into requests of one page each.
Chunks(ids, call) ==
    LET list == SetToSeq(ids)
        cut(k) == {list[i] : i \in {j \in DOMAIN list : (j - 1) \div PageLimit = k}}
    IN  {[ids |-> cut((j - 1) \div PageLimit), call |-> call, at |-> "out"] : j \in DOMAIN list}

\* Ids that are known or asked for already are not asked for again, and not
\* waited for either.
resolve(ids) ==
    LET wanted == ids \ (names \cup InFlight)
    IN  /\ wanted # {}
        /\ batches' = batches \cup Chunks(wanted, asks)
        /\ calls' = calls \cup {asks}
        /\ Ask
        /\ UNCHANGED <<side, entries, kept, loading, names, transfer, moved>>

\* A batch that fails leaves its ids unknown, to be asked for again.
BatchEnds(b, found) ==
    /\ batches' = batches \ {b}
    /\ names' = names \cup found
    /\ UNCHANGED <<side, entries, kept, loading, calls, transfer, asks, moved>>

\* Once all of a call's batches have ended.
ResolveEnds(c) ==
    /\ \A b \in batches : b.call # c
    /\ calls' = calls \ {c}
    /\ transfer' = IF side = "server" THEN [transfer EXCEPT !.names = names] ELSE transfer
    /\ UNCHANGED <<side, entries, kept, loading, names, batches, asks, moved>>

------------------------------------------------------------------------------

\* The server sends the page when nothing is under way, and the browser's
\* stores are made of what it left.
HandOver ==
    /\ side = "server" /\ loading.at = "none" /\ calls = {}
    /\ side' = "browser"
    /\ kept' = transfer.kept /\ names' = transfer.names
    /\ transfer' = [kept |-> {}, names |-> {}]
    /\ UNCHANGED <<entries, loading, batches, calls, asks, moved>>

ReferenceInit ==
    /\ side = "server"
    /\ entries \in UNION {SetToSeqs(set) : set \in SUBSET Entries}
    /\ kept = {} /\ loading = NoLoad
    /\ names = {} /\ batches = {} /\ calls = {}
    /\ transfer = [kept |-> {}, names |-> {}]
    /\ asks = 0 /\ moved = FALSE

ReferenceNext ==
    \/ load \/ ServePage \/ PageArrives \/ LoadFails \/ ListChanges
    \/ \E ids \in SUBSET People : resolve(ids)
    \/ \E b \in batches : \E found \in SUBSET b.ids : BatchEnds(b, found)
    \/ \E c \in calls : ResolveEnds(c)
    \/ HandOver

ReferenceSpec == ReferenceInit /\ [][ReferenceNext]_referenceVars

------------------------------------------------------------------------------

ReferenceTypeOK ==
    /\ kept \subseteq Entries /\ names \subseteq People /\ InFlight \subseteq People \ names
    /\ loading.at \in {"none", "out", "back"} /\ loading.offset <= OffsetLimit
    /\ \A b \in batches : Cardinality(b.ids) \in 1 .. PageLimit /\ b.call \in calls

\* The browser's first drawing has the names that the server's had: whatever
\* loads ran side by side, failed or were asked for again.
NamesSurviveHandOver == [][side' # side => kept' = kept /\ names' = names]_referenceVars

\* A list that is kept for the visit was the service's whole list: read page
\* by page, it lacks nothing unless rows came or went meanwhile or it is
\* longer than the safety stop allows.
KeptListIsWhole ==
    [][kept' # kept /\ side' = side =>
         moved \/ kept' = {entries[i] : i \in {j \in DOMAIN entries : j <= OffsetLimit + PageLimit}}]_referenceVars
===============================================================================
