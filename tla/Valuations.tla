----------------------------- MODULE Valuations -----------------------------
(***************************************************************************)
(* The player_market_values table, from which players.market_value_minor   *)
(* is derived.                                                             *)
(*                                                                         *)
(* Recording upserts the day's row and then updates the player unless a    *)
(* later valuation is on record; deleting a row resets the player to the   *)
(* latest that is left.  Neither locks the player first: the UPDATE reads  *)
(* the history as it was when the statement began, then waits for the      *)
(* player's row, and looks at that row again but not at the history        *)
(* (READ COMMITTED).                                                       *)
(*                                                                         *)
(* Every caller is an administrator.  The currency travels with the amount *)
(* and is left out, as is the event published after the commit.            *)
(***************************************************************************)
EXTENDS Registry

CONSTANT Amounts    \* figures that may be recorded

ASSUME ValuationsAssumption == Amounts \subseteq Nat

VARIABLES
    valued,     \* players that exist
    value,      \* players.market_value_minor
    history,    \* history[x][d]: the valuation of day d, or NoAmount
    entry,      \* entry[p]: where the request p stands
    raced       \* history: players whose last writer missed a commit

valuationVars == <<valued, value, history, entry, raced>>

NoAmount == -1
OptAmount == Amounts \cup {NoAmount}

\* before and writes are what the UPDATE saw and will do; behind is history:
\* another transaction on the player committed since.
EntryJob == [pc: {"idle", "update", "write", "commit"}, player: Players \cup {NoPlayer},
             day: Days \cup {NoDay}, amount: OptAmount, figure: Amounts \cup {0},
             writes: BOOLEAN, behind: BOOLEAN]

NoEntryJob == [pc |-> "idle", player |-> NoPlayer, day |-> NoDay, amount |-> NoAmount,
               figure |-> 0, writes |-> FALSE, behind |-> FALSE]

ValuationTypeOK ==
    /\ valued \subseteq Players
    /\ value \in [Players -> Amounts \cup {0}]
    /\ history \in [Players -> [Days -> OptAmount]]
    /\ entry \in [Procs -> EntryJob]
    /\ raced \subseteq Players
    /\ \A x \in Players \ valued, d \in Days : history[x][d] = NoAmount

ValuationInit ==
    /\ valued = {}
    /\ value = [x \in Players |-> 0]
    /\ history = [x \in Players |-> [d \in Days |-> NoAmount]]
    /\ entry = [p \in Procs |-> NoEntryJob]
    /\ raced = {}

-----------------------------------------------------------------------------
InFlight(p, x) == entry[p].pc # "idle" /\ entry[p].player = x

\* The row of a day is locked from the first statement to the commit, the
\* player's from the second one.
DayFree(x, d) == \A q \in Procs : InFlight(q, x) => entry[q].day # d
PlayerRowFree(p, x) ==
    \A q \in Procs \ {p} : InFlight(q, x) /\ entry[q].writes => entry[q].pc # "commit"

EndEntry(p) == entry' = [entry EXCEPT ![p] = NoEntryJob]

\* The history as p's transaction sees it: what is committed, and its own row.
Seen(p) == [history[entry[p].player] EXCEPT ![entry[p].day] = entry[p].amount]

LastDay(h) == {d \in Days : h[d] # NoAmount /\ \A e \in Days : h[e] # NoAmount => e <= d}

\* COALESCE(latest.value_minor, 0)
Latest(h) == IF LastDay(h) = {} THEN 0 ELSE h[CHOOSE d \in LastDay(h) : TRUE]

-----------------------------------------------------------------------------
\* The first statement, and the row lock that ends only with the transaction:
\* INSERT ... ON CONFLICT DO UPDATE, or DELETE of a row that is there.
BeginEntry(p, x, d, amount) ==
    /\ entry[p].pc = "idle"
    /\ x \in valued
    /\ DayFree(x, d)
    /\ entry' = [entry EXCEPT ![p] = [NoEntryJob EXCEPT !.pc = "update", !.player = x,
                                                       !.day = d, !.amount = amount]]
    /\ UNCHANGED <<valued, value, history, raced>>

RecordValue(p, x, d, a) == BeginEntry(p, x, d, a)
DeleteValue(p, x, d) == history[x][d] # NoAmount /\ BeginEntry(p, x, d, NoAmount)

\* Record's NOT EXISTS.  Mutant: any valuation becomes the current one.
NoLaterIgnored(p) == TRUE
NoLater(p) == \A d \in Days : Seen(p)[d] # NoAmount => d <= entry[p].day

\* The second statement reads: Record its own figure, when nothing later is on
\* record; Delete the latest one left.
SetCurrent(p) ==
    LET deleting == entry[p].amount = NoAmount
        writes == deleting \/ NoLater(p)
    IN /\ entry[p].pc = "update"
       /\ entry' = [entry EXCEPT
            ![p].pc = IF writes THEN "write" ELSE "commit",
            ![p].writes = writes,
            ![p].figure = IF deleting THEN Latest(Seen(p)) ELSE entry[p].amount]
       /\ UNCHANGED <<valued, value, history, raced>>

\* ... and writes, once the player's row is free.
LockCurrent(p) ==
    /\ entry[p].pc = "write"
    /\ PlayerRowFree(p, entry[p].player)
    /\ entry' = [entry EXCEPT ![p].pc = "commit"]
    /\ UNCHANGED <<valued, value, history, raced>>

CommitEntry(p) ==
    LET e == entry[p]
        x == e.player
    IN /\ e.pc = "commit"
       /\ history' = [history EXCEPT ![x][e.day] = e.amount]
       /\ value' = IF e.writes THEN [value EXCEPT ![x] = e.figure] ELSE value
       /\ raced' = IF e.behind THEN raced \cup {x}
                   ELSE IF e.writes THEN raced \ {x} ELSE raced
       /\ entry' = [q \in Procs |->
                      IF q = p THEN NoEntryJob
                      ELSE IF InFlight(q, x) /\ entry[q].pc \in {"write", "commit"}
                           THEN [entry[q] EXCEPT !.behind = TRUE]
                           ELSE entry[q]]
       /\ UNCHANGED valued

AbortEntry(p) ==
    /\ entry[p].pc # "idle"
    /\ EndEntry(p)
    /\ UNCHANGED <<valued, value, history, raced>>

\* CreatePlayer, with an opening valuation when the figure is not zero.
CreateValued(x, d, a) ==
    /\ x \notin valued
    /\ valued' = valued \cup {x}
    /\ value' = [value EXCEPT ![x] = a]
    /\ history' = [history EXCEPT ![x][d] = IF a > 0 THEN a ELSE NoAmount]
    /\ UNCHANGED <<entry, raced>>

\* ON DELETE CASCADE, behind every transaction that references the player.
ClearedHistory(x) == [history EXCEPT ![x] = [d \in Days |-> NoAmount]]

DeleteValued(x) ==
    /\ x \in valued
    /\ \A p \in Procs : ~InFlight(p, x)
    /\ valued' = valued \ {x}
    /\ value' = [value EXCEPT ![x] = 0]
    /\ history' = ClearedHistory(x)
    /\ raced' = raced \ {x}
    /\ UNCHANGED entry

-----------------------------------------------------------------------------
ValuationNext ==
    \/ \E p \in Procs :
          \/ \E x \in Players, d \in Days :
                DeleteValue(p, x, d) \/ \E a \in Amounts : RecordValue(p, x, d, a)
          \/ SetCurrent(p) \/ LockCurrent(p) \/ CommitEntry(p) \/ AbortEntry(p)
    \/ \E x \in Players, d \in Days, a \in Amounts : CreateValued(x, d, a)
    \/ \E x \in Players : DeleteValued(x)

ValuationSpec == ValuationInit /\ [][ValuationNext]_valuationVars

-----------------------------------------------------------------------------
\* A player advertises the latest valuation on record, or zero without one,
\* through backfills, corrections and deletions.  Only a transaction that
\* overlapped another on the same player can break it, and the next one that
\* ran alone and set the figure mends it.
ValueFollowsHistory == \A x \in valued \ raced : value[x] = Latest(history[x])

\* market_value_repository.go: "only when this entry is the most recent one --
\* backfilling an older valuation must not overwrite a newer figure."
ValueIsLatest == \A x \in valued : value[x] = Latest(history[x])

=============================================================================
