------------------------------ MODULE Transfers ------------------------------
(***************************************************************************)
(* The transfers table, from which players.team_id is derived.             *)
(*                                                                         *)
(* RecordTransfer checks the stated origin against a read taken outside    *)
(* the transaction; the repository then locks the player, checks again,    *)
(* inserts the row and moves the player unless a later move is on record.  *)
(* Deleting a club is one statement whose cascade visits the players one   *)
(* by one.  A transaction's writes are published when it commits; its      *)
(* locks are what the other transactions see before.                       *)
(*                                                                         *)
(* A transfer's type, fee, currency and season are left out, and with them *)
(* UpdateTransfer, which writes nothing else.  So are roles and grants     *)
(* (GrantCache).                                                           *)
(***************************************************************************)
EXTENDS Registry

CONSTANTS
    Teams,
    MoveIds         \* transfers on record at once (a bound)

ASSUME TransfersAssumption == NoTeam \notin Teams

OptTeam == Teams \cup {NoTeam}

VARIABLES
    status,     \* status[x]: has the player's row been inserted, deleted
    club,       \* players.team_id
    clubs,      \* clubs that exist
    moves,      \* moves[i]: a row of transfers, or NoMove
    job,        \* job[p]: where the request p stands
    adrift      \* history: players whose latest move was deleted, and who
                \* have not been moved by a later one since

transferVars == <<status, club, clubs, moves, job, adrift>>

Move == [player: Players \cup {NoPlayer}, from: OptTeam, to: OptTeam, date: Days \cup {NoDay}]

NoMove == [player |-> NoPlayer, from |-> NoTeam, to |-> NoTeam, date |-> NoDay]

Job == [pc: {"idle", "lock", "insert", "update", "commit", "cascade"},
        move: Move,
        latest: BOOLEAN,            \* the UPDATE found no later move
        team: OptTeam,              \* the club being deleted
        todo: SUBSET Players,       \* its players the cascade has yet to visit
        held: SUBSET Players]       \* and those it has locked

NoJob == [pc |-> "idle", move |-> NoMove, latest |-> FALSE, team |-> NoTeam,
          todo |-> {}, held |-> {}]

OnRecord(i) == moves[i].player # NoPlayer

TransferTypeOK ==
    /\ status \in [Players -> {"unborn", "here", "gone"}]
    /\ club \in [Players -> OptTeam]
    /\ clubs \subseteq Teams
    /\ moves \in [MoveIds -> Move]
    /\ job \in [Procs -> Job]
    /\ adrift \subseteq Players
    /\ \A i \in MoveIds : OnRecord(i) => status[moves[i].player] = "here" /\ moves[i].date \in Days
    /\ \A p \in Procs : job[p].pc \in {"lock", "insert", "update", "commit"}
                           => job[p].move.player \in Players /\ job[p].move.date \in Days

TransferInit ==
    /\ status = [x \in Players |-> "unborn"]
    /\ club = [x \in Players |-> NoTeam]
    /\ clubs = Teams
    /\ moves = [i \in MoveIds |-> NoMove]
    /\ job = [p \in Procs |-> NoJob]
    /\ adrift = {}

-----------------------------------------------------------------------------
(***************************************************************************)
(* Row locks.                                                              *)
(***************************************************************************)
LocksPlayer(p, x) ==
    \/ job[p].pc \in {"insert", "update", "commit"} /\ job[p].move.player = x
    \/ job[p].pc = "cascade" /\ x \in job[p].held

\* A row that references a club share-locks it until the transaction ends.
SharesTeam(p, t) ==
    job[p].pc \in {"update", "commit"} /\ t \in {job[p].move.from, job[p].move.to}

DeletesTeam(p, t) == job[p].pc = "cascade" /\ job[p].team = t

PlayerFree(p, x) == \A q \in Procs \ {p} : ~LocksPlayer(q, x)

\* The foreign-key check on an optional club can be answered.
Checkable(t) == \A q \in Procs : t # NoTeam => ~DeletesTeam(q, t)

Done(p) == job' = [job EXCEPT ![p] = NoJob]

-----------------------------------------------------------------------------
(***************************************************************************)
(* RecordTransfer.                                                         *)
(***************************************************************************)
\* The service: the stated origin passed checkOrigin, so it is the club read
\* here; validateTransfer refuses a move from nowhere to nowhere, and one
\* from a club to itself.
RecordTransfer(p, x, to, date) ==
    /\ job[p].pc = "idle"
    /\ status[x] = "here"
    /\ club[x] # to
    /\ job' = [job EXCEPT ![p] =
                 [NoJob EXCEPT !.pc = "lock",
                               !.move = [player |-> x, from |-> club[x], to |-> to, date |-> date]]]
    /\ UNCHANGED <<status, club, clubs, moves, adrift>>

\* sameTeam.  Mutant: the second check is dropped.
AnyTeam(x, from) == TRUE
SameTeam(x, from) == club[x] = from

\* SELECT ... FOR UPDATE
LockPlayer(p) ==
    LET m == job[p].move
    IN /\ job[p].pc = "lock"
       /\ PlayerFree(p, m.player)
       /\ IF status[m.player] = "here" /\ SameTeam(m.player, m.from)
          THEN job' = [job EXCEPT ![p].pc = "insert"]
          ELSE Done(p)
       /\ UNCHANGED <<status, club, clubs, moves, adrift>>

InsertMove(p) ==
    LET m == job[p].move
    IN /\ job[p].pc = "insert"
       /\ Checkable(m.from) /\ Checkable(m.to)
       /\ IF {m.from, m.to} \subseteq clubs \cup {NoTeam}
          THEN job' = [job EXCEPT ![p].pc = "update"]
          ELSE Done(p)
       /\ UNCHANGED <<status, club, clubs, moves, adrift>>

\* Mutant: the UPDATE without its NOT EXISTS.
LatestAlways(m) == TRUE
IsLatest(m) ==
    \A i \in MoveIds : moves[i].player = m.player => moves[i].date <= m.date

UpdatePlayerTeam(p) ==
    /\ job[p].pc = "update"
    /\ job' = [job EXCEPT ![p].pc = "commit", ![p].latest = IsLatest(job[p].move)]
    /\ UNCHANGED <<status, club, clubs, moves, adrift>>

CommitMove(p, i) ==
    LET m == job[p].move
    IN /\ job[p].pc = "commit"
       /\ ~OnRecord(i)
       /\ moves' = [moves EXCEPT ![i] = m]
       /\ IF job[p].latest
          THEN /\ club' = [club EXCEPT ![m.player] = m.to]
               /\ adrift' = adrift \ {m.player}
          ELSE UNCHANGED <<club, adrift>>
       /\ Done(p)
       /\ UNCHANGED <<status, clubs>>

\* A statement fails, the client goes away, or the database breaks a deadlock
\* (RecordTransfer waits for a club that DeleteTeam holds, DeleteTeam for the
\* player): the transaction is rolled back.
Abort(p) ==
    /\ job[p].pc # "idle"
    /\ Done(p)
    /\ UNCHANGED <<status, club, clubs, moves, adrift>>

-----------------------------------------------------------------------------
(***************************************************************************)
(* The operations that are one statement, or one short transaction.        *)
(***************************************************************************)
LatestOf(x) ==
    {i \in MoveIds : /\ moves[i].player = x
                     /\ \A j \in MoveIds : moves[j].player = x => moves[j].date <= moves[i].date}

\* Administrators only; the player's club is deliberately left alone.
DeleteTransfer(i) ==
    /\ OnRecord(i)
    /\ moves' = [moves EXCEPT ![i] = NoMove]
    /\ adrift' = IF i \in LatestOf(moves[i].player) THEN adrift \cup {moves[i].player} ELSE adrift
    /\ UNCHANGED <<status, club, clubs, job>>

\* The player and the opening transfer, dated by the contract or by today.
CreatePlayer(x, t, date, i) ==
    /\ status[x] = "unborn"
    /\ t \in clubs \cup {NoTeam}
    /\ Checkable(t)
    /\ ~OnRecord(i)
    /\ status' = [status EXCEPT ![x] = "here"]
    /\ club' = [club EXCEPT ![x] = t]
    /\ moves' = IF t = NoTeam THEN moves
                ELSE [moves EXCEPT ![i] = [player |-> x, from |-> NoTeam, to |-> t, date |-> date]]
    /\ UNCHANGED <<clubs, job, adrift>>

\* transfers.player_id is ON DELETE CASCADE.  Mutant: it is not.
KeptMoves(x) == moves
CascadedMoves(x) == [i \in MoveIds |-> IF moves[i].player = x THEN NoMove ELSE moves[i]]

DeletePlayer(x) ==
    /\ status[x] = "here"
    /\ \A p \in Procs : ~LocksPlayer(p, x)
    /\ status' = [status EXCEPT ![x] = "gone"]
    /\ club' = [club EXCEPT ![x] = NoTeam]
    /\ moves' = CascadedMoves(x)
    /\ UNCHANGED <<clubs, job, adrift>>

-----------------------------------------------------------------------------
(***************************************************************************)
(* DeleteTeam: players.team_id and both clubs of a transfer are ON DELETE  *)
(* SET NULL.                                                               *)
(***************************************************************************)
DeleteTeam(p, t) ==
    /\ job[p].pc = "idle"
    /\ t \in clubs
    /\ \A q \in Procs : ~SharesTeam(q, t) /\ ~DeletesTeam(q, t)
    /\ job' = [job EXCEPT ![p] = [NoJob EXCEPT !.pc = "cascade", !.team = t,
                                              !.todo = {x \in Players : club[x] = t}]]
    /\ UNCHANGED <<status, club, clubs, moves, adrift>>

CascadePlayer(p, x) ==
    /\ job[p].pc = "cascade"
    /\ x \in job[p].todo
    /\ PlayerFree(p, x)
    /\ job' = [job EXCEPT ![p].todo = @ \ {x},
                          ![p].held = IF club[x] = job[p].team THEN @ \cup {x} ELSE @]
    /\ UNCHANGED <<status, club, clubs, moves, adrift>>

CommitDeleteTeam(p) ==
    LET t == job[p].team
        Nulled(u) == IF u = t THEN NoTeam ELSE u
    IN /\ job[p].pc = "cascade"
       /\ job[p].todo = {}
       /\ clubs' = clubs \ {t}
       /\ club' = [x \in Players |-> IF x \in job[p].held THEN NoTeam ELSE club[x]]
       /\ moves' = [i \in MoveIds |-> [moves[i] EXCEPT !.from = Nulled(@), !.to = Nulled(@)]]
       /\ Done(p)
       /\ UNCHANGED <<status, adrift>>

-----------------------------------------------------------------------------
TransferNext ==
    \/ \E p \in Procs :
          \/ \E x \in Players, to \in OptTeam, d \in Days : RecordTransfer(p, x, to, d)
          \/ LockPlayer(p) \/ InsertMove(p) \/ UpdatePlayerTeam(p)
          \/ \E i \in MoveIds : CommitMove(p, i)
          \/ Abort(p)
          \/ \E t \in Teams : DeleteTeam(p, t)
          \/ \E x \in Players : CascadePlayer(p, x)
          \/ CommitDeleteTeam(p)
    \/ \E i \in MoveIds : DeleteTransfer(i)
    \/ \E x \in Players, t \in OptTeam, d \in Days, i \in MoveIds : CreatePlayer(x, t, d, i)
    \/ \E x \in Players : DeletePlayer(x)

TransferSpec == TransferInit /\ [][TransferNext]_transferVars

-----------------------------------------------------------------------------
\* players.team_id is the destination of a latest-dated move, or NULL without
\* moves, through backfills, ties, deleted clubs and concurrent recordings.
\* The one way out is deleting a latest move, which leaves the club alone on
\* purpose; the next move recorded as the latest mends it.
FollowsRecord(x) ==
    \/ (\A i \in MoveIds : moves[i].player # x) /\ club[x] = NoTeam
    \/ \E i \in LatestOf(x) : moves[i].to = club[x]

SquadFollowsRecord ==
    \A x \in Players : status[x] = "here" /\ x \notin adrift => FollowsRecord(x)

\* A move enters the record only from the club the player was at in the step
\* that recorded it: of two requests filed against the same squad one is told
\* to retry (the comment on the lock in Record).
MovesStartWherePlayerIs ==
    [][\A i \in MoveIds :
          ~OnRecord(i) /\ OnRecord(i)' /\ status[moves'[i].player] = "here"
             => moves'[i].from = club[moves'[i].player]]_transferVars

=============================================================================
