------------------------------ MODULE Sessions ------------------------------
(***************************************************************************)
(* Refresh-token sessions of the identity service: the refresh_tokens      *)
(* table, the handlers that read and write it, and the statements they     *)
(* run under PostgreSQL's READ COMMITTED isolation.                        *)
(*                                                                         *)
(* A handler is several statements, so a request is a process with a       *)
(* program counter.  Rotate is a transaction: the row it inserts is        *)
(* invisible until it commits, and the row it revokes is locked from the   *)
(* UPDATE to the commit.  A revoking UPDATE chooses its rows when it       *)
(* starts, then visits them one at a time, waits for a locked one and      *)
(* looks at its WHERE clause again when the lock is free.                  *)
(*                                                                         *)
(* Hashing, the access token, cookies and response bodies are left out.    *)
(***************************************************************************)
EXTENDS Integers, FiniteSets

CONSTANTS
    Users,          \* accounts
    Tokens,         \* refresh tokens that can ever be drawn (a bound)
    Procs,          \* requests in flight at once (a bound)
    NoUser, NoToken,
    RefreshTTL,     \* auth.RefreshTokenTTL
    RotationGrace,  \* rotationGrace
    MaxTime,        \* bound on the clock
    MaxPwd          \* bound on the number of password changes

ASSUME SessionsAssumption ==
    /\ RefreshTTL \in Nat \ {0}
    /\ RotationGrace \in Nat
    /\ MaxTime \in Nat
    /\ MaxPwd \in Nat
    /\ NoUser \notin Users
    /\ NoToken \notin Tokens

VARIABLES
    now,        \* the clock both the service and the database read
    users,      \* users[u]: does the row exist, which password it holds
    row,        \* row[t]: the committed row of refresh_tokens, or NoRow
    drawn,      \* tokens ever generated; 256 random bits do not repeat
    req,        \* req[p]: where the request p stands
    promised,   \* history: password version a finished ChangePassword set
    doomed      \* history: rows that finished revoking statements had chosen

vars == <<now, users, row, drawn, req, promised, doomed>>

(***************************************************************************)
(* Types.                                                                  *)
(***************************************************************************)
Never == -1     \* revoked_at IS NULL

\* login and pwd are history: the token the chain began with, and the version
\* of the password that sign-in was admitted with.
Row == [user: Users \cup {NoUser}, expires: Nat, revoked: Nat \cup {Never},
        replacedBy: Tokens \cup {NoToken},
        login: Tokens \cup {NoToken}, pwd: Nat]

NoRow == [user |-> NoUser, expires |-> 0, revoked |-> Never,
          replacedBy |-> NoToken, login |-> NoToken, pwd |-> 0]

PCs == {"idle", "create", "readUser", "insert", "revokeOld", "commit",
        "setPassword", "revokeAll", "scan"}

Ops == {"none", "login", "refresh", "logout", "changePassword", "updateRole"}

Request == [pc: PCs, op: Ops, user: Users \cup {NoUser},
            tok: Tokens \cup {NoToken}, next: Tokens \cup {NoToken},
            pend: SUBSET Tokens,    \* rows the statement has yet to visit
            held: SUBSET Tokens,    \* rows it has locked and will revoke
            chosen: SUBSET Tokens,  \* history: rows it chose when it began
            at: Nat, pwd: Nat]

Idle == [pc |-> "idle", op |-> "none", user |-> NoUser, tok |-> NoToken,
         next |-> NoToken, pend |-> {}, held |-> {}, chosen |-> {},
         at |-> 0, pwd |-> 0]

TypeOK ==
    /\ now \in Nat
    /\ users \in [Users -> [exists: BOOLEAN, pwd: Nat]]
    /\ row \in [Tokens -> Row]
    /\ drawn \subseteq Tokens
    /\ req \in [Procs -> Request]
    /\ \A p \in Procs :
          /\ req[p].pc \in {"create", "setPassword"} => req[p].user \in Users
          /\ req[p].pc \in {"readUser", "insert", "revokeOld", "commit"}
               => req[p].user \in Users /\ req[p].tok \in Tokens
    /\ promised \in [Users -> Nat]
    /\ doomed \subseteq Tokens

Init ==
    /\ now = 0
    /\ users = [u \in Users |-> [exists |-> TRUE, pwd |-> 0]]
    /\ row = [t \in Tokens |-> NoRow]
    /\ drawn = {}
    /\ req = [p \in Procs |-> Idle]
    /\ promised = [u \in Users |-> 0]
    /\ doomed = {}

(***************************************************************************)
(* Helpers.                                                                *)
(***************************************************************************)
Stored(t) == row[t].user # NoUser

\* The predicate of every revoking statement: revoked_at IS NULL.
Live(t) == Stored(t) /\ row[t].revoked = Never

\* RefreshToken.Active.
Active(t) == Live(t) /\ now < row[t].expires

\* Presented after rotation, and too late to be a second tab.
Reused(t) == Stored(t) /\ row[t].revoked # Never /\ now - row[t].revoked > RotationGrace

\* Between Rotate's INSERT and its commit.
Rotating(p) == req[p].pc \in {"revokeOld", "commit"}

LockedByOther(p, t) == \E q \in Procs \ {p} : t \in req[q].held

\* Bound: a request that will draw a token begins only while one is left.
TokenLeft ==
    Cardinality({p \in Procs : req[p].pc \in {"create", "readUser", "insert"}})
      < Cardinality(Tokens \ drawn)

\* Leaving the handler: locks released, uncommitted work gone.
Finish(p) == req' = [req EXCEPT ![p] = Idle]

Goto(p, pc) == req' = [req EXCEPT ![p].pc = pc]

(***************************************************************************)
(* Login, and the tail of ExchangeCode: read the account, check the        *)
(* password, then store a session.                                         *)
(***************************************************************************)
LoginRead(p, u) ==
    /\ req[p].pc = "idle"
    /\ users[u].exists
    /\ TokenLeft
    /\ req' = [req EXCEPT ![p] = [Idle EXCEPT !.pc = "create", !.op = "login",
                                              !.user = u, !.pwd = users[u].pwd]]
    /\ UNCHANGED <<now, users, row, drawn, promised, doomed>>

\* Mutant: the lifetime is subtracted.
NewRowBackdated(u, at, login, pwd) ==
    [user |-> u, expires |-> at - RefreshTTL, revoked |-> Never,
     replacedBy |-> NoToken, login |-> login, pwd |-> pwd]

NewRow(u, at, login, pwd) ==
    [user |-> u, expires |-> at + RefreshTTL, revoked |-> Never,
     replacedBy |-> NoToken, login |-> login, pwd |-> pwd]

\* refresh_tokens.user_id REFERENCES users: the row of a deleted account is
\* refused.  Mutant: no foreign key.
NoForeignKey(u) == TRUE
ForeignKey(u) == users[u].exists

CreateSession(p, t) ==
    /\ req[p].pc = "create"
    /\ t \notin drawn
    /\ drawn' = drawn \cup {t}
    /\ IF ForeignKey(req[p].user)
       THEN row' = [row EXCEPT ![t] = NewRow(req[p].user, now, t, req[p].pwd)]
       ELSE UNCHANGED row
    /\ Finish(p)
    /\ UNCHANGED <<now, users, promised, doomed>>

(***************************************************************************)
(* Refresh.                                                                *)
(***************************************************************************)
\* Any token the service ever handed out may be presented, in any order and
\* as often as the client likes.
RefreshRead(p, t) ==
    /\ req[p].pc = "idle"
    /\ Stored(t)
    /\ \/ /\ Active(t)
          /\ TokenLeft
          /\ req' = [req EXCEPT ![p] = [Idle EXCEPT !.pc = "readUser", !.op = "refresh",
                                                    !.user = row[t].user, !.tok = t]]
       \/ /\ ~Active(t)
          /\ Reused(t)
          /\ req' = [req EXCEPT ![p] = [Idle EXCEPT !.pc = "revokeAll", !.op = "refresh",
                                                    !.user = row[t].user, !.tok = t,
                                                    !.next = row[t].replacedBy]]
    /\ UNCHANGED <<now, users, row, drawn, promised, doomed>>

RefreshUser(p) ==
    /\ req[p].pc = "readUser"
    /\ IF users[req[p].user].exists THEN Goto(p, "insert") ELSE Finish(p)
    /\ UNCHANGED <<now, users, row, drawn, promised, doomed>>

\* BEGIN and the INSERT.  NOW() is the time the transaction began, and the
\* successor's lifetime was counted from just before it.
RotateInsert(p, n) ==
    /\ req[p].pc = "insert"
    /\ n \notin drawn
    /\ drawn' = drawn \cup {n}
    /\ IF ForeignKey(req[p].user)
       THEN req' = [req EXCEPT ![p].pc = "revokeOld", ![p].next = n, ![p].at = now]
       ELSE Finish(p)
    /\ UNCHANGED <<now, users, row, promised, doomed>>

\* Mutant: the UPDATE without its WHERE revoked_at IS NULL.
MayRotateAnyRow(p) == Stored(req[p].tok)
MayRotate(p) == Live(req[p].tok)

Unlocked(p, t) == ~LockedByOther(p, t)

\* UPDATE ... WHERE id = $2 AND revoked_at IS NULL; no row means rollback.
RotateRevoke(p) ==
    /\ req[p].pc = "revokeOld"
    /\ Unlocked(p, req[p].tok)
    /\ IF MayRotate(p)
       THEN req' = [req EXCEPT ![p].pc = "commit", ![p].held = {req[p].tok}]
       ELSE Finish(p)
    /\ UNCHANGED <<now, users, row, drawn, promised, doomed>>

RotateCommit(p) ==
    LET old == req[p].tok
        new == req[p].next
    IN /\ req[p].pc = "commit"
       /\ row' = [row EXCEPT ![old] = [@ EXCEPT !.revoked = req[p].at, !.replacedBy = new],
                             ![new] = NewRow(req[p].user, req[p].at, row[old].login, row[old].pwd)]
       /\ Finish(p)
       /\ UNCHANGED <<now, users, drawn, promised, doomed>>

(***************************************************************************)
(* The revoking UPDATE: Revoke for one token, RevokeAllForUser for all of  *)
(* a user's.                                                               *)
(***************************************************************************)
BeginScan(p, r, S) ==
    req' = [req EXCEPT ![p] = [r EXCEPT !.pc = "scan", !.pend = S, !.chosen = S, !.at = now]]

Logout(p, t) ==
    /\ req[p].pc = "idle"
    /\ Stored(t)
    /\ BeginScan(p, [Idle EXCEPT !.op = "logout", !.user = row[t].user, !.tok = t],
                 {s \in {t} : Live(s)})
    /\ UNCHANGED <<now, users, row, drawn, promised, doomed>>

RevokeAllStart(p) ==
    /\ req[p].pc = "revokeAll"
    /\ BeginScan(p, req[p], {t \in Tokens : Live(t) /\ row[t].user = req[p].user})
    /\ UNCHANGED <<now, users, row, drawn, promised, doomed>>

\* Mutant: the UPDATE without its WHERE revoked_at IS NULL.
RecheckStored(t) == Stored(t)
Recheck(t) == Live(t)

\* Mutant: FOR UPDATE SKIP LOCKED, passing over a row somebody else holds.
ScanRowSkipLocked(p, t) ==
    /\ req[p].pc = "scan"
    /\ t \in req[p].pend
    /\ req' = [req EXCEPT ![p].pend = @ \ {t},
                          ![p].held = IF Recheck(t) /\ Unlocked(p, t) THEN @ \cup {t} ELSE @]
    /\ UNCHANGED <<now, users, row, drawn, promised, doomed>>

ScanRow(p, t) ==
    /\ req[p].pc = "scan"
    /\ t \in req[p].pend
    /\ Unlocked(p, t)
    /\ req' = [req EXCEPT ![p].pend = @ \ {t},
                          ![p].held = IF Recheck(t) THEN @ \cup {t} ELSE @]
    /\ UNCHANGED <<now, users, row, drawn, promised, doomed>>

\* The statement ends and its rows are published.
RevokeCommit(p) ==
    /\ req[p].pc = "scan"
    /\ req[p].pend = {}
    /\ row' = [t \in Tokens |->
                 IF t \in req[p].held THEN [row[t] EXCEPT !.revoked = req[p].at] ELSE row[t]]
    /\ doomed' = doomed \cup req[p].chosen
    /\ IF req[p].op = "changePassword"
       THEN promised' = [promised EXCEPT ![req[p].user] = req[p].pwd]
       ELSE UNCHANGED promised
    /\ Finish(p)
    /\ UNCHANGED <<now, users, drawn>>

(***************************************************************************)
(* ChangePassword, UpdateRole and DeleteUser.                              *)
(***************************************************************************)
ChangePasswordRead(p, u) ==
    /\ req[p].pc = "idle"
    /\ users[u].exists
    /\ users[u].pwd < MaxPwd
    /\ req' = [req EXCEPT ![p] = [Idle EXCEPT !.pc = "setPassword", !.op = "changePassword",
                                              !.user = u]]
    /\ UNCHANGED <<now, users, row, drawn, promised, doomed>>

UpdatePassword(p) ==
    LET u == req[p].user
    IN /\ req[p].pc = "setPassword"
       /\ IF users[u].exists
          THEN /\ users' = [users EXCEPT ![u].pwd = @ + 1]
               /\ req' = [req EXCEPT ![p].pc = "revokeAll", ![p].pwd = users[u].pwd + 1]
          ELSE /\ Finish(p)
               /\ UNCHANGED users
       /\ UNCHANGED <<now, row, drawn, promised, doomed>>

\* The role itself is not read by any session statement; what matters here
\* is the RevokeAllForUser that follows it.
UpdateRole(p, u) ==
    /\ req[p].pc = "idle"
    /\ users[u].exists
    /\ req' = [req EXCEPT ![p] = [Idle EXCEPT !.pc = "revokeAll", !.op = "updateRole",
                                              !.user = u]]
    /\ UNCHANGED <<now, users, row, drawn, promised, doomed>>

\* An inserted but uncommitted row holds a share lock on its user, so the
\* delete waits for that transaction; then the rows go by cascade.
HoldsUser(p, u) == req[p].user = u /\ Rotating(p)

DeleteUser(u) ==
    /\ users[u].exists
    /\ \A p \in Procs : ~HoldsUser(p, u)
    /\ \A t \in Tokens, p \in Procs : row[t].user = u => t \notin req[p].held
    /\ users' = [users EXCEPT ![u].exists = FALSE]
    /\ row' = [t \in Tokens |-> IF row[t].user = u THEN NoRow ELSE row[t]]
    /\ UNCHANGED <<now, drawn, req, promised, doomed>>

(***************************************************************************)
(* The session janitor, the clock, and requests that fail.                 *)
(***************************************************************************)
\* replaced_by is ON DELETE SET NULL.
DeleteExpired ==
    LET gone == {t \in Tokens : Stored(t) /\ row[t].expires < now}
    IN /\ gone # {}
       /\ \A t \in gone, p \in Procs : t \notin req[p].held
       /\ row' = [t \in Tokens |->
                    IF t \in gone THEN NoRow
                    ELSE IF row[t].replacedBy \in gone
                         THEN [row[t] EXCEPT !.replacedBy = NoToken]
                         ELSE row[t]]
       /\ UNCHANGED <<now, users, drawn, req, promised, doomed>>

Tick ==
    /\ now < MaxTime
    /\ now' = now + 1
    /\ UNCHANGED <<users, row, drawn, req, promised, doomed>>

\* Every statement runs under the request's context: the client going away,
\* or the database failing it, rolls the statement's transaction back.
Cancel(p) ==
    /\ req[p].pc # "idle"
    /\ Finish(p)
    /\ UNCHANGED <<now, users, row, drawn, promised, doomed>>

\* Two revoking statements that lock the same rows in different orders wait
\* for each other; the database aborts one of them.
Blocked(p) ==
    /\ req[p].pc = "scan"
    /\ req[p].pend # {}
    /\ \A t \in req[p].pend : LockedByOther(p, t)

\* Mutant: no deadlock detection.
NeverDeadlocked(p) == FALSE

Deadlocked(p) ==
    \E S \in SUBSET Procs :
       /\ p \in S
       /\ \A q \in S : /\ Blocked(q)
                       /\ \A t \in req[q].pend : \E r \in S \ {q} : t \in req[r].held

DeadlockAbort(p) ==
    /\ Deadlocked(p)
    /\ Finish(p)
    /\ UNCHANGED <<now, users, row, drawn, promised, doomed>>

-----------------------------------------------------------------------------
Step(p) ==
    \/ \E t \in Tokens : CreateSession(p, t)
    \/ RefreshUser(p)
    \/ \E n \in Tokens : RotateInsert(p, n)
    \/ RotateRevoke(p)
    \/ RotateCommit(p)
    \/ RevokeAllStart(p)
    \/ \E t \in Tokens : ScanRow(p, t)
    \/ RevokeCommit(p)
    \/ UpdatePassword(p)
    \/ DeadlockAbort(p)

Arrive(p) ==
    \/ \E u \in Users : LoginRead(p, u) \/ ChangePasswordRead(p, u) \/ UpdateRole(p, u)
    \/ \E t \in Tokens : RefreshRead(p, t) \/ Logout(p, t)

Next ==
    \/ \E p \in Procs : Step(p) \/ Arrive(p) \/ Cancel(p)
    \/ \E u \in Users : DeleteUser(u)
    \/ DeleteExpired
    \/ Tick

Spec == Init /\ [][Next]_vars

\* A handler runs on its own goroutine until it returns, and a statement that
\* waits for a row lock queues for it, so a row that others keep locking
\* still comes free for it.  Nothing obliges a client to send a request or to
\* hang up.
SessionsFairness ==
    \A p \in Procs :
        /\ WF_vars(Step(p))
        /\ SF_vars(RotateRevoke(p))
        /\ SF_vars(\E t \in Tokens : ScanRow(p, t))

-----------------------------------------------------------------------------
(***************************************************************************)
(* Properties.                                                             *)
(***************************************************************************)
\* One sign-in is one session: however many requests present its tokens at
\* once, the chain it began never holds two rows that can still be exchanged
\* (Rotate: "exactly one wins ... rather than silently issuing a second live
\* session").
OneLivePerLogin ==
    \A s, t \in Tokens :
       Live(s) /\ Live(t) /\ row[s].login = row[t].login => s = t

\* The table as its users see it: rows of open transactions do not exist, and
\* a token drawn for one is not spent until that transaction is over.
UsableChain == [t \in Tokens |-> IF Live(t) THEN row[t].login ELSE NoToken]
SpentTokens ==
    {t \in drawn : ~Live(t) /\ \A p \in Procs : Rotating(p) => req[p].next # t}

Contract == INSTANCE SessionContract WITH chain <- UsableChain, spent <- SpentTokens

\* Every statement of every handler, whatever it races with, looks from
\* outside like one step of the contract or like nothing at all.
ContractSpec == Contract!CSpec

\* A row that a finished revoking statement had chosen cannot be exchanged
\* again, whatever rotation it raced with and whether that rotation committed
\* or was rolled back (RevokeAllForUser waits for locked rows).
RevokedStaysRevoked == \A t \in doomed : ~Live(t)

\* The moment a row was revoked is what the reuse grace is measured from, so
\* no later logout, rotation or revoke-all moves it (revoked_at IS NULL in
\* every revoking UPDATE).
RevocationTimeFixed ==
    [][\A t \in Tokens :
          Stored(t) /\ ~Live(t) /\ Stored(t)' => row'[t].revoked = row[t].revoked]_vars

\* No session outlives its account: the foreign key and the cascade cover the
\* rotations and sign-ins that raced with DeleteUser.
NoOrphanSession == \A t \in Tokens : Stored(t) => users[row[t].user].exists

\* Every request is answered: a revoke-all waiting for a rotation, or for
\* another revoke-all, does not wait for ever.
EveryRequestEnds == \A p \in Procs : req[p].pc # "idle" ~> req[p].pc = "idle"

\* users.go: "Every session is ended afterwards, including this one."  No row
\* admitted with an earlier password is live once ChangePassword returned.
PasswordChangeEndsSessions ==
    \A t \in Tokens : Live(t) => row[t].pwd >= promised[row[t].user]

=============================================================================
