----------------------------- MODULE GrantCache -----------------------------
(***************************************************************************)
(* The football service's Authorizer: editor grants live in the table      *)
(* team_editors, and every replica of the service keeps the answers it was *)
(* given for grantCacheTTL.  Grants change under the cache: by an          *)
(* administrator at one replica, by the cascade of a deleted club, or by   *)
(* the identity service's events, which the queue group hands to one       *)
(* replica only.                                                           *)
(*                                                                         *)
(* A lookup is several steps, because the cache is unlocked while the      *)
(* table is read.  Roles are left out: an administrator is admitted        *)
(* without a lookup and a plain user is refused without one.               *)
(***************************************************************************)
EXTENDS Integers, FiniteSets, Sequences

CONSTANTS
    Users, Teams,
    Replicas,       \* running copies of the service
    Procs,          \* requests and event deliveries in flight at once (a bound)
    Home,           \* Home[p]: the replica that serves p
    TTL,            \* grantCacheTTL
    CacheLimit,     \* the size above which expired entries are swept
    MaxTime         \* bound on the clock

ASSUME GrantCacheAssumption ==
    /\ Home \in [Procs -> Replicas]
    /\ TTL \in Nat \ {0}
    /\ CacheLimit \in Nat
    /\ MaxTime \in Nat

Keys == Users \X Teams

VARIABLES
    now,
    teams,      \* clubs that exist
    grants,     \* team_editors: the pairs with a row
    cache,      \* cache[r][k]: replica r's answer for k, or NoEntry
    req,        \* req[p]: where the request p stands
    changed,    \* history: changed[k] is when k last entered or left grants
    ended       \* history: grants whose Revoke returned, not granted since

vars == <<now, teams, grants, cache, req, changed, ended>>

\* cachedGrant; `kept` tells an entry from none.
Entry == [kept: BOOLEAN, manages: BOOLEAN, expiresAt: Nat]

NoEntry == [kept |-> FALSE, manages |-> FALSE, expiresAt |-> 0]

PCs == {"idle",
        "lookup",   \* about to consult the cache for Head(todo)
        "read",     \* missed: about to read the table
        "put",      \* read: about to store the answer
        "edit",     \* admitted by Head(todo): about to write
        "drop"}     \* changed grants: about to drop the cached answers in lost

\* at is when the lookup began, revoking marks a Revoke.
Request == [pc: PCs, revoking: BOOLEAN, at: Nat, answer: BOOLEAN,
            todo: Seq(Keys), lost: SUBSET Keys]

Idle == [pc |-> "idle", revoking |-> FALSE, at |-> 0, answer |-> FALSE,
         todo |-> <<>>, lost |-> {}]

TypeOK ==
    /\ now \in Nat
    /\ teams \subseteq Teams
    /\ grants \subseteq Keys
    /\ cache \in [Replicas -> [Keys -> Entry]]
    /\ req \in [Procs -> Request]
    /\ \A p \in Procs :
          req[p].pc \in {"lookup", "read", "put", "edit"} \/ req[p].revoking
            => req[p].todo # <<>>
    /\ changed \in [Keys -> Nat]
    /\ ended \subseteq Keys

Init ==
    /\ now = 0
    /\ teams = Teams
    /\ grants = {}
    /\ cache = [r \in Replicas |-> [k \in Keys |-> NoEntry]]
    /\ req = [p \in Procs |-> Idle]
    /\ changed = [k \in Keys |-> 0]
    /\ ended = {}

-----------------------------------------------------------------------------
\* now.Before(entry.expiresAt).  Mutant: an entry is used however old it is.
FreshForEver(r, k) == cache[r][k].kept
Fresh(r, k) == cache[r][k].kept /\ now < cache[r][k].expiresAt

Finish(p) == req' = [req EXCEPT ![p] = Idle]

Admit(p, at) ==
    req' = [req EXCEPT ![p] = [Idle EXCEPT !.pc = "edit", !.at = at,
                                           !.todo = <<Head(req[p].todo)>>]]

AskNext(p) ==
    req' = [req EXCEPT ![p] = [Idle EXCEPT !.pc = "lookup", !.todo = Tail(req[p].todo)]]

\* What managesTeam answered about Head(todo): RequireTeam asks about one
\* club, RequireEitherTeam about a second when the first says no.  Mutant:
\* the loop runs one club too far.
DecideTooFar(p, manages, at) == IF manages THEN Admit(p, at) ELSE AskNext(p)
Decide(p, manages, at) ==
    \/ manages /\ Admit(p, at)
    \/ ~manages /\ Len(req[p].todo) > 1 /\ AskNext(p)
    \/ ~manages /\ Len(req[p].todo) <= 1 /\ Finish(p)

\* An editor's write arrives, for one club or for either side of a transfer.
Arrive(p, u, ts) ==
    /\ req[p].pc = "idle"
    /\ req' = [req EXCEPT ![p] = [Idle EXCEPT !.pc = "lookup",
                                             !.todo = [i \in 1 .. Len(ts) |-> <<u, ts[i]>>]]]
    /\ UNCHANGED <<now, teams, grants, cache, changed, ended>>

\* managesTeam, up to the first RUnlock.
Lookup(p) ==
    LET r == Home[p]
        k == Head(req[p].todo)
    IN /\ req[p].pc = "lookup"
       /\ IF Fresh(r, k)
          THEN Decide(p, cache[r][k].manages, now)
          ELSE req' = [req EXCEPT ![p].pc = "read", ![p].at = now]
       /\ UNCHANGED <<now, teams, grants, cache, changed, ended>>

\* SELECT EXISTS
Manages(p) ==
    /\ req[p].pc = "read"
    /\ req' = [req EXCEPT ![p].pc = "put", ![p].answer = Head(req[p].todo) \in grants]
    /\ UNCHANGED <<now, teams, grants, cache, changed, ended>>

\* An entry lives for TTL from the moment the lookup began.  Mutant: from the
\* moment it is stored.
ExpiryFromStore(p) == now + TTL
Expiry(p) == req[p].at + TTL

\* Above CacheLimit, entries expired when the lookup began are deleted.
Swept(c, at) ==
    IF Cardinality({k \in Keys : c[k].kept}) > CacheLimit
    THEN [k \in Keys |-> IF at > c[k].expiresAt THEN NoEntry ELSE c[k]]
    ELSE c

Put(p) ==
    LET r == Home[p]
        e == [kept |-> TRUE, manages |-> req[p].answer, expiresAt |-> Expiry(p)]
    IN /\ req[p].pc = "put"
       /\ cache' = [cache EXCEPT ![r] = Swept([@ EXCEPT ![Head(req[p].todo)] = e], req[p].at)]
       /\ Decide(p, req[p].answer, req[p].at)
       /\ UNCHANGED <<now, teams, grants, changed, ended>>

\* The write the lookup admitted.
Edit(p) ==
    /\ req[p].pc = "edit"
    /\ Finish(p)
    /\ UNCHANGED <<now, teams, grants, cache, changed, ended>>

-----------------------------------------------------------------------------
\* A statement on team_editors, after which p will drop the answers in lost.
SetGrants(p, G, ks, lost) ==
    /\ req[p].pc = "idle"
    /\ grants' = G
    /\ changed' = [k \in Keys |-> IF (k \in G) # (k \in grants) THEN now ELSE changed[k]]
    /\ ended' = ended \ G
    /\ req' = [req EXCEPT ![p] = [Idle EXCEPT !.pc = "drop", !.revoking = (ks # <<>>),
                                              !.todo = ks, !.lost = lost]]
    /\ UNCHANGED <<now, cache>>

\* Grant: the club must exist; granting twice is not an error.
Grant(p, k) ==
    /\ k[2] \in teams
    /\ SetGrants(p, grants \cup {k}, <<>>, {k[1]} \X Teams)
    /\ UNCHANGED teams

\* Revoke: nothing to delete is a 404, and nothing is dropped.
Revoke(p, k) ==
    /\ k \in grants
    /\ SetGrants(p, grants \ {k}, <<k>>, {k[1]} \X Teams)
    /\ UNCHANGED teams

\* DeleteTeam: team_editors.team_id is ON DELETE CASCADE.
DeleteTeam(p, t) ==
    /\ t \in teams
    /\ teams' = teams \ {t}
    /\ SetGrants(p, grants \ (Users \X {t}), <<>>, Users \X {t})

\* handleUserDeleted, as far as grants go.
UserDeleted(p, u) ==
    /\ SetGrants(p, grants \ ({u} \X Teams), <<>>, {u} \X Teams)
    /\ UNCHANGED teams

\* handleRoleChanged.
RoleChanged(p, u) ==
    /\ SetGrants(p, grants, <<>>, {u} \X Teams)
    /\ UNCHANGED teams

\* InvalidateUser and InvalidateTeam, on the replica that ran the statement.
Invalidate(p) ==
    /\ req[p].pc = "drop"
    /\ cache' = [cache EXCEPT ![Home[p]] =
                   [k \in Keys |-> IF k \in req[p].lost THEN NoEntry ELSE @[k]]]
    /\ ended' = IF req[p].revoking THEN ended \cup ({Head(req[p].todo)} \ grants) ELSE ended
    /\ Finish(p)
    /\ UNCHANGED <<now, teams, grants, changed>>

\* A statement that fails, or whose reply is lost with the request's context:
\* the handler returns without storing or dropping anything.
Fail(p) ==
    /\ req[p].pc \in {"read", "edit", "drop"}
    /\ Finish(p)
    /\ UNCHANGED <<now, teams, grants, cache, changed, ended>>

\* A replica is restarted: its cache and the requests it served are gone.
Restart(r) ==
    /\ cache' = [cache EXCEPT ![r] = [k \in Keys |-> NoEntry]]
    /\ req' = [p \in Procs |-> IF Home[p] = r THEN Idle ELSE req[p]]
    /\ UNCHANGED <<now, teams, grants, changed, ended>>

Tick ==
    /\ now < MaxTime
    /\ now' = now + 1
    /\ UNCHANGED <<teams, grants, cache, req, changed, ended>>

Asked == {<<t>> : t \in Teams} \cup (Teams \X Teams)

Next ==
    \/ \E p \in Procs :
          \/ \E u \in Users, ts \in Asked : Arrive(p, u, ts)
          \/ Lookup(p)
          \/ Manages(p)
          \/ Put(p)
          \/ Edit(p)
          \/ \E k \in Keys : Grant(p, k) \/ Revoke(p, k)
          \/ \E t \in Teams : DeleteTeam(p, t)
          \/ \E u \in Users : UserDeleted(p, u) \/ RoleChanged(p, u)
          \/ Invalidate(p) \/ Fail(p)
    \/ \E r \in Replicas : Restart(r)
    \/ Tick

Spec == Init /\ [][Next]_vars

-----------------------------------------------------------------------------
\* grantCacheTTL "bounds how stale an editor's club grants may be": whatever
\* invalidations were missed, lost or overtaken by a slow lookup, on whatever
\* replica, a cached answer that contradicts the table is out of use TTL after
\* the table changed.
StaleAnswersExpire ==
    \A r \in Replicas, k \in Keys :
       cache[r][k].kept /\ cache[r][k].manages # (k \in grants)
         => cache[r][k].expiresAt <= changed[k] + TTL

\* No edit is admitted by a grant that had been gone for TTL when its lookup
\* began, over both lookups of RequireEitherTeam.
EditsHadGrant ==
    \A p \in Procs :
       req[p].pc = "edit" =>
          LET k == Head(req[p].todo)
          IN k \in grants \/ req[p].at < changed[k] + TTL

\* team_editor_service.go: "Revocation must be immediate, so the cached grant
\* goes now rather than at the end of its TTL."
RevocationImmediate ==
    \A r \in Replicas, k \in ended : ~(Fresh(r, k) /\ cache[r][k].manages)

=============================================================================
