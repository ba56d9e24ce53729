------------------------------- MODULE Accounts -------------------------------
(***************************************************************************)
(* The users table with what hangs off it: linked provider accounts, the   *)
(* sign-in codes and confirmation links drawn for an account.              *)
(*                                                                         *)
(* A request runs one statement at a time; requests are interleaved        *)
(* between their statements, and one may end between two of them (the      *)
(* client goes away, a statement fails): what it committed stays.          *)
(*                                                                         *)
(* A provider account always presents the same profile.  Confirmation of   *)
(* addresses is switched on.  Usernames, roles, captchas, cookies and      *)
(* mails are left out; Sessions has passwords and the sessions themselves. *)
(***************************************************************************)
EXTENDS Naturals, FiniteSets

CONSTANTS
    Users,          \* ids of users rows
    Emails,
    Profiles,       \* accounts at the providers
    Provider,       \* Provider[a]: google or facebook
    MailOf,         \* MailOf[a]: the address in the profile, or NoMail
    Vouches,        \* Vouches[a]: has the provider verified that address
    Codes,          \* sign-in codes and confirmation links ever drawn
    Links,          \*  (random, never drawn twice)
    Requests,       \* requests in flight at once (a bound)
    NoUser, NoMail, NoProfile

Tokens == Codes \cup Links

ASSUME AccountsAssumption ==
    /\ NoUser \notin Users
    /\ NoProfile \notin Profiles
    /\ MailOf \in [Profiles -> Emails \cup {NoMail}]
    /\ Vouches \in [Profiles -> BOOLEAN]
    /\ \A a \in Profiles : Vouches[a] => MailOf[a] # NoMail
    /\ Codes \cap Links = {}
    /\ NoMail \notin Emails \cup Profiles

VARIABLES
    users,      \* users[u]: the row of u
    identity,   \* identity[a]: the account that the profile a is linked to
    token,      \* token[k]: a row of oauth_login_codes or
                \*  email_verification_tokens
    request,    \* request[p]: where the request p stands
    honours,    \* history: how often Redeem has accepted k
    ended       \* history: links that a finished Issue had found outstanding

vars == <<users, identity, token, request, honours, ended>>

OptUser == Users \cup {NoUser}

\* A withheld address is replaced by one made of the profile's own id.
Addresses == Emails \cup Profiles \cup {NoMail}

Account == [status: {"unborn", "here", "gone"}, email: Addresses, password: BOOLEAN,
            verified: BOOLEAN, by: Profiles \cup {NoProfile}]

Unborn == [status |-> "unborn", email |-> NoMail, password |-> FALSE,
           verified |-> FALSE, by |-> NoProfile]

TokenRow == [stage: {"undrawn", "live", "expired", "spent", "gone"}, owner: OptUser]

Request == [pc: {"idle", "begin", "consume", "insert", "mark",
                 "mail", "create", "link", "code", "open", "unlink"},
            user: OptUser,
            profile: Profiles \cup {NoProfile},
            picked: SUBSET Links,   \* what the UPDATE of Issue found when it began,
            rows: SUBSET Links]     \*  and what of it that it locked and marked

NoRequest == [pc |-> "idle", user |-> NoUser, profile |-> NoProfile, picked |-> {}, rows |-> {}]

Here(u) == u \in Users /\ users[u].status = "here"

TypeOK ==
    /\ users \in [Users -> Account]
    /\ identity \in [Profiles -> OptUser]
    /\ token \in [Tokens -> TokenRow]
    /\ request \in [Requests -> Request]
    /\ honours \in [Tokens -> Nat]
    /\ ended \subseteq Links
    /\ \A a \in Profiles : identity[a] # NoUser => Here(identity[a])
    /\ \A k \in Tokens : token[k].stage \in {"live", "expired", "spent"} => Here(token[k].owner)

Init ==
    /\ users = [u \in Users |-> Unborn]
    /\ identity = [a \in Profiles |-> NoUser]
    /\ token = [k \in Tokens |-> [stage |-> "undrawn", owner |-> NoUser]]
    /\ request = [p \in Requests |-> NoRequest]
    /\ honours = [k \in Tokens |-> 0]
    /\ ended = {}

-----------------------------------------------------------------------------
HeldEmail(e) == \E u \in Users : Here(u) /\ users[u].email = e

Goto(p, pc, u, a) ==
    request' = [request EXCEPT ![p] = [NoRequest EXCEPT !.pc = pc, !.user = u, !.profile = a]]

Finish(p) == request' = [request EXCEPT ![p] = NoRequest]

Cancel(p) ==
    /\ request[p].pc # "idle"
    /\ Finish(p)
    /\ UNCHANGED <<users, identity, token, honours, ended>>

\* The links a request has locked and not yet committed.
LockedLinks(p) == IF request[p].pc = "insert" THEN request[p].rows ELSE {}

LockedByOther(p, k) == \E q \in Requests \ {p} : k \in LockedLinks(q)

Fresh(k) == token[k].stage = "undrawn"

Drawn(u) == [stage |-> "live", owner |-> u]

-----------------------------------------------------------------------------
(***************************************************************************)
(* Redeem: the UPDATE that marks a token used is the one that finds it     *)
(* unused and unexpired.  Mutant: a read, then an update.                  *)
(***************************************************************************)
RedeemsTwice(k) == token[k].stage \in {"live", "spent"}
Redeems(k) == token[k].stage = "live"

Redeem(p, k, pc) ==
    /\ request[p].pc = "idle"
    /\ ~Fresh(k)
    /\ ~LockedByOther(p, k)
    /\ IF Redeems(k)
       THEN /\ token' = [token EXCEPT ![k].stage = "spent"]
            /\ honours' = [honours EXCEPT ![k] = @ + 1]
            /\ Goto(p, pc, token[k].owner, NoProfile)
       ELSE UNCHANGED <<token, honours, request>>
    /\ UNCHANGED <<users, identity, ended>>

Expire(k) ==
    /\ token[k].stage = "live"
    /\ token' = [token EXCEPT ![k].stage = "expired"]
    /\ UNCHANGED <<users, identity, request, honours, ended>>

\* The code janitor; a spent code has expired by the time it is pruned.
\* Links have no janitor.
DeleteExpired ==
    \E C \in SUBSET Codes \ {{}} :
       /\ \A k \in C : token[k].stage \in {"expired", "spent"}
       /\ token' = [k \in Tokens |-> IF k \in C THEN [stage |-> "gone", owner |-> NoUser]
                                     ELSE token[k]]
       /\ UNCHANGED <<users, identity, request, honours, ended>>

-----------------------------------------------------------------------------
(***************************************************************************)
(* Registration and confirmation.                                          *)
(***************************************************************************)
Register(p, u, e) ==
    /\ request[p].pc = "idle"
    /\ users[u].status = "unborn"
    /\ ~HeldEmail(e)
    /\ users' = [users EXCEPT ![u] = [Unborn EXCEPT !.status = "here", !.email = e,
                                                   !.password = TRUE]]
    /\ Goto(p, "begin", u, NoProfile)
    /\ UNCHANGED <<identity, token, honours, ended>>

ResendVerification(p, u) ==
    /\ request[p].pc = "idle"
    /\ Here(u) /\ ~users[u].verified /\ users[u].password
    /\ Goto(p, "begin", u, NoProfile)
    /\ UNCHANGED <<users, identity, token, honours, ended>>

\* Issue's UPDATE finds the outstanding links when it begins ...
Outstanding(u) == {k \in Links : token[k].owner = u /\ token[k].stage \in {"live", "expired"}}

IssueBegin(p) ==
    /\ request[p].pc = "begin"
    /\ request' = [request EXCEPT ![p].pc = "consume", ![p].picked = Outstanding(request[p].user)]
    /\ UNCHANGED <<users, identity, token, honours, ended>>

\* ... waits for those that another request has locked, and marks the ones that
\* are outstanding still.  Mutant: locked ones are passed over.
LocksFree(p, rows) ==
    rows = {k \in request[p].picked \cap Outstanding(request[p].user) : ~LockedByOther(p, k)}
Locks(p, rows) ==
    /\ \A k \in request[p].picked : ~LockedByOther(p, k)
    /\ rows = request[p].picked \cap Outstanding(request[p].user)

IssueConsume(p) ==
    /\ request[p].pc = "consume"
    /\ \E rows \in SUBSET request[p].picked :
          /\ Locks(p, rows)
          /\ request' = [request EXCEPT ![p].pc = "insert", ![p].rows = rows]
    /\ UNCHANGED <<users, identity, token, honours, ended>>

Consumed(rows, k) == IF k \in rows THEN [token[k] EXCEPT !.stage = "spent"] ELSE token[k]

IssueInsert(p, k) ==
    /\ request[p].pc = "insert"
    /\ Fresh(k)
    /\ Finish(p)
    /\ IF Here(request[p].user)
       THEN /\ token' = [[l \in Tokens |-> Consumed(request[p].rows, l)]
                           EXCEPT ![k] = Drawn(request[p].user)]
            /\ ended' = ended \cup request[p].picked
       ELSE UNCHANGED <<token, ended>>
    /\ UNCHANGED <<users, identity, honours>>

VerifyEmail(p, k) == Redeem(p, k, "mark")

MarkEmailVerified(p) ==
    LET u == request[p].user
    IN /\ request[p].pc = "mark"
       /\ users' = IF Here(u) THEN [users EXCEPT ![u].verified = TRUE] ELSE users
       /\ Finish(p)
       /\ UNCHANGED <<identity, token, honours, ended>>

-----------------------------------------------------------------------------
(***************************************************************************)
(* Signing in through a provider.                                          *)
(***************************************************************************)
CompleteOAuth(p, a) ==
    /\ request[p].pc = "idle"
    /\ IF identity[a] # NoUser
       THEN Goto(p, "code", identity[a], a)
       ELSE Goto(p, IF MailOf[a] = NoMail THEN "create" ELSE "mail", NoUser, a)
    /\ UNCHANGED <<users, identity, token, honours, ended>>

\* An account that holds the profile's address is linked only when the
\* provider vouches for the address.  Mutant: always.
VouchedAlways(a) == TRUE
MayLink(a) == Vouches[a]

FindByMail(p) ==
    LET a == request[p].profile
        holder(u) == Here(u) /\ users[u].email = MailOf[a]
    IN /\ request[p].pc = "mail"
       /\ \/ \E u \in Users : holder(u) /\ IF MayLink(a) THEN Goto(p, "link", u, a) ELSE Finish(p)
          \/ (\A u \in Users : ~holder(u)) /\ Goto(p, "create", NoUser, a)
       /\ UNCHANGED <<users, identity, token, honours, ended>>

CreateFromProvider(p, u) ==
    LET a == request[p].profile
        e == IF MailOf[a] = NoMail THEN a ELSE MailOf[a]
    IN /\ request[p].pc = "create"
       /\ users[u].status = "unborn"
       /\ IF HeldEmail(e)
          THEN Finish(p) /\ UNCHANGED users
          ELSE /\ users' = [users EXCEPT ![u] = [Unborn EXCEPT !.status = "here", !.email = e,
                                                    !.verified = Vouches[a], !.by = a]]
               /\ Goto(p, "link", u, a)
       /\ UNCHANGED <<identity, token, honours, ended>>

\* The account exists, nobody has the profile, and the account has no other
\* profile of the same provider.
Linkable(a, u) ==
    /\ Here(u)
    /\ identity[a] = NoUser
    /\ \A b \in Profiles : Provider[b] = Provider[a] => identity[b] # u

LinkIdentity(p) ==
    LET a == request[p].profile
        u == request[p].user
    IN /\ request[p].pc = "link"
       /\ IF Linkable(a, u)
          THEN identity' = [identity EXCEPT ![a] = u] /\ Goto(p, "code", u, a)
          ELSE UNCHANGED identity /\ Finish(p)
       /\ UNCHANGED <<users, token, honours, ended>>

IssueCode(p, k) ==
    /\ request[p].pc = "code"
    /\ Fresh(k)
    /\ token' = IF Here(request[p].user) THEN [token EXCEPT ![k] = Drawn(request[p].user)] ELSE token
    /\ Finish(p)
    /\ UNCHANGED <<users, identity, honours, ended>>

\* The session that follows is Sessions' sign-in.
ExchangeCode(p, k) == Redeem(p, k, "open")

OpenSession(p) ==
    /\ request[p].pc = "open"
    /\ Finish(p)
    /\ UNCHANGED <<users, identity, token, honours, ended>>

-----------------------------------------------------------------------------
(***************************************************************************)
(* Unlinking and deletion.                                                 *)
(***************************************************************************)
LinkedTo(u) == {a \in Profiles : identity[a] = u}

\* Nothing ever gives an account a password it was created without, so the
\* two reads are one.
UnlinkCheck(p, a) ==
    LET u == identity[a]
    IN /\ request[p].pc = "idle"
       /\ u # NoUser
       /\ users[u].password \/ Cardinality(LinkedTo(u)) > 1
       /\ Goto(p, "unlink", u, a)
       /\ UNCHANGED <<users, identity, token, honours, ended>>

\* By user and provider, whichever profile that is by now.
Unlink(p) ==
    /\ request[p].pc = "unlink"
    /\ identity' = [b \in Profiles |->
                      IF identity[b] = request[p].user /\ Provider[b] = Provider[request[p].profile]
                      THEN NoUser ELSE identity[b]]
    /\ Finish(p)
    /\ UNCHANGED <<users, token, honours, ended>>

\* One statement; identities, codes and links go by ON DELETE CASCADE.
\* Mutant: the tokens stay.
KeptTokens(u) == token
CascadedTokens(u) ==
    [k \in Tokens |-> IF token[k].owner = u THEN [stage |-> "gone", owner |-> NoUser] ELSE token[k]]

DeleteUser(u) ==
    /\ Here(u)
    /\ \A p \in Requests : \A k \in LockedLinks(p) : token[k].owner # u
    /\ users' = [users EXCEPT ![u] = [Unborn EXCEPT !.status = "gone"]]
    /\ identity' = [a \in Profiles |-> IF identity[a] = u THEN NoUser ELSE identity[a]]
    /\ token' = CascadedTokens(u)
    /\ UNCHANGED <<request, honours, ended>>

-----------------------------------------------------------------------------
Next ==
    \/ \E p \in Requests :
          \/ \E u \in Users, e \in Emails : Register(p, u, e)
          \/ \E u \in Users : ResendVerification(p, u)
          \/ IssueBegin(p) \/ IssueConsume(p)
          \/ \E k \in Links : IssueInsert(p, k)
          \/ \E k \in Links : VerifyEmail(p, k)
          \/ MarkEmailVerified(p)
          \/ \E a \in Profiles : CompleteOAuth(p, a)
          \/ FindByMail(p)
          \/ \E u \in Users : CreateFromProvider(p, u)
          \/ LinkIdentity(p)
          \/ \E k \in Codes : IssueCode(p, k)
          \/ \E k \in Codes : ExchangeCode(p, k)
          \/ OpenSession(p)
          \/ \E a \in Profiles : UnlinkCheck(p, a)
          \/ Unlink(p)
          \/ Cancel(p)
    \/ \E u \in Users : DeleteUser(u)
    \/ \E k \in Tokens : Expire(k)
    \/ DeleteExpired

Spec == Init /\ [][Next]_vars

-----------------------------------------------------------------------------
\* Sign-in codes and confirmation links are honoured at most once, for the
\* account they were drawn for, and not after they were superseded, expired
\* or lost their account (the comments on both Redeem statements).
OneTime ==
    INSTANCE OneTimeToken WITH
        Owners   <- Users,
        NoOwner  <- NoUser,
        bearer   <- [k \in Tokens |-> IF token[k].stage = "live" THEN token[k].owner ELSE NoUser],
        over     <- {k \in Tokens : token[k].stage \in {"expired", "spent", "gone"}},
        honoured <- honours

TokensAreOneTime == OneTime!OSpec

\* A profile is linked to an account only if the account was created from it
\* or the provider vouches for the address the account holds, whatever
\* happens between the look-up by address and the INSERT (resolveAccount:
\* "the account-linking policy").
LinkPolicy ==
    \A a \in Profiles :
       identity[a] # NoUser =>
          \/ users[identity[a]].by = a
          \/ Vouches[a] /\ users[identity[a]].email = MailOf[a]

\* "A resend invalidates the previous link" (Issue): every link that was
\* outstanding when a finished Issue began is over, one that another resend
\* or a redemption held at the time included.
ResendEndsOlderLinks ==
    \A k \in ended : token[k].stage \in {"spent", "gone"}

\* No password and no linked provider.
NoWayIn(u) == ~users[u].password /\ LinkedTo(u) = {}

\* Unlinking is "refused when it would leave the account with no way to sign
\* in at all - no password and no other provider" (UnlinkIdentity).
WayInIsNeverTaken ==
    [][\A u \in Users : Here(u) /\ Here(u)' /\ ~NoWayIn(u) => ~NoWayIn(u)']_vars

=============================================================================
