------------------------------ MODULE Membership ------------------------------
(***************************************************************************)
(* Who the open tab is signed in as, what it lets that member do, and how  *)
(* its pages are reached: the session store, the profile and the grants    *)
(* that follow it, the route guards, the masthead and the sign-in pages.   *)
(*                                                                         *)
(* Signing in is two requests, the tokens and then the profile, and the    *)
(* grants are a third that an effect starts when the profile is set.  Each *)
(* ends when it likes: meanwhile the member signs out, signs in as someone *)
(* else or leaves the page.  A sign-in goes on after its page is left.     *)
(*                                                                         *)
(* Tokens, cookies and tabs are in module BrowserSession; an access token  *)
(* that cannot be renewed is SessionRefused here.  A behaviour starts with *)
(* a page load.                                                            *)
(***************************************************************************)
EXTENDS SiteRoutes, FiniteSets

CONSTANTS
    Members, NoMember,
    Clubs,
    HeldBy,         \* the clubs a user holds a grant for
    RoleChoices,    \* assignments of a role to each user
    Ids,            \* what stands in an address for a parameter
    Followed,       \* the links of the masthead that are followed (a bound)
    LinkedPaths,    \* and the addresses that links of pages lead to (a bound)
    MaxSignIns      \* sign-ins started (a bound)

ASSUME MembershipAssumption ==
    /\ NoMember \notin Members /\ HeldBy \in [Members -> SUBSET Clubs]
    /\ Ids # {} /\ LinkedPaths \subseteq Addresses(Ids) /\ MaxSignIns \in Nat

VARIABLES
    role,
    session,    \* [status, bearer, user]: whose token is held, whose profile is shown
    flow,       \* flow[u]: the sign-in as u under way: [at, via, here]
    perms,      \* [seen, due, grants, loaded]
    grantLookups, \* grantLookups[u]: requests for u's grants under way
    leaving,    \* a sign-out is under way
    view,       \* [path, returnTo, opened]: not opened until the session is restored
    signInForm, \* the sign-in page's form
    signIns,
    overtaken   \* history: the last answer about grants was for someone who was not
                \*  the member any more

membershipVars == <<role, session, flow, perms, grantLookups, leaving, view, signInForm, signIns, overtaken>>

------------------------------------------------------------------------------
(* What the member may do.                                                 *)

Role(s) == IF s.user = NoMember THEN "none" ELSE role[s.user]
isAdmin == Role(session) = "admin"
isEditor == Role(session) \in {"admin", "editor"}

canEditTeam(team) == isAdmin \/ (isEditor /\ team \in perms.grants)

canMoveBetween(from, to) == canEditTeam(from) \/ canEditTeam(to)

ready == isAdmin \/ perms.loaded

Anonymous == [status |-> "anonymous", bearer |-> NoMember, user |-> NoMember]

\* Mutant: the grants of whoever left stay known.
KeptGrants == [seen |-> NoMember, due |-> FALSE, grants |-> perms.grants, loaded |-> FALSE]
NoGrants == [seen |-> NoMember, due |-> FALSE, grants |-> {}, loaded |-> FALSE]

\* The effect is due when the profile is another object than it was.
ForgetGrants == perms' = [perms EXCEPT !.due = @ \/ session.user # NoMember]

PermissionsEffect ==
    /\ perms.due
    /\ IF session.user = NoMember
       THEN perms' = NoGrants /\ UNCHANGED grantLookups
       ELSE IF isAdmin
       THEN perms' = [perms EXCEPT !.seen = session.user, !.due = FALSE, !.loaded = TRUE] /\ UNCHANGED grantLookups
       ELSE /\ perms' = [perms EXCEPT !.seen = session.user, !.due = FALSE]
            /\ grantLookups' = [grantLookups EXCEPT ![session.user] = @ + 1]
    /\ UNCHANGED <<role, session, flow, leaving, view, signInForm, signIns, overtaken>>

\* A lookup that fails leaves no known grants.
GrantsAnswered(u) ==
    /\ grantLookups[u] > 0
    /\ grantLookups' = [grantLookups EXCEPT ![u] = @ - 1]
    /\ \E ids \in {HeldBy[u], {}} : perms' = [perms EXCEPT !.grants = ids, !.loaded = TRUE]
    /\ overtaken' = (u # perms.seen)
    /\ UNCHANGED <<role, session, flow, leaving, view, signInForm, signIns>>

------------------------------------------------------------------------------
(* Pages.                                                                  *)

NoPath == <<"nowhere">>

\* A sign-in page asks the server whether a challenge is required when it is
\* drawn; the widget is set up once, after the page's first rendering.
FreshForm == [error |-> FALSE, link |-> FALSE, shows |-> "form", config |-> "unknown",
              rendered |-> FALSE, widget |-> "none"]

\* What the router makes of an address.
RouteAt == [path \in Addresses(Ids) |-> RouteOf(path)]

PageView(path, returnTo) == [path |-> path, returnTo |-> returnTo, opened |-> TRUE]

SignedIn(s) == s.status = "authenticated"

\* A guard sends a visitor to sign in, and a member who may not see the page home.
Guarded(path, s) ==
    LET guard == RouteAt[path].guard
    IN  IF guard # "open" /\ ~SignedIn(s) THEN PageView(<<"login">>, path)
        ELSE IF Admits(guard, Role(s)) THEN PageView(path, NoPath) ELSE PageView(<<>>, NoPath)

AppStarted == view.opened

PageIs(component) == AppStarted /\ RouteAt[view.path].component = component

\* An editor with unsaved work asks first, and the answer may be no.
leaveEditor == AppStarted /\ RouteAt[view.path].leave

\* A new page is a new form: a sign-in under way has lost the one it came from.
Show(v) ==
    /\ view' = v
    /\ IF v = view THEN UNCHANGED signInForm ELSE signInForm' = FreshForm

StayOrShow(v) ==
    \/ Show(v)
    \/ leaveEditor /\ UNCHANGED <<view, signInForm>>

Detached(f) == [u \in Members |-> IF view' = view THEN f[u] ELSE [f[u] EXCEPT !.here = FALSE]]

HeaderLinks ==
    {<<>>, <<"transfers">>, <<"clubs">>, <<"competitions">>, <<"articles">>, <<"games">>, <<"search">>}
      \cup (IF SignedIn(session)
            THEN {<<"tactics">>, <<"account">>} \cup (IF isEditor THEN {<<"desk">>} ELSE {})
                   \cup (IF isAdmin THEN {<<"admin", "users">>} ELSE {})
            ELSE {<<"tactics", "new">>, <<"login">>})

Navigate ==
    /\ AppStarted
    /\ \E path \in (HeaderLinks \cap Followed) \cup LinkedPaths : Show(Guarded(path, session))
    /\ flow' = Detached(flow)
    /\ UNCHANGED <<role, session, perms, grantLookups, leaving, signIns, overtaken>>

------------------------------------------------------------------------------
(* The sign-in pages.                                                      *)

NoFlow == [at |-> "none", via |-> "none", here |-> FALSE]

Busy == \E u \in Members : flow[u].at # "none" /\ flow[u].here

StartFlow(u, via) ==
    /\ flow[u].at = "none" /\ ~Busy
    /\ signIns < MaxSignIns /\ signIns' = signIns + 1
    /\ flow' = [flow EXCEPT ![u] = [at |-> "sent", via |-> via, here |-> TRUE]]
    /\ UNCHANGED <<role, session, perms, grantLookups, leaving, view, overtaken>>

SubmitLogin(u) ==
    /\ PageIs("Login")
    /\ StartFlow(u, "login")
    /\ signInForm' = [signInForm EXCEPT !.error = FALSE]

\* Too short a password, or two that differ, do not leave the page.
SubmitRegister(u) ==
    /\ PageIs("Register") /\ signInForm.shows = "form"
    /\ StartFlow(u, "register")
    /\ signInForm' = [signInForm EXCEPT !.error = FALSE]

\* The exchange starts with the page; without a code there is none.
CompleteOAuth(u) ==
    /\ PageIs("OAuthCallback") /\ signInForm.shows = "form"
    /\ \/ StartFlow(u, "callback") /\ signInForm' = [signInForm EXCEPT !.shows = "exchanging"]
       \/ /\ signInForm' = [signInForm EXCEPT !.shows = "failed", !.error = TRUE]
          /\ UNCHANGED <<role, session, flow, perms, grantLookups, leaving, view, signIns, overtaken>>

OnForm(u, f) == IF flow[u].here THEN signInForm' = f ELSE UNCHANGED signInForm

\* The account may have to be confirmed first; otherwise it is signed in to.
RegisterAnswered(u) ==
    /\ flow[u].at = "sent" /\ flow[u].via = "register"
    /\ \/ flow' = [flow EXCEPT ![u].at = "signing in"] /\ UNCHANGED signInForm
       \/ flow' = [flow EXCEPT ![u] = NoFlow] /\ OnForm(u, [signInForm EXCEPT !.shows = "pending"])
    /\ UNCHANGED <<role, session, perms, grantLookups, leaving, view, signIns, overtaken>>

TokensArrive(u) ==
    /\ flow[u].at = "signing in" \/ (flow[u].at = "sent" /\ flow[u].via # "register")
    /\ session' = [session EXCEPT !.status = "authenticated", !.bearer = u]
    /\ flow' = [flow EXCEPT ![u].at = "profile"]
    /\ UNCHANGED <<role, perms, grantLookups, leaving, view, signInForm, signIns, overtaken>>

\* An unconfirmed address is refused with a link to the page that helps.
SignInFails(u) ==
    /\ flow[u].at \in {"sent", "signing in"} /\ flow[u].via # "restore"
    /\ flow' = [flow EXCEPT ![u] = NoFlow]
    /\ \E unconfirmed \in (IF flow[u].via = "login" THEN BOOLEAN ELSE {FALSE}) :
          OnForm(u, [signInForm EXCEPT !.error = TRUE, !.link = unconfirmed])
    /\ UNCHANGED <<role, session, perms, grantLookups, leaving, view, signIns, overtaken>>

\* Where a sign-in leads, wherever the member has gone meanwhile.
Destination(u) ==
    CASE flow[u].via = "restore" -> view.path
      [] flow[u].via = "login" /\ view.returnTo # NoPath -> view.returnTo
      [] OTHER -> <<>>

\* The guard of the destination sees the profile, if there is one.
Land(u, s) ==
    /\ session' = s
    /\ StayOrShow(Guarded(Destination(u), s))
    /\ flow' = Detached([flow EXCEPT ![u] = NoFlow])
    /\ UNCHANGED <<role, grantLookups, leaving, signIns, overtaken>>

ProfileArrives(u) ==
    /\ flow[u].at = "profile"
    /\ Land(u, [session EXCEPT !.user = u])
    /\ perms' = [perms EXCEPT !.due = TRUE]

\* A profile that does not load keeps the session, a refused one ends it.
ProfileFails(u) ==
    /\ flow[u].at = "profile"
    /\ \/ Land(u, session) /\ UNCHANGED perms
       \/ Land(u, Anonymous) /\ ForgetGrants

\* Nothing to restore, or it could not be restored.
RestoreEnds ==
    /\ ~AppStarted
    /\ session' = Anonymous
    /\ Show(Guarded(view.path, Anonymous))
    /\ \A u \in Members : flow[u].at \in {"none", "sent"}
    /\ flow' = [u \in Members |-> NoFlow]
    /\ UNCHANGED <<role, perms, grantLookups, leaving, signIns, overtaken>>

------------------------------------------------------------------------------
(* The challenge, confirming an address, and signing out.                  *)

AsksForChallenge == PageIs("Login") \/ PageIs("Register")

ConfigAnswered ==
    /\ AsksForChallenge /\ signInForm.config = "unknown" /\ signInForm.rendered
    /\ \E config \in {"off", "on"} : signInForm' = [signInForm EXCEPT !.config = config]
    /\ UNCHANGED <<role, session, flow, perms, grantLookups, leaving, view, signIns, overtaken>>

\* Runs once, after the rendering that created the component: nothing is
\* answered before it.
RenderWidget ==
    /\ AsksForChallenge /\ ~signInForm.rendered
    /\ signInForm' = [signInForm EXCEPT !.rendered = TRUE,
                                         !.widget = IF signInForm.config = "on" THEN "shown" ELSE "none"]
    /\ UNCHANGED <<role, session, flow, perms, grantLookups, leaving, view, signIns, overtaken>>

\* The token of the link is spent as the page opens; a refusal offers a new
\* link, and says it was sent whether or not it was.
VerifyEmail ==
    /\ PageIs("VerifyEmail")
    /\ \/ /\ signInForm.shows = "form"
          /\ \E answer \in {"confirmed", "refused"} : signInForm' = [signInForm EXCEPT !.shows = answer]
       \/ signInForm.shows \in {"refused", "sent"} /\ signInForm' = [signInForm EXCEPT !.shows = "sending"]
       \/ signInForm.shows = "sending" /\ signInForm' = [signInForm EXCEPT !.shows = "sent"]
    /\ UNCHANGED <<role, session, flow, perms, grantLookups, leaving, view, signIns, overtaken>>

SignOut ==
    /\ AppStarted /\ SignedIn(session) /\ ~leaving
    /\ leaving' = TRUE
    /\ UNCHANGED <<role, session, flow, perms, grantLookups, view, signInForm, signIns, overtaken>>

\* The session that ends is the one there is when the answer comes.
SignedOut ==
    /\ leaving
    /\ leaving' = FALSE
    /\ session' = Anonymous /\ ForgetGrants
    /\ StayOrShow(PageView(<<>>, NoPath))
    /\ flow' = Detached(flow)
    /\ UNCHANGED <<role, grantLookups, signIns, overtaken>>

SessionRefused ==
    /\ AppStarted /\ SignedIn(session)
    /\ session' = Anonymous /\ ForgetGrants
    /\ UNCHANGED <<role, flow, grantLookups, leaving, view, signInForm, signIns, overtaken>>

------------------------------------------------------------------------------

MembershipInit ==
    /\ role \in RoleChoices
    /\ session = [status |-> "unknown", bearer |-> NoMember, user |-> NoMember]
    /\ \E path \in Addresses(Ids) : view = [path |-> path, returnTo |-> NoPath, opened |-> FALSE]
    /\ \E stored \in Members \cup {NoMember} :
          flow = [u \in Members |->
                     IF u = stored THEN [at |-> "sent", via |-> "restore", here |-> FALSE] ELSE NoFlow]
    /\ perms = [seen |-> NoMember, due |-> FALSE, grants |-> {}, loaded |-> FALSE]
    /\ grantLookups = [u \in Members |-> 0]
    /\ leaving = FALSE /\ overtaken = FALSE
    /\ signInForm = FreshForm
    /\ signIns = 0

SignInSteps(u) ==
    SubmitLogin(u) \/ SubmitRegister(u) \/ CompleteOAuth(u) \/ RegisterAnswered(u) \/ TokensArrive(u)
      \/ SignInFails(u) \/ ProfileArrives(u) \/ ProfileFails(u)

MembershipNext ==
    \/ \E u \in Members : SignInSteps(u) \/ GrantsAnswered(u)
    \/ Navigate \/ RestoreEnds \/ PermissionsEffect
    \/ ConfigAnswered \/ RenderWidget \/ VerifyEmail
    \/ SignOut \/ SignedOut \/ SessionRefused

MembershipSpec == MembershipInit /\ [][MembershipNext]_membershipVars

------------------------------------------------------------------------------

MembershipTypeOK ==
    /\ session \in [status: {"unknown", "anonymous", "authenticated"},
                    bearer: Members \cup {NoMember}, user: Members \cup {NoMember}]
    /\ perms \in [seen: Members \cup {NoMember}, due: BOOLEAN, grants: SUBSET Clubs, loaded: BOOLEAN]
    /\ grantLookups \in [Members -> 0 .. MaxSignIns + 1]
    /\ flow \in [Members -> [at: {"none", "sent", "signing in", "profile"},
                           via: {"none", "restore", "login", "register", "callback"}, here: BOOLEAN]]
    /\ view.path \in Addresses(Ids) /\ view.returnTo \in Addresses(Ids) \cup {NoPath}

\* Once every request has come back, the grants shown are the member's own,
\* or none: no order of signing in and out leaves another's behind, unless
\* the last answer to come was for someone who had gone.
SettledGrantsAreOwn ==
    ~perms.due /\ (\A u \in Members : grantLookups[u] = 0) /\ ~overtaken =>
        IF session.user = NoMember THEN perms.grants = {}
        ELSE isAdmin \/ perms.grants \subseteq HeldBy[session.user]

\* A page that was drawn shows the challenge its sign-in needs: the widget "is
\* the part that lets a genuine visitor produce" a token (captcha.ts).
ChallengeIsShown == signInForm.config = "on" /\ signInForm.rendered => signInForm.widget = "shown"
===============================================================================
