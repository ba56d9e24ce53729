---------------------------- MODULE BrowserSession ----------------------------
(***************************************************************************)
(* One browser's session: its tabs, each with an access token in memory;   *)
(* the refresh token in a cookie that all tabs share and none can read; a  *)
(* mark in local storage that says a session may exist, or a token that    *)
(* the version before the cookie left there; and the identity service,     *)
(* which exchanges a refresh token once.                                   *)
(*                                                                         *)
(* A call refused with 401 waits for its tab's one refresh and is sent     *)
(* again.  A refused refresh is tried once more after a pause, for another *)
(* tab may have rotated the cookie meanwhile.  The service raises an       *)
(* alarm, and ends every session, when a token is presented that was given *)
(* up longer ago than the grace.                                           *)
(*                                                                         *)
(* The service is one step per request: module Sessions has its            *)
(* statements.  A request and its answer travel for less than the grace of *)
(* 30 seconds, and an access token of 15 minutes does not run out while a  *)
(* refresh is under way.  The profile is in module Membership.             *)
(***************************************************************************)
EXTENDS Integers, FiniteSets

CONSTANTS
    Tabs,
    Calls, TabOf,       \* pages' requests, and the tab that makes each
    Tokens, NoToken,    \* refresh tokens, in the order they are drawn
    MaxActs             \* tabs opened and closed, sign-ins, sign-outs and access
                        \*  tokens that run out (a bound)

ASSUME BrowserAssumption == TabOf \in [Calls -> Tabs] /\ NoToken \notin Tokens

VARIABLES
    token,      \* token[k]: unused, live, spent (within the grace) or old
    cookie,
    marked, legacy,     \* local storage
    tab,        \* tab[t]: [open, access, status]
    refresh,    \* refresh[t]: the refresh the tab t has under way
    logout,     \* logout[t]: none, or where the tab's logout stands
    call,
    acts,
    alarm,      \* history: the service saw a token reused
    lost,       \* history: an answer that gave up a token never arrived
    crossed     \* history: crossed[t]: a refresh, sign-in or logout met the
                \*  second try of the tab's refresh

storageVars == <<marked, legacy>>
browserVars == <<token, cookie, storageVars, tab, refresh, logout, call, acts, alarm, lost, crossed>>

NoRefresh == [at |-> "none", try |-> 0, sent |-> NoToken, answer |-> "none", next |-> NoToken]

ClosedTab == [open |-> "closed", access |-> "none", status |-> "unknown"]

SessionInit ==
    /\ \E k \in Tokens :
          /\ \A i \in Tokens : k <= i
          /\ token = [i \in Tokens |-> IF i = k THEN "live" ELSE "unused"]
          /\ \/ cookie = k /\ marked = TRUE /\ legacy = NoToken
             \/ cookie = NoToken /\ marked = FALSE /\ legacy = k
    /\ tab = [t \in Tabs |-> ClosedTab]
    /\ refresh = [t \in Tabs |-> NoRefresh]
    /\ logout = [t \in Tabs |-> [at |-> "none", sent |-> NoToken]]
    /\ call = [c \in Calls |-> [at |-> "idle", valid |-> FALSE]]
    /\ acts = 0 /\ alarm = FALSE /\ lost = FALSE
    /\ crossed = [t \in Tabs |-> FALSE]

------------------------------------------------------------------------------
(* Storage and the session store.                                          *)

Acts == acts < MaxActs /\ acts' = acts + 1

HasSession == marked \/ legacy # NoToken

\* The cookie holds the session from now on: an older token is dropped.
\* Mutant: it is kept.
MarkSignedInOnly == marked' = TRUE /\ UNCHANGED legacy
MarkSignedIn == marked' = TRUE /\ legacy' = NoToken

ClearStorage == marked' = FALSE /\ legacy' = NoToken

SignedIn == [open |-> "open", access |-> "valid", status |-> "authenticated"]

SignedOut == [open |-> "open", access |-> "none", status |-> "anonymous"]

\* The service reads a token from the body first, then from the cookie.
Presented(body) == IF body # NoToken THEN body ELSE cookie

------------------------------------------------------------------------------
(* A tab's refresh.                                                        *)

Sent(try, body) == [at |-> "out", try |-> try, sent |-> Presented(body),
                    answer |-> "none", next |-> NoToken]

Waiting(t) == {c \in Calls : TabOf[c] = t /\ call[c].at = "waiting"}

\* What a call does when its tab's refresh is settled.
\* Mutant: who waits hears of a success only.
ResumeOnSuccess(t, at) ==
    call' = [c \in Calls |-> IF c \in Waiting(t) /\ at = "again" THEN [at |-> at, valid |-> TRUE] ELSE call[c]]
ResumeCalls(t, at) ==
    call' = [c \in Calls |-> IF c \in Waiting(t) THEN [at |-> at, valid |-> at = "again"] ELSE call[c]]

\* A refresh or a sign-in crosses the second tries that are under way.
CrossOthers == [u \in Tabs |-> refresh[u].try = 2]

StartRefresh(t) ==
    /\ refresh' = [refresh EXCEPT ![t] = Sent(1, legacy)]
    /\ crossed' = CrossOthers

\* The initializer, before anything is drawn.
OpenTab(t) ==
    /\ tab[t].open = "closed"
    /\ IF HasSession
       THEN tab' = [tab EXCEPT ![t].open = "restoring"] /\ StartRefresh(t)
       ELSE tab' = [tab EXCEPT ![t] = SignedOut] /\ UNCHANGED <<refresh, crossed>>
    /\ Acts
    /\ UNCHANGED <<token, cookie, storageVars, logout, call, alarm, lost>>

Fresh(n) == token[n] = "unused" /\ \A i \in Tokens : token[i] = "unused" => n <= i

\* The service's answer.
ServeRefresh(t) ==
    LET k == refresh[t].sent
        answers(a, n) == refresh' = [refresh EXCEPT ![t].at = "back", ![t].answer = a, ![t].next = n]
    IN  /\ refresh[t].at = "out"
        /\ \/ /\ k = NoToken
              /\ answers("invalid", NoToken) /\ UNCHANGED <<token, alarm>>
           \/ /\ k # NoToken /\ token[k] = "live"
              /\ \E n \in Tokens :
                    /\ Fresh(n)
                    /\ token' = [token EXCEPT ![k] = "spent", ![n] = "live"]
                    /\ answers("rotated", n)
              /\ UNCHANGED alarm
           \/ /\ k # NoToken /\ token[k] = "spent"
              /\ answers("unauthorized", NoToken) /\ UNCHANGED <<token, alarm>>
           \/ /\ k # NoToken /\ token[k] = "old"
              /\ token' = [i \in Tokens |-> IF token[i] = "live" THEN "spent" ELSE token[i]]
              /\ alarm' = TRUE
              /\ answers("unauthorized", NoToken)
        /\ UNCHANGED <<cookie, storageVars, tab, logout, call, acts, lost, crossed>>

Rotated(t) == refresh[t].at = "back" /\ refresh[t].answer = "rotated"

EndRefresh(t) == refresh' = [refresh EXCEPT ![t] = NoRefresh]

\* Renewed: the calls that waited go out again with the new token.
RefreshSucceeds(t) ==
    /\ Rotated(t)
    /\ cookie' = refresh[t].next
    /\ MarkSignedIn
    /\ tab' = [tab EXCEPT ![t] = SignedIn]
    /\ ResumeCalls(t, "again")
    /\ EndRefresh(t)
    /\ UNCHANGED <<token, logout, acts, alarm, lost, crossed>>

\* Mutant: a refusal is the end at once.
NeverRetries(t) == FALSE
MayRetry(t) == refresh[t].try = 1

RefreshRefused(t) ==
    /\ refresh[t].at = "back" /\ refresh[t].answer = "unauthorized"
    /\ IF MayRetry(t)
       THEN /\ refresh' = [refresh EXCEPT ![t].at = "pause"]
            /\ UNCHANGED <<tab, storageVars, call>>
       ELSE /\ EndRefresh(t) /\ ClearStorage
            /\ tab' = [tab EXCEPT ![t] = SignedOut]
            /\ ResumeCalls(t, "failed")
    /\ UNCHANGED <<token, cookie, logout, acts, alarm, lost, crossed>>

\* Cookie only: an older token, if there was one, is what was just spent.
RetryRefresh(t) ==
    /\ refresh[t].at = "pause"
    /\ refresh' = [refresh EXCEPT ![t] = Sent(2, NoToken)]
    /\ crossed' = [crossed EXCEPT ![t] = \E u \in Tabs \ {t} : refresh[u].at # "none" \/ logout[u].at # "none"]
    /\ UNCHANGED <<token, cookie, storageVars, tab, logout, call, acts, alarm, lost>>

\* Anything else keeps the session: a page that was being restored is drawn
\* signed out, and the next load tries again.
RefreshFails(t) ==
    /\ refresh[t].at \in {"out", "back"} /\ refresh[t].answer # "unauthorized"
    /\ lost' = (lost \/ Rotated(t))
    /\ tab' = [tab EXCEPT ![t] = IF @.open = "restoring" THEN SignedOut ELSE @]
    /\ ResumeCalls(t, "failed")
    /\ EndRefresh(t)
    /\ UNCHANGED <<token, cookie, storageVars, logout, acts, alarm, crossed>>

------------------------------------------------------------------------------
(* A page's calls.                                                         *)

Request(c) ==
    /\ tab[TabOf[c]].open = "open" /\ call[c].at = "idle"
    /\ call' = [call EXCEPT ![c] = [at |-> "out", valid |-> tab[TabOf[c]].access = "valid"]]
    /\ UNCHANGED <<token, cookie, storageVars, tab, refresh, logout, acts, alarm, lost, crossed>>

\* A token that was good when the call was sent may have run out on the way.
Unauthorized(c) == ~call[c].valid \/ tab[TabOf[c]].access # "valid"

\* The first 401 starts the refresh, later ones wait for it.
CallRefused(c) ==
    LET t == TabOf[c]
    IN  /\ call[c].at = "out" /\ Unauthorized(c)
        /\ IF HasSession
           THEN /\ call' = [call EXCEPT ![c].at = "waiting"]
                /\ IF refresh[t].at = "none" THEN StartRefresh(t) ELSE UNCHANGED <<refresh, crossed>>
                /\ UNCHANGED <<tab, storageVars>>
           ELSE /\ call' = [call EXCEPT ![c].at = "failed"]
                /\ tab' = [tab EXCEPT ![t] = SignedOut] /\ ClearStorage
                /\ UNCHANGED <<refresh, crossed>>
        /\ UNCHANGED <<token, cookie, logout, acts, alarm, lost>>

\* A call is retried once: a second 401 ends the session.
RetryRefused(c) ==
    /\ call[c].at = "again" /\ Unauthorized(c)
    /\ call' = [call EXCEPT ![c].at = "failed"]
    /\ tab' = [tab EXCEPT ![TabOf[c]] = SignedOut] /\ ClearStorage
    /\ UNCHANGED <<token, cookie, refresh, logout, acts, alarm, lost, crossed>>

CallAnswered(c) ==
    /\ call[c].at \in {"out", "again"}
    /\ \E at \in (IF call[c].valid THEN {"done", "failed"} ELSE {"failed"}) : call' = [call EXCEPT ![c].at = at]
    /\ UNCHANGED <<token, cookie, storageVars, tab, refresh, logout, acts, alarm, lost, crossed>>

------------------------------------------------------------------------------
(* Signing in and out, closing a tab, and time.                            *)

Login(t) ==
    /\ tab[t].open = "open"
    /\ \E n \in Tokens :
          /\ Fresh(n)
          /\ token' = [token EXCEPT ![n] = "live"]
          /\ cookie' = n
    /\ MarkSignedIn
    /\ tab' = [tab EXCEPT ![t] = SignedIn]
    /\ crossed' = CrossOthers
    /\ Acts
    /\ UNCHANGED <<refresh, logout, call, alarm, lost>>

\* The call is made whenever a session may exist.
Logout(t) ==
    /\ tab[t].open = "open" /\ logout[t].at = "none"
    /\ HasSession \/ tab[t].status = "authenticated"
    /\ logout' = [logout EXCEPT ![t] = [at |-> "out", sent |-> Presented(legacy)]]
    /\ Acts
    /\ UNCHANGED <<token, cookie, storageVars, tab, refresh, call, alarm, lost, crossed>>

ServeLogout(t) ==
    /\ logout[t].at = "out"
    /\ token' = [k \in Tokens |-> IF k = logout[t].sent /\ token[k] = "live" THEN "spent" ELSE token[k]]
    /\ logout' = [logout EXCEPT ![t].at = "back"]
    /\ UNCHANGED <<cookie, storageVars, tab, refresh, call, acts, alarm, lost, crossed>>

\* Whatever the service says, or does not say, the tab is signed out; its
\* answer takes the cookie away.
LogoutEnds(t) ==
    /\ logout[t].at # "none"
    /\ logout' = [logout EXCEPT ![t] = [at |-> "none", sent |-> NoToken]]
    /\ \/ logout[t].at = "back" /\ cookie' = NoToken /\ UNCHANGED lost
       \/ UNCHANGED cookie /\ lost' = (lost \/ logout[t].at = "back")
    /\ tab' = [tab EXCEPT ![t] = SignedOut] /\ ClearStorage
    /\ UNCHANGED <<token, refresh, call, acts, alarm, crossed>>

\* Memory is gone, and with it the answers under way.
CloseTab(t) ==
    /\ tab[t].open = "open"
    /\ lost' = (lost \/ Rotated(t) \/ logout[t].at = "back")
    /\ tab' = [tab EXCEPT ![t] = ClosedTab]
    /\ EndRefresh(t)
    /\ logout' = [logout EXCEPT ![t] = [at |-> "none", sent |-> NoToken]]
    /\ call' = [c \in Calls |-> IF TabOf[c] = t THEN [at |-> "idle", valid |-> FALSE] ELSE call[c]]
    /\ crossed' = [crossed EXCEPT ![t] = FALSE]
    /\ Acts
    /\ UNCHANGED <<token, cookie, storageVars, alarm>>

AccessExpires(t) ==
    /\ tab[t].access = "valid"
    /\ \A u \in Tabs : refresh[u].at = "none"
    /\ tab' = [tab EXCEPT ![t].access = "expired"]
    /\ Acts
    /\ UNCHANGED <<token, cookie, storageVars, refresh, logout, call, alarm, lost, crossed>>

GraceEnds(k) ==
    /\ token[k] = "spent"
    /\ \A t \in Tabs : k \notin {refresh[t].sent, logout[t].sent}
    /\ token' = [token EXCEPT ![k] = "old"]
    /\ UNCHANGED <<cookie, storageVars, tab, refresh, logout, call, acts, alarm, lost, crossed>>

RefreshSteps(t) ==
    ServeRefresh(t) \/ RefreshSucceeds(t) \/ RefreshRefused(t) \/ RetryRefresh(t) \/ RefreshFails(t)

CallSteps(c) == CallRefused(c) \/ RetryRefused(c) \/ CallAnswered(c)

SessionNext ==
    \/ \E t \in Tabs : OpenTab(t) \/ RefreshSteps(t) \/ Login(t) \/ Logout(t) \/ ServeLogout(t)
                       \/ LogoutEnds(t) \/ CloseTab(t) \/ AccessExpires(t)
    \/ \E c \in Calls : Request(c) \/ CallSteps(c)
    \/ \E k \in Tokens : GraceEnds(k)

\* A request is answered or given up, and timers fire.
SessionFairness ==
    /\ \A t \in Tabs : WF_browserVars(RefreshSteps(t))
    /\ \A c \in Calls : WF_browserVars(CallSteps(c))

SessionSpec == SessionInit /\ [][SessionNext]_browserVars /\ SessionFairness

------------------------------------------------------------------------------

\* Two tabs that refresh and sign in and out as they like never look like a
\* leaked token: every session is ended only after an answer was lost that
\* had given a token up, which leaves the browser holding the old one.
NoFalseAlarm == alarm => lost

\* A tab that is signed out because its refresh was refused had no session
\* to go on with, unless an answer was lost or its second try met
\* another tab's refresh or logout as well: one race with another tab is
\* survived.
RacingTabsKeepSession ==
    [][\A t \in Tabs :
         refresh[t].answer = "unauthorized" /\ refresh'[t] = NoRefresh /\ tab'[t] = SignedOut
             => lost \/ crossed[t] \/ cookie = NoToken \/ token[cookie] # "live"]_browserVars

\* Every call of a page that stays open ends: whoever waits for the tab's one
\* refresh is resumed or failed when it settles.
CallsSettle ==
    \A c \in Calls : call[c].at \in {"out", "waiting", "again"} ~> call[c].at \in {"done", "failed", "idle"}
===============================================================================
