------------------------------- MODULE MCTabs -------------------------------
(* What must end: a finite instance of the tabs of a browser, and one of the *)
(* identity service that their refreshes reach, at one moment in time.  They *)
(* share no state, so one run explores each of them while the other stays in *)
(* an initial state: `part` says which.  MCSessions explores the rest of     *)
(* what the service does.                                                    *)
EXTENDS BrowserSession, TLC

CONSTANTS
    b1, x1, x2,                         \* a tab, and its two requests
    u1, NoUser, t1, t2, t0, p1, p2      \* an account, two tokens, two requests

CallsOfOneTab == x1 :> b1 @@ x2 :> b1

VARIABLES part, now, users, row, drawn, req, promised, doomed

Service == INSTANCE Sessions
    WITH Users <- {u1}, Procs <- {p1, p2}, Tokens <- {t1, t2}, NoToken <- t0,
         RefreshTTL <- 1, RotationGrace <- 0, MaxTime <- 0, MaxPwd <- 0

serviceVars == <<now, users, row, drawn, req, promised, doomed>>

TabsInit ==
    /\ part \in {"sessions", "browser"}
    /\ Service!Init /\ SessionInit
    /\ part = "sessions" => legacy = NoToken

\* The two calls are interchangeable: x1 is sent first.
FirstCallFirst == call'[x1].at = "idle" => call'[x2].at = "idle"

TabsNext ==
    /\ UNCHANGED part
    /\ \/ part = "sessions" /\ Service!Next /\ UNCHANGED browserVars
       \/ part = "browser" /\ SessionNext /\ FirstCallFirst /\ UNCHANGED serviceVars

\* Nothing is due in the initial state of the part that is not explored.
TabsSpec ==
    /\ TabsInit /\ [][TabsNext]_<<part, serviceVars, browserVars>>
    /\ Service!SessionsFairness /\ SessionFairness

------------------------------------------------------------------------------

\* Every request on the sessions is answered: a revoke-all waiting for a
\* rotation, or for another revoke-all, does not wait for ever
\* (refresh_token.go).
EveryRequestEnds == Service!EveryRequestEnds
===============================================================================
