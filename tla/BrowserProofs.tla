---------------------------- MODULE BrowserProofs ----------------------------
(***************************************************************************)
(* Proofs about BrowserSession, for any number of tabs, calls and refresh  *)
(* tokens.                                                                 *)
(***************************************************************************)
EXTENDS BrowserSession, TLAPS

-----------------------------------------------------------------------------
(* The invariant.                                                          *)
MaybeToken == Tokens \cup {NoToken}

Refresh == [at: {"none", "out", "back", "pause"}, try: {0, 1, 2}, sent: MaybeToken,
            answer: {"none", "invalid", "rotated", "unauthorized"}, next: MaybeToken]

NoLogout == [at |-> "none", sent |-> NoToken]

Logouts == [at: {"none", "out", "back"}, sent: MaybeToken]

Tab == [open: {"closed", "restoring", "open"}, access: {"none", "valid", "expired"},
        status: {"unknown", "authenticated", "anonymous"}]

PageCall == [at: {"idle", "out", "waiting", "again", "done", "failed"}, valid: BOOLEAN]

Typed ==
    /\ token \in [Tokens -> {"unused", "live", "spent", "old"}]
    /\ cookie \in MaybeToken /\ legacy \in MaybeToken
    /\ tab \in [Tabs -> Tab] /\ refresh \in [Tabs -> Refresh] /\ logout \in [Tabs -> Logouts]
    /\ call \in [Calls -> PageCall]
    /\ crossed \in [Tabs -> BOOLEAN] /\ lost \in BOOLEAN /\ alarm \in BOOLEAN

(* What is stored or on its way has been drawn.                            *)
Unseen(k) ==
    /\ k # cookie /\ k # legacy
    /\ \A t \in Tabs : k # refresh[t].sent /\ k # refresh[t].next /\ k # logout[t].sent

DrawnBeforeUse == \A k \in Tokens : token[k] = "unused" => Unseen(k)

(* A closed tab has nothing under way, a refresh is at its first or its    *)
(* second try, and what is not under way leaves nothing behind.            *)
TabInOrder(t) ==
    /\ tab[t].open = "closed" => refresh[t] = NoRefresh /\ logout[t] = NoLogout
    /\ refresh[t].at = "none" => refresh[t] = NoRefresh
    /\ refresh[t].at # "none" => refresh[t].try # 0
    /\ logout[t].at = "none" => logout[t] = NoLogout

TabsInOrder ==
    /\ \A t \in Tabs : TabInOrder(t)
    /\ \A c \in Calls : call[c].at # "idle" => tab[TabOf[c]].open # "closed"

(* The token of a rotation whose answer is on its way is live, and nobody  *)
(* has it: it is not stored, not presented, and not another tab's.         *)
OnItsWay(k) ==
    /\ k \in Tokens /\ token[k] = "live"
    /\ k # cookie /\ k # legacy
    /\ \A u \in Tabs : k # refresh[u].sent /\ k # logout[u].sent

NextIsFresh ==
    ~alarm => \A t \in Tabs : Rotated(t) =>
                 /\ OnItsWay(refresh[t].next)
                 /\ \A u \in Tabs \ {t} : Rotated(u) => refresh[u].next # refresh[t].next

(* A stored token that was given up was given up by an answer that is      *)
(* still on its way.                                                       *)
GaveUp(t, k) ==
    \/ Rotated(t) /\ refresh[t].sent = k
    \/ logout[t].at = "back" /\ logout[t].sent = k

Presentable(k) ==
    k # NoToken => \/ token[k] = "live"
                   \/ token[k] = "spent" /\ \E t \in Tabs : GaveUp(t, k)

NothingTooOld ==
    ~lost => /\ ~alarm
             /\ Presentable(cookie) /\ Presentable(legacy)
             /\ \A t \in Tabs : refresh[t].sent # NoToken => token[refresh[t].sent] # "old"

(* What a refusal was about is not live, and a second try that nothing     *)
(* crossed was of the cookie that is still there.                          *)
RefusedIsNotLive ==
    \A t \in Tabs : refresh[t].answer = "unauthorized" /\ refresh[t].sent # NoToken
                       => token[refresh[t].sent] # "live"

SecondTryIsAlone ==
    \A t \in Tabs : refresh[t].try = 2 /\ ~crossed[t]
                       => /\ cookie \in {NoToken, refresh[t].sent}
                          /\ \A u \in Tabs \ {t} : refresh[u].at = "none"

TokensSafe ==
    /\ DrawnBeforeUse
    /\ NextIsFresh
    /\ NothingTooOld
    /\ RefusedIsNotLive
    /\ SecondTryIsAlone

BrowserInv ==
    /\ Typed
    /\ TabsInOrder
    /\ TokensSafe

-----------------------------------------------------------------------------
(* Types.                                                                  *)

LEMMA TypedInit ==
    ASSUME SessionInit
    PROVE  Typed
<1>1. PICK k \in Tokens :
          /\ token = [i \in Tokens |-> IF i = k THEN "live" ELSE "unused"]
          /\ \/ cookie = k /\ legacy = NoToken
             \/ cookie = NoToken /\ legacy = k
  BY DEF SessionInit
<1>2. token \in [Tokens -> {"unused", "live", "spent", "old"}] /\ cookie \in MaybeToken /\ legacy \in MaybeToken
  BY <1>1 DEF MaybeToken
<1>3. tab \in [Tabs -> Tab] /\ refresh \in [Tabs -> Refresh]
  BY DEF SessionInit, Tab, Refresh, ClosedTab, NoRefresh, MaybeToken
<1>4. logout \in [Tabs -> Logouts] /\ call \in [Calls -> PageCall]
  BY DEF SessionInit, Logouts, PageCall, MaybeToken
<1>5. crossed \in [Tabs -> BOOLEAN] /\ lost \in BOOLEAN /\ alarm \in BOOLEAN
  BY DEF SessionInit
<1> QED
  BY <1>2, <1>3, <1>4, <1>5 DEF Typed

(* The pieces that the actions are built from have their types.            *)
LEMMA PiecesTyped ==
    ASSUME Typed
    PROVE  /\ NoToken \in MaybeToken /\ Tokens \subseteq MaybeToken /\ Presented(legacy) \in MaybeToken
           /\ Sent(1, legacy) \in Refresh /\ Sent(2, NoToken) \in Refresh /\ NoRefresh \in Refresh
           /\ SignedIn \in Tab /\ SignedOut \in Tab /\ ClosedTab \in Tab
           /\ NoLogout \in Logouts
           /\ CrossOthers \in [Tabs -> BOOLEAN]
           /\ \A c \in Calls : TabOf[c] \in Tabs
<1>1. NoToken \in MaybeToken /\ Tokens \subseteq MaybeToken /\ Presented(legacy) \in MaybeToken
      /\ Presented(NoToken) \in MaybeToken
  BY DEF MaybeToken, Presented, Typed
<1>2. Sent(1, legacy) \in Refresh /\ Sent(2, NoToken) \in Refresh /\ NoRefresh \in Refresh
  BY <1>1 DEF Sent, Refresh, NoRefresh
<1>3. SignedIn \in Tab /\ SignedOut \in Tab /\ ClosedTab \in Tab
  BY DEF SignedIn, SignedOut, ClosedTab, Tab
<1>4. NoLogout \in Logouts
  BY <1>1 DEF NoLogout, Logouts
<1>5. CrossOthers \in [Tabs -> BOOLEAN]
  BY DEF CrossOthers
<1> QED
  BY <1>1, <1>2, <1>3, <1>4, <1>5, BrowserAssumption

LEMMA ResumedTyped ==
    ASSUME Typed, NEW t, NEW at \in {"again", "failed"}, ResumeCalls(t, at)
    PROVE  call' \in [Calls -> PageCall]
  BY DEF Typed, ResumeCalls, PageCall

(* A refresh whose answer is back, for a refresh that was out.             *)
IsBack(x, r, a, n) ==
    x.at = "back" /\ x.try = r.try /\ x.sent = r.sent /\ x.answer = a /\ x.next = n

LEMMA BackTyped ==
    ASSUME NEW r \in Refresh, NEW a \in {"invalid", "rotated", "unauthorized"}, NEW n \in MaybeToken
    PROVE  [r EXCEPT !.at = "back", !.answer = a, !.next = n] \in Refresh
  BY DEF Refresh

LEMMA BackFields ==
    ASSUME NEW r \in Refresh, NEW a, NEW n
    PROVE  IsBack([r EXCEPT !.at = "back", !.answer = a, !.next = n], r, a, n)
  BY DEF Refresh, IsBack

LEMMA AnswerGiven ==
    ASSUME Typed, NEW t \in Tabs,
           NEW a \in {"invalid", "rotated", "unauthorized"}, NEW n \in MaybeToken,
           refresh' = [refresh EXCEPT ![t].at = "back", ![t].answer = a, ![t].next = n]
    PROVE  /\ refresh' \in [Tabs -> Refresh]
           /\ IsBack(refresh'[t], refresh[t], a, n)
           /\ \A u \in Tabs \ {t} : refresh'[u] = refresh[u]
<1>1. refresh' = [refresh EXCEPT ![t] = [refresh[t] EXCEPT !.at = "back", !.answer = a, !.next = n]]
  BY DEF Typed
<1>2. [refresh[t] EXCEPT !.at = "back", !.answer = a, !.next = n] \in Refresh
  BY BackTyped DEF Typed
<1>3. IsBack([refresh[t] EXCEPT !.at = "back", !.answer = a, !.next = n], refresh[t], a, n)
  BY BackFields DEF Typed
<1> QED
  BY <1>1, <1>2, <1>3 DEF Typed

LEMMA TypedStep ==
    ASSUME Typed, [SessionNext]_browserVars
    PROVE  Typed'
<1> USE PiecesTyped
<1>1. ASSUME NEW t \in Tabs, OpenTab(t) PROVE Typed'
  <2>1. tab' \in [Tabs -> Tab]
    <3>1. tab \in [Tabs -> Tab]
      BY DEF Typed
    <3>2. tab' = [tab EXCEPT ![t].open = "restoring"] \/ tab' = [tab EXCEPT ![t] = SignedOut]
      BY <1>1 DEF OpenTab
    <3> QED
      BY <3>1, <3>2 DEF Tab
  <2>2. refresh' \in [Tabs -> Refresh] /\ crossed' \in [Tabs -> BOOLEAN]
    BY <1>1 DEF OpenTab, StartRefresh, Typed
  <2> QED
    BY <2>1, <2>2, <1>1 DEF OpenTab, Typed, storageVars
<1>2. ASSUME NEW t \in Tabs, ServeRefresh(t) PROVE Typed'
  <2>1. PICK a \in {"invalid", "rotated", "unauthorized"}, n \in MaybeToken :
           refresh' = [refresh EXCEPT ![t].at = "back", ![t].answer = a, ![t].next = n]
    BY <1>2 DEF ServeRefresh
  <2>2. refresh' \in [Tabs -> Refresh]
    BY <2>1, AnswerGiven
  <2>3. token' \in [Tokens -> {"unused", "live", "spent", "old"}] /\ alarm' \in BOOLEAN
    BY <1>2 DEF ServeRefresh, Typed
  <2> QED
    BY <2>2, <2>3, <1>2 DEF ServeRefresh, Typed, storageVars
<1>3. ASSUME NEW t \in Tabs, RefreshSucceeds(t) PROVE Typed'
  <2>1. cookie' \in MaybeToken /\ legacy' \in MaybeToken
    BY <1>3 DEF RefreshSucceeds, MarkSignedIn, Typed, Refresh
  <2>2. call' \in [Calls -> PageCall]
    BY <1>3, ResumedTyped DEF RefreshSucceeds
  <2> QED
    BY <2>1, <2>2, <1>3 DEF RefreshSucceeds, EndRefresh, Typed
<1>4. ASSUME NEW t \in Tabs, RefreshRefused(t) PROVE Typed'
  <2>1. refresh' \in [Tabs -> Refresh]
    <3>1. CASE MayRetry(t)
      BY <3>1, <1>4 DEF RefreshRefused, Typed, Refresh
    <3>2. CASE ~MayRetry(t)
      BY <3>2, <1>4 DEF RefreshRefused, Typed, EndRefresh
    <3> QED
      BY <3>1, <3>2
  <2>2. tab' \in [Tabs -> Tab] /\ legacy' \in MaybeToken
    BY <1>4 DEF RefreshRefused, Typed, ClearStorage, storageVars
  <2>3. call' \in [Calls -> PageCall]
    BY <1>4, ResumedTyped DEF RefreshRefused, Typed
  <2> QED
    BY <2>1, <2>2, <2>3, <1>4 DEF RefreshRefused, Typed
<1>5. ASSUME NEW t \in Tabs, RetryRefresh(t) PROVE Typed'
  BY <1>5 DEF RetryRefresh, Typed, storageVars
<1>6. ASSUME NEW t \in Tabs, RefreshFails(t) PROVE Typed'
  <2>1. call' \in [Calls -> PageCall]
    BY <1>6, ResumedTyped DEF RefreshFails
  <2>2. tab' \in [Tabs -> Tab] /\ lost' \in BOOLEAN
    BY <1>6 DEF RefreshFails, Typed
  <2> QED
    BY <2>1, <2>2, <1>6 DEF RefreshFails, EndRefresh, Typed, storageVars
<1>7. ASSUME NEW t \in Tabs, Login(t) PROVE Typed'
  <2>1. token' \in [Tokens -> {"unused", "live", "spent", "old"}] /\ cookie' \in MaybeToken
    BY <1>7 DEF Login, Typed
  <2> QED
    BY <2>1, <1>7 DEF Login, MarkSignedIn, Typed
<1>8. ASSUME NEW t \in Tabs, Logout(t) PROVE Typed'
  <2>1. [at |-> "out", sent |-> Presented(legacy)] \in Logouts
    BY DEF Logouts
  <2> QED
    BY <2>1, <1>8 DEF Logout, Typed, storageVars
<1>9. ASSUME NEW t \in Tabs, ServeLogout(t) PROVE Typed'
  <2>1. token' \in [Tokens -> {"unused", "live", "spent", "old"}]
    BY <1>9 DEF ServeLogout, Typed
  <2>2. logout' \in [Tabs -> Logouts]
    BY <1>9 DEF ServeLogout, Typed, Logouts
  <2> QED
    BY <2>1, <2>2, <1>9 DEF ServeLogout, Typed, storageVars
<1>10. ASSUME NEW t \in Tabs, LogoutEnds(t) PROVE Typed'
  BY <1>10 DEF LogoutEnds, NoLogout, ClearStorage, Typed
<1>11. ASSUME NEW t \in Tabs, CloseTab(t) PROVE Typed'
  <2>1. call' \in [Calls -> PageCall] /\ lost' \in BOOLEAN
    BY <1>11 DEF CloseTab, Typed, PageCall
  <2> QED
    BY <2>1, <1>11 DEF CloseTab, EndRefresh, NoLogout, Typed, storageVars
<1>12. ASSUME NEW t \in Tabs, AccessExpires(t) PROVE Typed'
  BY <1>12 DEF AccessExpires, Typed, Tab, storageVars
<1>13. ASSUME NEW c \in Calls, Request(c) PROVE Typed'
  BY <1>13 DEF Request, Typed, PageCall, storageVars
<1>14. ASSUME NEW c \in Calls, CallRefused(c) PROVE Typed'
  <2>1. call' \in [Calls -> PageCall]
    BY <1>14 DEF CallRefused, Typed, PageCall
  <2>2. refresh' \in [Tabs -> Refresh] /\ crossed' \in [Tabs -> BOOLEAN]
    BY <1>14 DEF CallRefused, StartRefresh, Typed
  <2>3. tab' \in [Tabs -> Tab] /\ legacy' \in MaybeToken
    BY <1>14 DEF CallRefused, ClearStorage, Typed, storageVars
  <2> QED
    BY <2>1, <2>2, <2>3, <1>14 DEF CallRefused, Typed
<1>15. ASSUME NEW c \in Calls, RetryRefused(c) PROVE Typed'
  <2>1. call' \in [Calls -> PageCall]
    BY <1>15 DEF RetryRefused, Typed, PageCall
  <2> QED
    BY <2>1, <1>15 DEF RetryRefused, ClearStorage, Typed
<1>16. ASSUME NEW c \in Calls, CallAnswered(c) PROVE Typed'
  <2>1. call' \in [Calls -> PageCall]
    BY <1>16 DEF CallAnswered, Typed, PageCall
  <2> QED
    BY <2>1, <1>16 DEF CallAnswered, Typed, storageVars
<1>17. ASSUME NEW k \in Tokens, GraceEnds(k) PROVE Typed'
  BY <1>17 DEF GraceEnds, Typed, storageVars
<1>18. CASE UNCHANGED browserVars
  BY <1>18 DEF browserVars, storageVars, Typed
<1> QED
  BY <1>1, <1>2, <1>3, <1>4, <1>5, <1>6, <1>7, <1>8, <1>9, <1>10, <1>11, <1>12, <1>13, <1>14, <1>15, <1>16,
     <1>17, <1>18 DEF SessionNext, RefreshSteps, CallSteps

-----------------------------------------------------------------------------
(* The tabs are in order.                                                  *)

LEMMA TabsInit ==
    ASSUME SessionInit
    PROVE  TabsInOrder
  BY BrowserAssumption DEF SessionInit, TabsInOrder, TabInOrder, NoRefresh, NoLogout, ClosedTab

(* A step that leaves a tab no less open, and its refresh and its logout   *)
(* as they were, keeps it in order.                                        *)
LEMMA TabKept ==
    ASSUME NEW u \in Tabs, TabInOrder(u), refresh'[u] = refresh[u], logout'[u] = logout[u],
           tab'[u].open = "closed" => tab[u].open = "closed"
    PROVE  TabInOrder(u)'
  BY DEF TabInOrder

LEMMA NotClosed ==
    /\ SignedIn.open # "closed" /\ SignedOut.open # "closed" /\ ClosedTab.open = "closed"
    /\ Sent(1, legacy).at = "out" /\ Sent(1, legacy).try = 1
    /\ Sent(2, NoToken).at = "out" /\ Sent(2, NoToken).try = 2
    /\ NoRefresh.at = "none" /\ NoLogout.at = "none"
  BY DEF SignedIn, SignedOut, ClosedTab, Sent, NoRefresh, NoLogout

LEMMA TabsStep ==
    ASSUME Typed, TabsInOrder, [SessionNext]_browserVars
    PROVE  TabsInOrder'
<1> USE NotClosed
<1>0. /\ \A t \in Tabs : TabInOrder(t)
      /\ \A c \in Calls : TabOf[c] \in Tabs /\ (call[c].at # "idle" => tab[TabOf[c]].open # "closed")
  BY BrowserAssumption DEF TabsInOrder
<1>1. ASSUME NEW t \in Tabs, OpenTab(t) PROVE TabsInOrder'
  <2>1. tab'[t].open # "closed" /\ \A u \in Tabs \ {t} : tab'[u] = tab[u]
    BY <1>1 DEF OpenTab, Typed, Tab
  <2>2. \A u \in Tabs \ {t} : TabInOrder(u)'
    BY <2>1, <1>0, <1>1, TabKept DEF OpenTab, StartRefresh, Typed
  <2>3. TabInOrder(t)'
    <3>1. refresh'[t] = refresh[t] \/ refresh'[t] = Sent(1, legacy)
      BY <1>1 DEF OpenTab, StartRefresh, Typed
    <3> QED
      BY <2>1, <3>1, <1>0, <1>1 DEF OpenTab, TabInOrder
  <2>4. \A c \in Calls : call'[c].at # "idle" => tab'[TabOf[c]].open # "closed"
    BY <2>1, <1>0, <1>1 DEF OpenTab
  <2> QED
    BY <2>2, <2>3, <2>4 DEF TabsInOrder
<1>2. ASSUME NEW t \in Tabs, ServeRefresh(t) PROVE TabsInOrder'
  <2>1. PICK a \in {"invalid", "rotated", "unauthorized"}, n \in MaybeToken :
           refresh' = [refresh EXCEPT ![t].at = "back", ![t].answer = a, ![t].next = n]
    BY <1>2, PiecesTyped DEF ServeRefresh
  <2>2. IsBack(refresh'[t], refresh[t], a, n) /\ \A u \in Tabs \ {t} : refresh'[u] = refresh[u]
    BY <2>1, AnswerGiven
  <2>3. \A u \in Tabs \ {t} : TabInOrder(u)'
    BY <2>2, <1>0, <1>2, TabKept DEF ServeRefresh
  <2>4. TabInOrder(t)'
    BY <2>2, <1>0, <1>2 DEF ServeRefresh, TabInOrder, IsBack
  <2> QED
    BY <2>3, <2>4, <1>0, <1>2 DEF TabsInOrder, ServeRefresh
<1>3. ASSUME NEW t \in Tabs, RefreshSucceeds(t) PROVE TabsInOrder'
  <2>1. /\ tab'[t].open # "closed" /\ refresh'[t] = NoRefresh
        /\ \A u \in Tabs \ {t} : tab'[u] = tab[u] /\ refresh'[u] = refresh[u]
    BY <1>3 DEF RefreshSucceeds, EndRefresh, Typed
  <2>2. \A u \in Tabs : TabInOrder(u)'
    BY <2>1, <1>0, <1>3, TabKept DEF RefreshSucceeds, TabInOrder
  <2>3. \A c \in Calls : call'[c].at # "idle" => call[c].at # "idle"
    BY <1>3 DEF RefreshSucceeds, ResumeCalls, Waiting
  <2> QED
    BY <2>1, <2>2, <2>3, <1>0 DEF TabsInOrder
<1>4. ASSUME NEW t \in Tabs, RefreshRefused(t) PROVE TabsInOrder'
  <2>1. CASE MayRetry(t)
    <3>1. /\ refresh'[t].at = "pause" /\ refresh'[t].try = refresh[t].try
          /\ \A u \in Tabs \ {t} : refresh'[u] = refresh[u]
      BY <2>1, <1>4 DEF RefreshRefused, Typed, Refresh
    <3>2. \A u \in Tabs : TabInOrder(u)'
      BY <3>1, <2>1, <1>0, <1>4, TabKept DEF RefreshRefused, TabInOrder, MayRetry
    <3> QED
      BY <3>2, <2>1, <1>0, <1>4 DEF TabsInOrder, RefreshRefused
  <2>2. CASE ~MayRetry(t)
    <3>1. /\ tab'[t].open # "closed" /\ refresh'[t] = NoRefresh
          /\ \A u \in Tabs \ {t} : tab'[u] = tab[u] /\ refresh'[u] = refresh[u]
      BY <2>2, <1>4 DEF RefreshRefused, EndRefresh, Typed
    <3>2. \A u \in Tabs : TabInOrder(u)'
      BY <3>1, <1>0, <1>4, TabKept DEF RefreshRefused, TabInOrder
    <3>3. \A c \in Calls : call'[c].at # "idle" => call[c].at # "idle"
      BY <2>2, <1>4 DEF RefreshRefused, ResumeCalls, Waiting
    <3> QED
      BY <3>1, <3>2, <3>3, <1>0 DEF TabsInOrder
  <2> QED
    BY <2>1, <2>2
<1>5. ASSUME NEW t \in Tabs, RetryRefresh(t) PROVE TabsInOrder'
  <2>1. refresh'[t] = Sent(2, NoToken) /\ \A u \in Tabs \ {t} : refresh'[u] = refresh[u]
    BY <1>5 DEF RetryRefresh, Typed
  <2>2. tab[t].open # "closed"
    BY <1>0, <1>5 DEF RetryRefresh, TabInOrder
  <2>3. \A u \in Tabs : TabInOrder(u)'
    BY <2>1, <2>2, <1>0, <1>5, TabKept DEF RetryRefresh, TabInOrder
  <2> QED
    BY <2>3, <1>0, <1>5 DEF TabsInOrder, RetryRefresh
<1>6. ASSUME NEW t \in Tabs, RefreshFails(t) PROVE TabsInOrder'
  <2>1. /\ tab[t].open # "closed" => tab'[t].open # "closed"
        /\ refresh'[t] = NoRefresh
        /\ \A u \in Tabs \ {t} : tab'[u] = tab[u] /\ refresh'[u] = refresh[u]
    BY <1>6 DEF RefreshFails, EndRefresh, Typed
  <2>2. tab[t].open # "closed"
    BY <1>0, <1>6 DEF RefreshFails, TabInOrder
  <2>3. \A u \in Tabs : TabInOrder(u)'
    BY <2>1, <2>2, <1>0, <1>6, TabKept DEF RefreshFails, TabInOrder
  <2>4. \A c \in Calls : call'[c].at # "idle" => call[c].at # "idle"
    BY <1>6 DEF RefreshFails, ResumeCalls, Waiting
  <2> QED
    BY <2>1, <2>3, <2>4, <1>0 DEF TabsInOrder
<1>7. ASSUME NEW t \in Tabs, Login(t) PROVE TabsInOrder'
  <2>1. tab'[t].open # "closed" /\ \A u \in Tabs \ {t} : tab'[u] = tab[u]
    BY <1>7 DEF Login, Typed
  <2>2. \A u \in Tabs : TabInOrder(u)'
    BY <2>1, <1>0, <1>7, TabKept DEF Login
  <2> QED
    BY <2>1, <2>2, <1>0, <1>7 DEF TabsInOrder, Login
<1>8. ASSUME NEW t \in Tabs, Logout(t) PROVE TabsInOrder'
  <2>1. logout'[t].at = "out" /\ \A u \in Tabs \ {t} : logout'[u] = logout[u]
    BY <1>8 DEF Logout, Typed
  <2>2. \A u \in Tabs : TabInOrder(u)'
    BY <2>1, <1>0, <1>8, TabKept DEF Logout, TabInOrder
  <2> QED
    BY <2>2, <1>0, <1>8 DEF TabsInOrder, Logout
<1>9. ASSUME NEW t \in Tabs, ServeLogout(t) PROVE TabsInOrder'
  <2>1. logout'[t].at = "back" /\ \A u \in Tabs \ {t} : logout'[u] = logout[u]
    BY <1>9 DEF ServeLogout, Typed, Logouts
  <2>2. tab[t].open # "closed"
    BY <1>0, <1>9 DEF ServeLogout, TabInOrder
  <2>3. \A u \in Tabs : TabInOrder(u)'
    BY <2>1, <2>2, <1>0, <1>9, TabKept DEF ServeLogout, TabInOrder
  <2> QED
    BY <2>3, <1>0, <1>9 DEF TabsInOrder, ServeLogout
<1>10. ASSUME NEW t \in Tabs, LogoutEnds(t) PROVE TabsInOrder'
  <2>1. /\ tab'[t].open # "closed" /\ logout'[t] = NoLogout
        /\ \A u \in Tabs \ {t} : tab'[u] = tab[u] /\ logout'[u] = logout[u]
    BY <1>10 DEF LogoutEnds, NoLogout, Typed
  <2>2. \A u \in Tabs : TabInOrder(u)'
    BY <2>1, <1>0, <1>10, TabKept DEF LogoutEnds, TabInOrder
  <2> QED
    BY <2>1, <2>2, <1>0, <1>10 DEF TabsInOrder, LogoutEnds
<1>11. ASSUME NEW t \in Tabs, CloseTab(t) PROVE TabsInOrder'
  <2>1. /\ refresh'[t] = NoRefresh /\ logout'[t] = NoLogout
        /\ \A u \in Tabs \ {t} : tab'[u] = tab[u] /\ refresh'[u] = refresh[u] /\ logout'[u] = logout[u]
    BY <1>11 DEF CloseTab, EndRefresh, NoLogout, Typed
  <2>2. \A u \in Tabs : TabInOrder(u)'
    BY <2>1, <1>0, TabKept DEF TabInOrder
  <2>3. \A c \in Calls : IF TabOf[c] = t THEN call'[c].at = "idle" ELSE call'[c] = call[c]
    BY <1>11 DEF CloseTab
  <2> QED
    BY <2>1, <2>2, <2>3, <1>0 DEF TabsInOrder
<1>12. ASSUME NEW t \in Tabs, AccessExpires(t) PROVE TabsInOrder'
  <2>1. \A u \in Tabs : tab'[u].open = tab[u].open
    BY <1>12 DEF AccessExpires, Typed, Tab
  <2>2. \A u \in Tabs : TabInOrder(u)'
    BY <2>1, <1>0, <1>12, TabKept DEF AccessExpires
  <2> QED
    BY <2>1, <2>2, <1>0, <1>12 DEF TabsInOrder, AccessExpires
<1>13. ASSUME NEW c \in Calls, Request(c) PROVE TabsInOrder'
  <2>1. \A u \in Tabs : TabInOrder(u)'
    BY <1>0, <1>13, TabKept DEF Request
  <2>2. \A d \in Calls \ {c} : call'[d] = call[d]
    BY <1>13 DEF Request, Typed
  <2> QED
    BY <2>1, <2>2, <1>0, <1>13 DEF TabsInOrder, Request
<1>14. ASSUME NEW c \in Calls, CallRefused(c) PROVE TabsInOrder'
  <2> DEFINE t == TabOf[c]
  <2>1. t \in Tabs /\ tab[t].open # "closed"
    BY <1>0, <1>14 DEF CallRefused
  <2>2. tab'[t].open # "closed" /\ \A u \in Tabs \ {t} : tab'[u] = tab[u]
    BY <2>1, <1>14 DEF CallRefused, Typed
  <2>3. /\ refresh'[t] = refresh[t] \/ refresh'[t] = Sent(1, legacy)
        /\ \A u \in Tabs \ {t} : refresh'[u] = refresh[u]
    BY <2>1, <1>14 DEF CallRefused, StartRefresh, Typed
  <2>4. \A u \in Tabs : TabInOrder(u)'
    BY <2>1, <2>2, <2>3, <1>0, <1>14, TabKept DEF CallRefused, TabInOrder
  <2>5. \A d \in Calls \ {c} : call'[d] = call[d]
    BY <1>14 DEF CallRefused, Typed
  <2> QED
    BY <2>1, <2>2, <2>4, <2>5, <1>0 DEF TabsInOrder
<1>15. ASSUME NEW c \in Calls, RetryRefused(c) PROVE TabsInOrder'
  <2>1. TabOf[c] \in Tabs /\ tab[TabOf[c]].open # "closed"
    BY <1>0, <1>15 DEF RetryRefused
  <2>2. tab'[TabOf[c]].open # "closed" /\ \A u \in Tabs \ {TabOf[c]} : tab'[u] = tab[u]
    BY <2>1, <1>15 DEF RetryRefused, Typed
  <2>3. \A u \in Tabs : TabInOrder(u)'
    BY <2>1, <2>2, <1>0, <1>15, TabKept DEF RetryRefused
  <2>4. \A d \in Calls \ {c} : call'[d] = call[d]
    BY <1>15 DEF RetryRefused, Typed
  <2> QED
    BY <2>1, <2>2, <2>3, <2>4, <1>0 DEF TabsInOrder
<1>16. ASSUME NEW c \in Calls, CallAnswered(c) PROVE TabsInOrder'
  <2>1. \A u \in Tabs : TabInOrder(u)'
    BY <1>0, <1>16, TabKept DEF CallAnswered
  <2>2. \A d \in Calls \ {c} : call'[d] = call[d]
    BY <1>16 DEF CallAnswered, Typed
  <2> QED
    BY <2>1, <2>2, <1>0, <1>16 DEF TabsInOrder, CallAnswered
<1>17. ASSUME NEW k \in Tokens, GraceEnds(k) PROVE TabsInOrder'
  BY <1>17, <1>0 DEF GraceEnds, TabsInOrder, TabInOrder
<1>18. CASE UNCHANGED browserVars
  BY <1>18, <1>0 DEF browserVars, TabsInOrder, TabInOrder
<1> QED
  BY <1>1, <1>2, <1>3, <1>4, <1>5, <1>6, <1>7, <1>8, <1>9, <1>10, <1>11, <1>12, <1>13, <1>14, <1>15, <1>16,
     <1>17, <1>18 DEF SessionNext, RefreshSteps, CallSteps

-----------------------------------------------------------------------------
(* The rest of the invariant, one lemma for each kind of step.             *)

LEMMA TokensInit ==
    ASSUME SessionInit
    PROVE  TokensSafe
<1>1. PICK k \in Tokens :
          /\ token = [i \in Tokens |-> IF i = k THEN "live" ELSE "unused"]
          /\ \/ cookie = k /\ legacy = NoToken
             \/ cookie = NoToken /\ legacy = k
  BY DEF SessionInit
<1>2. \A t \in Tabs : refresh[t] = NoRefresh /\ logout[t] = NoLogout
  BY DEF SessionInit, NoLogout
<1>3. DrawnBeforeUse
  BY <1>1, <1>2, BrowserAssumption DEF DrawnBeforeUse, Unseen, NoRefresh, NoLogout
<1>4. NextIsFresh
  BY <1>2 DEF NextIsFresh, Rotated, NoRefresh
<1>5. NothingTooOld
  BY <1>1, <1>2 DEF NothingTooOld, Presentable, NoRefresh, SessionInit
<1>6. RefusedIsNotLive /\ SecondTryIsAlone
  BY <1>2 DEF RefusedIsNotLive, SecondTryIsAlone, NoRefresh
<1> QED
  BY <1>3, <1>4, <1>5, <1>6 DEF TokensSafe

(* Nothing of it changes, but that an older token may be dropped.          *)
LEMMA QuietSafe ==
    ASSUME TokensSafe,
           UNCHANGED <<token, cookie, refresh, logout, alarm, lost, crossed>>,
           legacy' \in {legacy, NoToken}
    PROVE  TokensSafe'
<1>1. DrawnBeforeUse'
  BY BrowserAssumption DEF TokensSafe, DrawnBeforeUse, Unseen
<1>2. NextIsFresh'
  BY BrowserAssumption DEF TokensSafe, NextIsFresh, Rotated, OnItsWay
<1>3. NothingTooOld'
  BY DEF TokensSafe, NothingTooOld, Presentable, GaveUp, Rotated
<1>4. RefusedIsNotLive' /\ SecondTryIsAlone'
  BY DEF TokensSafe, RefusedIsNotLive, SecondTryIsAlone
<1> QED
  BY <1>1, <1>2, <1>3, <1>4 DEF TokensSafe

(* What a tab presents is stored.                                          *)
LEMMA PresentedIsStored ==
    ASSUME NEW body \in {legacy, NoToken}
    PROVE  /\ Presented(body) = cookie \/ Presented(body) = legacy
           /\ Sent(1, body).sent = Presented(body) /\ Sent(2, body).sent = Presented(body)
           /\ Sent(1, body).answer = "none" /\ Sent(2, body).answer = "none"
           /\ Sent(1, body).next = NoToken /\ Sent(2, body).next = NoToken
           /\ Presented(NoToken) = cookie
  BY DEF Presented, Sent

LEMMA CrossedIsSecond ==
    ASSUME crossed' = CrossOthers, NEW u \in Tabs, refresh[u].try = 2
    PROVE  crossed'[u]
  BY Zenon DEF CrossOthers

(* A tab that had no refresh starts one.                                   *)
LEMMA StartSafe ==
    ASSUME Typed, TabsInOrder, TokensSafe,
           NEW t \in Tabs, refresh[t].at = "none", StartRefresh(t),
           UNCHANGED <<token, cookie, legacy, logout, alarm, lost>>
    PROVE  TokensSafe'
<1> DEFINE k == Presented(legacy)
<1>1. /\ \A u \in Tabs \ {t} : refresh'[u] = refresh[u]
      /\ refresh'[t].at = "out" /\ refresh'[t].try = 1 /\ refresh'[t].sent = k
      /\ refresh'[t].answer = "none" /\ refresh'[t].next = NoToken
  BY NotClosed, PresentedIsStored DEF StartRefresh, Typed
<1>2. k = cookie \/ k = legacy
  BY PresentedIsStored
<1>3. \A u \in Tabs : Rotated(u)' => u # t /\ Rotated(u)
  BY <1>1 DEF Rotated
<1>4. \A u \in Tabs : \A i : GaveUp(u, i) => GaveUp(u, i)'
  BY <1>1 DEF GaveUp, Rotated
<1> HIDE DEF k
<1>5. DrawnBeforeUse'
  BY <1>1, <1>2, BrowserAssumption DEF TokensSafe, DrawnBeforeUse, Unseen
<1>6. NextIsFresh'
  BY <1>1, <1>2, <1>3 DEF TokensSafe, NextIsFresh, OnItsWay
<1>7. NothingTooOld'
  BY <1>1, <1>2, <1>4 DEF TokensSafe, NothingTooOld, Presentable
<1>8. RefusedIsNotLive'
  BY <1>1 DEF TokensSafe, RefusedIsNotLive
<1>9. SecondTryIsAlone'
  BY <1>1, CrossedIsSecond DEF SecondTryIsAlone, StartRefresh
<1> QED
  BY <1>5, <1>6, <1>7, <1>8, <1>9 DEF TokensSafe

(* The service answers, and gives no token up.                             *)
LEMMA AnswerSafe ==
    ASSUME Typed, TokensSafe,
           NEW t \in Tabs, refresh[t].at = "out",
           NEW a \in {"invalid", "unauthorized"}, NEW n, IsBack(refresh'[t], refresh[t], a, n), n = NoToken,
           \A u \in Tabs \ {t} : refresh'[u] = refresh[u],
           a = "unauthorized" => token[refresh[t].sent] # "live",
           UNCHANGED <<token, cookie, legacy, logout, alarm, lost, crossed>>
    PROVE  TokensSafe'
<1>1. /\ refresh'[t].at = "back" /\ refresh'[t].try = refresh[t].try /\ refresh'[t].sent = refresh[t].sent
      /\ refresh'[t].answer = a /\ refresh'[t].next = NoToken
  BY DEF IsBack
<1>2. \A u \in Tabs : Rotated(u)' => u # t /\ Rotated(u)
  BY <1>1 DEF Rotated
<1>3. \A u \in Tabs : \A i : GaveUp(u, i) => GaveUp(u, i)'
  BY <1>1 DEF GaveUp, Rotated
<1>4. \A u \in Tabs : refresh'[u].sent = refresh[u].sent
  BY <1>1
<1>5. DrawnBeforeUse'
  BY <1>1, <1>4, BrowserAssumption DEF TokensSafe, DrawnBeforeUse, Unseen
<1>6. NextIsFresh'
  BY <1>2, <1>4 DEF TokensSafe, NextIsFresh, OnItsWay
<1>7. NothingTooOld'
  BY <1>3, <1>4 DEF TokensSafe, NothingTooOld, Presentable
<1>8. RefusedIsNotLive'
  BY <1>1 DEF TokensSafe, RefusedIsNotLive
<1>9. SecondTryIsAlone'
  BY <1>1 DEF TokensSafe, SecondTryIsAlone
<1> QED
  BY <1>5, <1>6, <1>7, <1>8, <1>9 DEF TokensSafe

(* It exchanges a live token for the next one.                             *)
LEMMA RotationSafe ==
    ASSUME Typed, TokensSafe,
           NEW t \in Tabs, refresh[t].at = "out", refresh[t].sent \in Tokens, token[refresh[t].sent] = "live",
           NEW n \in Tokens, token[n] = "unused", IsBack(refresh'[t], refresh[t], "rotated", n),
           \A u \in Tabs \ {t} : refresh'[u] = refresh[u],
           token' = [token EXCEPT ![refresh[t].sent] = "spent", ![n] = "live"],
           UNCHANGED <<cookie, legacy, logout, alarm, lost, crossed>>
    PROVE  TokensSafe'
<1>1. /\ refresh'[t].at = "back" /\ refresh'[t].try = refresh[t].try /\ refresh'[t].sent = refresh[t].sent
      /\ refresh'[t].answer = "rotated" /\ refresh'[t].next = n
  BY DEF IsBack
<1>2. \A u \in Tabs : refresh'[u].sent = refresh[u].sent
  BY <1>1
<1>3. PICK k \in Tokens : k = refresh[t].sent /\ token[k] = "live"
  OBVIOUS
<1>4. /\ k # n /\ token'[n] = "live" /\ token'[k] = "spent"
      /\ \A i \in Tokens \ {k, n} : token'[i] = token[i]
  BY <1>3 DEF Typed
<1>5. Unseen(n)
  BY DEF TokensSafe, DrawnBeforeUse
<1>6. /\ n # cookie /\ n # legacy
      /\ \A u \in Tabs : n # refresh[u].sent /\ n # refresh[u].next /\ n # logout[u].sent
  BY <1>5 DEF Unseen
<1>7. \A u \in Tabs : Rotated(u)' => u = t \/ Rotated(u)
  BY DEF Rotated
<1>8. GaveUp(t, k)' /\ \A u \in Tabs : \A i : GaveUp(u, i) => GaveUp(u, i)'
  BY <1>1, <1>3 DEF GaveUp, Rotated
<1>9. DrawnBeforeUse'
  <2>1. ASSUME NEW i \in Tokens, token'[i] = "unused" PROVE Unseen(i)'
    <3>1. i # n /\ token[i] = "unused"
      BY <2>1, <1>4
    <3>2. Unseen(i)
      BY <3>1 DEF TokensSafe, DrawnBeforeUse
    <3> QED
      BY <3>1, <3>2, <1>1 DEF Unseen
  <2> QED
    BY <2>1 DEF DrawnBeforeUse
<1>10. NextIsFresh'
  <2> SUFFICES ASSUME ~alarm, NEW u \in Tabs, Rotated(u)'
               PROVE  /\ OnItsWay(refresh[u].next)'
                      /\ \A v \in Tabs \ {u} : Rotated(v)' => refresh'[v].next # refresh'[u].next
    BY DEF NextIsFresh
  <2>1. ASSUME NEW v \in Tabs, v # t, Rotated(v)
        PROVE  OnItsWay(refresh[v].next) /\ refresh[v].next # n /\ refresh[v].next # k
    BY <2>1, <1>3, <1>6 DEF TokensSafe, NextIsFresh, OnItsWay
  <2>2. ASSUME NEW v \in Tabs, v # t, Rotated(v)
        PROVE  OnItsWay(refresh[v].next)'
    <3>1. PICK m : m = refresh[v].next /\ m = refresh'[v].next
      BY <2>2
    <3>2. m \in Tokens /\ token[m] = "live" /\ m # n /\ m # k
      BY <3>1, <2>1, <2>2 DEF OnItsWay
    <3>3. token'[m] = "live"
      BY <3>2, <1>4
    <3>4. m # cookie /\ m # legacy /\ \A w \in Tabs : m # refresh[w].sent /\ m # logout[w].sent
      BY <3>1, <2>1, <2>2 DEF OnItsWay
    <3> QED
      BY <3>1, <3>2, <3>3, <3>4, <1>2 DEF OnItsWay
  <2>3. OnItsWay(refresh[t].next)'
    BY <1>1, <1>2, <1>4, <1>6 DEF OnItsWay
  <2>4. OnItsWay(refresh[u].next)'
    BY <2>2, <2>3, <1>7
  <2>5. ASSUME NEW v \in Tabs \ {u}, Rotated(v)' PROVE refresh'[v].next # refresh'[u].next
    BY <2>1, <2>5, <1>1, <1>7 DEF TokensSafe, NextIsFresh
  <2> QED
    BY <2>4, <2>5
<1>11. NothingTooOld'
  <2>1. \A i \in Tokens : Presentable(i) /\ i # n => Presentable(i)'
    BY <1>3, <1>4, <1>8 DEF Presentable
  <2>2. \A i \in {NoToken} : Presentable(i)'
    BY DEF Presentable
  <2>3. \A u \in Tabs : refresh[u].sent \in MaybeToken
    BY DEF Typed, Refresh
  <2>4. ASSUME NEW i \in Tokens, token[i] # "old" PROVE token'[i] # "old"
    BY <2>4, <1>4
  <2>5. ~lost => \A u \in Tabs : refresh'[u].sent # NoToken => token'[refresh'[u].sent] # "old"
    BY <2>3, <2>4, <1>2 DEF TokensSafe, NothingTooOld, MaybeToken
  <2>6. ~lost => Presentable(cookie)' /\ Presentable(legacy)'
    BY <2>1, <2>2, <1>6 DEF TokensSafe, NothingTooOld, Typed, MaybeToken
  <2> QED
    BY <2>5, <2>6 DEF TokensSafe, NothingTooOld
<1>12. RefusedIsNotLive'
  <2> SUFFICES ASSUME NEW u \in Tabs, refresh'[u].answer = "unauthorized", refresh'[u].sent # NoToken
               PROVE  token'[refresh'[u].sent] # "live"
    BY DEF RefusedIsNotLive
  <2>1. u # t /\ refresh[u].sent \in Tokens
    BY <1>1, <1>2 DEF Typed, Refresh, MaybeToken
  <2>2. token[refresh[u].sent] # "live"
    BY <2>1 DEF TokensSafe, RefusedIsNotLive
  <2> QED
    BY <2>1, <2>2, <1>2, <1>4, <1>6
<1>13. SecondTryIsAlone'
  BY <1>1 DEF TokensSafe, SecondTryIsAlone
<1> QED
  BY <1>9, <1>10, <1>11, <1>12, <1>13 DEF TokensSafe

(* It takes an old token for a leak, and ends every session.               *)
LEMMA AlarmSafe ==
    ASSUME Typed, TokensSafe,
           NEW t \in Tabs, refresh[t].at = "out", refresh[t].sent \in Tokens, token[refresh[t].sent] = "old",
           NEW n, IsBack(refresh'[t], refresh[t], "unauthorized", n), n = NoToken,
           \A u \in Tabs \ {t} : refresh'[u] = refresh[u],
           token' = [i \in Tokens |-> IF token[i] = "live" THEN "spent" ELSE token[i]], alarm',
           UNCHANGED <<cookie, legacy, logout, lost, crossed>>
    PROVE  TokensSafe'
<1>1. /\ refresh'[t].at = "back" /\ refresh'[t].try = refresh[t].try /\ refresh'[t].sent = refresh[t].sent
      /\ refresh'[t].answer = "unauthorized" /\ refresh'[t].next = NoToken
  BY DEF IsBack
<1>2. \A i \in Tokens : token'[i] # "live" /\ (token'[i] = "unused" => token[i] = "unused")
  OBVIOUS
<1>3. lost
  BY BrowserAssumption DEF TokensSafe, NothingTooOld
<1>4. DrawnBeforeUse'
  BY <1>1, <1>2, BrowserAssumption DEF TokensSafe, DrawnBeforeUse, Unseen
<1>5. NextIsFresh' /\ NothingTooOld'
  BY <1>3 DEF NextIsFresh, NothingTooOld
<1>6. \A u \in Tabs : refresh'[u].sent \in MaybeToken
  BY <1>1 DEF Typed, Refresh
<1>7. RefusedIsNotLive'
  BY <1>2, <1>6 DEF RefusedIsNotLive, MaybeToken
<1>8. SecondTryIsAlone'
  BY <1>1 DEF TokensSafe, SecondTryIsAlone
<1> QED
  BY <1>4, <1>5, <1>7, <1>8 DEF TokensSafe

LEMMA ServeSafe ==
    ASSUME Typed, TokensSafe, NEW t \in Tabs, ServeRefresh(t)
    PROVE  TokensSafe'
<1> DEFINE answers(a, n) == refresh' = [refresh EXCEPT ![t].at = "back", ![t].answer = a, ![t].next = n]
<1>1. UNCHANGED <<cookie, legacy, logout, lost, crossed>> /\ refresh[t].at = "out"
  BY DEF ServeRefresh, storageVars
<1>2. ASSUME NEW a \in {"invalid", "rotated", "unauthorized"}, NEW n \in MaybeToken, answers(a, n)
      PROVE  IsBack(refresh'[t], refresh[t], a, n) /\ \A u \in Tabs \ {t} : refresh'[u] = refresh[u]
  BY <1>2, AnswerGiven
<1>3. refresh[t].sent \in MaybeToken
  BY DEF Typed, Refresh
<1>4. CASE refresh[t].sent = NoToken
  BY <1>1, <1>2, <1>4, PiecesTyped, AnswerSafe DEF ServeRefresh
<1>5. CASE refresh[t].sent # NoToken /\ token[refresh[t].sent] = "live"
  BY <1>1, <1>2, <1>3, <1>5, PiecesTyped, RotationSafe DEF ServeRefresh, Fresh, MaybeToken
<1>6. CASE refresh[t].sent # NoToken /\ token[refresh[t].sent] = "spent"
  BY <1>1, <1>2, <1>6, PiecesTyped, AnswerSafe DEF ServeRefresh
<1>7. CASE refresh[t].sent # NoToken /\ token[refresh[t].sent] = "old"
  BY <1>1, <1>2, <1>3, <1>7, PiecesTyped, AlarmSafe DEF ServeRefresh, MaybeToken
<1> QED
  BY <1>4, <1>5, <1>6, <1>7 DEF ServeRefresh

(* The new token becomes the cookie.                                       *)
LEMMA RenewalSafe ==
    ASSUME Typed, TabsInOrder, TokensSafe, NEW t \in Tabs, RefreshSucceeds(t)
    PROVE  TokensSafe'
<1>1. /\ refresh'[t] = NoRefresh /\ \A u \in Tabs \ {t} : refresh'[u] = refresh[u]
      /\ Rotated(t) /\ cookie' = refresh[t].next /\ legacy' = NoToken
      /\ UNCHANGED <<token, logout, alarm, lost, crossed>>
  BY DEF RefreshSucceeds, EndRefresh, MarkSignedIn, Typed
<1>2. /\ NoRefresh.at = "none" /\ NoRefresh.try = 0 /\ NoRefresh.sent = NoToken
      /\ NoRefresh.answer = "none" /\ NoRefresh.next = NoToken
  BY DEF NoRefresh
<1>3. \A u \in Tabs : Rotated(u)' => u # t /\ Rotated(u)
  BY <1>1, <1>2 DEF Rotated
<1>4. DrawnBeforeUse'
  BY <1>1, <1>2, BrowserAssumption DEF TokensSafe, DrawnBeforeUse, Unseen
<1>5. NextIsFresh'
  <2> SUFFICES ASSUME ~alarm, NEW u \in Tabs, u # t, Rotated(u)
               PROVE  /\ OnItsWay(refresh[u].next)'
                      /\ \A v \in Tabs \ {u} : Rotated(v)' => refresh'[v].next # refresh'[u].next
    BY <1>1, <1>3 DEF NextIsFresh
  <2>1. OnItsWay(refresh[u].next) /\ refresh[u].next # refresh[t].next
    BY <1>1 DEF TokensSafe, NextIsFresh
  <2>2. OnItsWay(refresh[u].next)'
    BY <2>1, <1>1, <1>2, BrowserAssumption DEF OnItsWay
  <2> QED
    BY <2>2, <1>1, <1>3 DEF TokensSafe, NextIsFresh
<1>6. NothingTooOld'
  <2> SUFFICES ASSUME ~lost PROVE NothingTooOld'
    BY <1>1 DEF NothingTooOld
  <2>1. ~alarm /\ \A u \in Tabs : refresh[u].sent # NoToken => token[refresh[u].sent] # "old"
    BY DEF TokensSafe, NothingTooOld
  <2>2. token[refresh[t].next] = "live"
    BY <2>1, <1>1 DEF TokensSafe, NextIsFresh, OnItsWay
  <2> QED
    BY <2>1, <2>2, <1>1, <1>2 DEF NothingTooOld, Presentable
<1>7. RefusedIsNotLive'
  BY <1>1, <1>2 DEF TokensSafe, RefusedIsNotLive
<1>8. SecondTryIsAlone'
  <2>1. refresh[t].at # "none"
    BY <1>1 DEF Rotated
  <2>2. \A u \in Tabs : refresh'[u].try = 2 => u # t /\ crossed'[u]
    BY <2>1, <1>1, <1>2 DEF TokensSafe, SecondTryIsAlone
  <2> QED
    BY <2>2 DEF SecondTryIsAlone
<1> QED
  BY <1>4, <1>5, <1>6, <1>7, <1>8 DEF TokensSafe

(* A tab gives its refresh up, and perhaps its logout: a rotation whose    *)
(* answer it drops is an answer lost.                                      *)
LEMMA DropSafe ==
    ASSUME Typed, TokensSafe, NEW t \in Tabs,
           refresh'[t] = NoRefresh, \A u \in Tabs \ {t} : refresh'[u] = refresh[u],
           logout'[t] = logout[t] \/ (logout'[t] = NoLogout /\ (logout[t].at = "back" => lost')),
           \A u \in Tabs \ {t} : logout'[u] = logout[u],
           \A u \in Tabs \ {t} : crossed'[u] = crossed[u],
           lost => lost', Rotated(t) => lost',
           UNCHANGED <<token, cookie, alarm>>, legacy' \in {legacy, NoToken}
    PROVE  TokensSafe'
<1>1. /\ NoRefresh.at = "none" /\ NoRefresh.try = 0 /\ NoRefresh.sent = NoToken
      /\ NoRefresh.answer = "none" /\ NoRefresh.next = NoToken /\ NoLogout.sent = NoToken
  BY DEF NoRefresh, NoLogout
<1>2. \A u \in Tabs : Rotated(u)' => u # t /\ Rotated(u)
  BY <1>1 DEF Rotated
<1>3. \A u \in Tabs : refresh'[u].sent \in {refresh[u].sent, NoToken} /\ logout'[u].sent \in {logout[u].sent, NoToken}
  BY <1>1
<1>4. \A u \in Tabs : \A i : GaveUp(u, i) => GaveUp(u, i)' \/ lost'
  BY DEF GaveUp, Rotated
<1>5. DrawnBeforeUse'
  <2>1. \A u \in Tabs : refresh'[u].next \in {refresh[u].next, NoToken}
    BY <1>1
  <2> QED
    BY <2>1, <1>3, BrowserAssumption DEF TokensSafe, DrawnBeforeUse, Unseen
<1>6. NextIsFresh'
  BY <1>2, <1>3, BrowserAssumption DEF TokensSafe, NextIsFresh, OnItsWay
<1>7. NothingTooOld'
  BY <1>3, <1>4 DEF TokensSafe, NothingTooOld, Presentable
<1>8. RefusedIsNotLive'
  BY <1>1 DEF TokensSafe, RefusedIsNotLive
<1>9. SecondTryIsAlone'
  BY <1>1 DEF TokensSafe, SecondTryIsAlone
<1> QED
  BY <1>5, <1>6, <1>7, <1>8, <1>9 DEF TokensSafe

(* A refused tab waits, and presents what is the cookie by then.           *)
LEMMA PauseSafe ==
    ASSUME Typed, TokensSafe, NEW t \in Tabs,
           refresh[t].at = "back", refresh[t].answer = "unauthorized",
           refresh' = [refresh EXCEPT ![t].at = "pause"],
           UNCHANGED <<token, cookie, legacy, logout, alarm, lost, crossed>>
    PROVE  TokensSafe'
<1>1. /\ \A u \in Tabs \ {t} : refresh'[u] = refresh[u]
      /\ refresh'[t].at = "pause" /\ refresh'[t].try = refresh[t].try /\ refresh'[t].sent = refresh[t].sent
      /\ refresh'[t].answer = refresh[t].answer /\ refresh'[t].next = refresh[t].next
  BY DEF Typed, Refresh
<1>2. \A u \in Tabs : Rotated(u)' => u # t /\ Rotated(u)
  BY <1>1 DEF Rotated
<1>3. \A u \in Tabs : \A i : GaveUp(u, i) => GaveUp(u, i)'
  BY <1>1 DEF GaveUp, Rotated
<1>4. \A u \in Tabs : refresh'[u].sent = refresh[u].sent /\ refresh'[u].next = refresh[u].next
  BY <1>1
<1>5. DrawnBeforeUse'
  BY <1>4 DEF TokensSafe, DrawnBeforeUse, Unseen
<1>6. NextIsFresh'
  BY <1>2, <1>4 DEF TokensSafe, NextIsFresh, OnItsWay
<1>7. NothingTooOld'
  BY <1>3, <1>4 DEF TokensSafe, NothingTooOld, Presentable
<1>8. RefusedIsNotLive'
  BY <1>1 DEF TokensSafe, RefusedIsNotLive
<1>9. SecondTryIsAlone'
  BY <1>1 DEF TokensSafe, SecondTryIsAlone
<1> QED
  BY <1>5, <1>6, <1>7, <1>8, <1>9 DEF TokensSafe

LEMMA RetrySafe ==
    ASSUME Typed, TokensSafe, NEW t \in Tabs, RetryRefresh(t)
    PROVE  TokensSafe'
<1>1. /\ \A u \in Tabs \ {t} : refresh'[u] = refresh[u] /\ crossed'[u] = crossed[u]
      /\ refresh[t].at = "pause" /\ refresh'[t].at = "out" /\ refresh'[t].try = 2 /\ refresh'[t].sent = cookie
      /\ refresh'[t].answer = "none" /\ refresh'[t].next = NoToken
      /\ UNCHANGED <<token, cookie, legacy, logout, alarm, lost>>
  BY NotClosed, PresentedIsStored DEF RetryRefresh, Typed, storageVars
<1>2. \A u \in Tabs : Rotated(u)' => u # t /\ Rotated(u)
  BY <1>1 DEF Rotated
<1>3. \A u \in Tabs : \A i : GaveUp(u, i) => GaveUp(u, i)'
  BY <1>1 DEF GaveUp, Rotated
<1>4. DrawnBeforeUse'
  BY <1>1, BrowserAssumption DEF TokensSafe, DrawnBeforeUse, Unseen
<1>5. NextIsFresh'
  BY <1>1, <1>2 DEF TokensSafe, NextIsFresh, OnItsWay
<1>6. NothingTooOld'
  BY <1>1, <1>3 DEF TokensSafe, NothingTooOld, Presentable
<1>7. RefusedIsNotLive'
  BY <1>1 DEF TokensSafe, RefusedIsNotLive
<1>8. SecondTryIsAlone'
  <2>1. \A u \in Tabs \ {t} : refresh[u].try = 2 => crossed[u]
    BY <1>1 DEF TokensSafe, SecondTryIsAlone
  <2>2. ~crossed'[t] => \A u \in Tabs \ {t} : refresh[u].at = "none"
    BY Zenon DEF RetryRefresh, Typed
  <2> QED
    BY <2>1, <2>2, <1>1 DEF SecondTryIsAlone
<1> QED
  BY <1>4, <1>5, <1>6, <1>7, <1>8 DEF TokensSafe

(* Signing in.                                                             *)
LEMMA LoginSafe ==
    ASSUME Typed, TokensSafe, NEW t \in Tabs, Login(t)
    PROVE  TokensSafe'
<1>1. PICK n \in Tokens : token[n] = "unused" /\ token' = [token EXCEPT ![n] = "live"] /\ cookie' = n
  BY DEF Login, Fresh
<1>2. legacy' = NoToken /\ crossed' = CrossOthers /\ UNCHANGED <<refresh, logout, alarm, lost>>
  BY DEF Login, MarkSignedIn
<1>3. token'[n] = "live" /\ \A i \in Tokens \ {n} : token'[i] = token[i]
  BY <1>1 DEF Typed
<1>4. n # NoToken /\ \A u \in Tabs : n # refresh[u].sent /\ n # refresh[u].next /\ n # logout[u].sent
  BY <1>1, BrowserAssumption DEF TokensSafe, DrawnBeforeUse, Unseen
<1>5. \A u \in Tabs : refresh[u].sent \in MaybeToken
  BY DEF Typed, Refresh
<1>6. DrawnBeforeUse'
  <2>1. ASSUME NEW i \in Tokens, token'[i] = "unused" PROVE Unseen(i)'
    <3>1. i # n /\ Unseen(i)
      BY <2>1, <1>3 DEF TokensSafe, DrawnBeforeUse
    <3> QED
      BY <3>1, <1>1, <1>2, BrowserAssumption DEF Unseen
  <2> QED
    BY <2>1 DEF DrawnBeforeUse
<1>7. NextIsFresh'
  <2>1. ASSUME NEW u \in Tabs, OnItsWay(refresh[u].next) PROVE OnItsWay(refresh[u].next)'
    <3>1. PICK m : m = refresh[u].next /\ m = refresh'[u].next
      BY <1>2
    <3>2. m \in Tokens /\ token[m] = "live" /\ m # n
      BY <3>1, <2>1, <1>4 DEF OnItsWay
    <3>3. token'[m] = "live"
      BY <3>2, <1>3
    <3> QED
      BY <3>1, <3>2, <3>3, <2>1, <1>1, <1>2, BrowserAssumption DEF OnItsWay
  <2> QED
    BY <2>1, <1>2 DEF TokensSafe, NextIsFresh, Rotated
<1>8. NothingTooOld'
  <2>1. \A i \in Tokens : token[i] # "old" => token'[i] # "old"
    BY <1>3
  <2>2. Presentable(cookie)' /\ Presentable(legacy)'
    BY <1>1, <1>2, <1>3 DEF Presentable
  <2> QED
    BY <2>1, <2>2, <1>2, <1>5 DEF TokensSafe, NothingTooOld, MaybeToken
<1>9. RefusedIsNotLive'
  BY <1>2, <1>3, <1>4, <1>5 DEF TokensSafe, RefusedIsNotLive, MaybeToken
<1>10. SecondTryIsAlone'
  BY <1>2, CrossedIsSecond DEF SecondTryIsAlone
<1> QED
  BY <1>6, <1>7, <1>8, <1>9, <1>10 DEF TokensSafe

(* Signing out: the request, the service, and the end.                     *)
LEMMA LogoutSafe ==
    ASSUME Typed, TokensSafe, NEW t \in Tabs, Logout(t)
    PROVE  TokensSafe'
<1>1. /\ logout[t].at = "none" /\ logout'[t].at = "out" /\ logout'[t].sent = Presented(legacy)
      /\ \A u \in Tabs \ {t} : logout'[u] = logout[u]
      /\ UNCHANGED <<token, cookie, legacy, refresh, alarm, lost, crossed>>
  BY DEF Logout, Typed, storageVars
<1>2. Presented(legacy) = cookie \/ Presented(legacy) = legacy
  BY PresentedIsStored
<1>3. \A u \in Tabs : \A i : GaveUp(u, i) => GaveUp(u, i)'
  BY <1>1 DEF GaveUp, Rotated
<1>4. DrawnBeforeUse'
  BY <1>1, <1>2 DEF TokensSafe, DrawnBeforeUse, Unseen
<1>5. NextIsFresh'
  BY <1>1, <1>2 DEF TokensSafe, NextIsFresh, OnItsWay, Rotated
<1>6. NothingTooOld'
  BY <1>1, <1>3 DEF TokensSafe, NothingTooOld, Presentable
<1>7. RefusedIsNotLive' /\ SecondTryIsAlone'
  BY <1>1 DEF TokensSafe, RefusedIsNotLive, SecondTryIsAlone
<1> QED
  BY <1>4, <1>5, <1>6, <1>7 DEF TokensSafe

LEMMA ServeLogoutSafe ==
    ASSUME Typed, TokensSafe, NEW t \in Tabs, ServeLogout(t)
    PROVE  TokensSafe'
<1>1. /\ logout[t].at = "out" /\ logout'[t].at = "back" /\ logout'[t].sent = logout[t].sent
      /\ \A u \in Tabs \ {t} : logout'[u] = logout[u]
      /\ UNCHANGED <<cookie, legacy, refresh, alarm, lost, crossed>>
  BY DEF ServeLogout, Typed, Logouts, storageVars
<1>2. \A i \in Tokens : token'[i] = IF i = logout[t].sent /\ token[i] = "live" THEN "spent" ELSE token[i]
  BY DEF ServeLogout
<1>3. \A u \in Tabs : logout'[u].sent = logout[u].sent
  BY <1>1
<1>4. /\ \A i : i = logout[t].sent => GaveUp(t, i)'
      /\ \A u \in Tabs : \A i : GaveUp(u, i) => GaveUp(u, i)'
  BY <1>1 DEF GaveUp, Rotated
<1>5. \A u \in Tabs : refresh[u].sent \in MaybeToken
  BY DEF Typed, Refresh
<1>6. DrawnBeforeUse'
  BY <1>1, <1>2, <1>3 DEF TokensSafe, DrawnBeforeUse, Unseen
<1>7. NextIsFresh'
  <2>1. ASSUME NEW u \in Tabs, OnItsWay(refresh[u].next) PROVE OnItsWay(refresh[u].next)'
    <3>1. PICK m : m = refresh[u].next /\ m = refresh'[u].next
      BY <1>1
    <3>2. m \in Tokens /\ token[m] = "live" /\ m # logout[t].sent
      BY <3>1, <2>1 DEF OnItsWay
    <3>3. token'[m] = "live"
      BY <3>2, <1>2
    <3> QED
      BY <3>1, <3>2, <3>3, <2>1, <1>1, <1>3 DEF OnItsWay
  <2> QED
    BY <2>1, <1>1 DEF TokensSafe, NextIsFresh, Rotated
<1>8. NothingTooOld'
  <2>1. \A i \in Tokens : token[i] # "old" => token'[i] # "old"
    BY <1>2
  <2>2. ASSUME NEW i \in MaybeToken, Presentable(i) PROVE Presentable(i)'
    BY <2>2, <1>2, <1>4 DEF Presentable, MaybeToken
  <2>3. ~lost => Presentable(cookie)' /\ Presentable(legacy)'
    BY <2>2, <1>1 DEF TokensSafe, NothingTooOld, Typed
  <2> QED
    BY <2>1, <2>3, <1>1, <1>5 DEF TokensSafe, NothingTooOld, MaybeToken
<1>9. RefusedIsNotLive'
  BY <1>1, <1>2, <1>5 DEF TokensSafe, RefusedIsNotLive, MaybeToken
<1>10. SecondTryIsAlone'
  BY <1>1 DEF TokensSafe, SecondTryIsAlone
<1> QED
  BY <1>6, <1>7, <1>8, <1>9, <1>10 DEF TokensSafe

LEMMA LogoutEndsSafe ==
    ASSUME Typed, TokensSafe, NEW t \in Tabs, LogoutEnds(t)
    PROVE  TokensSafe'
<1>1. /\ logout'[t].at = "none" /\ logout'[t].sent = NoToken
      /\ \A u \in Tabs \ {t} : logout'[u] = logout[u]
      /\ legacy' = NoToken /\ UNCHANGED <<token, refresh, alarm, crossed>>
      /\ \/ cookie' = NoToken /\ lost' = lost
         \/ cookie' = cookie /\ lost' = (lost \/ logout[t].at = "back")
  BY DEF LogoutEnds, Typed, ClearStorage
<1>2. \A u \in Tabs : logout'[u].sent \in {logout[u].sent, NoToken}
  BY <1>1
<1>3. lost => lost'
  BY <1>1
<1>4. \A u \in Tabs : \A i : GaveUp(u, i) => GaveUp(u, i)' \/ lost' \/ cookie' = NoToken
  BY <1>1 DEF GaveUp, Rotated
<1>5. DrawnBeforeUse'
  BY <1>1, <1>2, BrowserAssumption DEF TokensSafe, DrawnBeforeUse, Unseen
<1>6. NextIsFresh'
  BY <1>1, <1>2, BrowserAssumption DEF TokensSafe, NextIsFresh, OnItsWay, Rotated
<1>7. NothingTooOld'
  BY <1>1, <1>3, <1>4 DEF TokensSafe, NothingTooOld, Presentable
<1>8. RefusedIsNotLive' /\ SecondTryIsAlone'
  BY <1>1 DEF TokensSafe, RefusedIsNotLive, SecondTryIsAlone
<1> QED
  BY <1>5, <1>6, <1>7, <1>8 DEF TokensSafe

(* The grace of a token that nobody is presenting ends.                    *)
LEMMA GraceSafe ==
    ASSUME Typed, TokensSafe, NEW k \in Tokens, GraceEnds(k)
    PROVE  TokensSafe'
<1>1. /\ token[k] = "spent" /\ token'[k] = "old" /\ \A i \in Tokens \ {k} : token'[i] = token[i]
      /\ \A t \in Tabs : k # refresh[t].sent /\ k # logout[t].sent
      /\ UNCHANGED <<cookie, legacy, refresh, logout, alarm, lost, crossed>>
  BY DEF GraceEnds, Typed, storageVars
<1>2. \A u \in Tabs : refresh[u].sent \in MaybeToken
  BY DEF Typed, Refresh
<1>3. DrawnBeforeUse'
  BY <1>1 DEF TokensSafe, DrawnBeforeUse, Unseen
<1>4. NextIsFresh'
  <2>1. ASSUME NEW u \in Tabs, OnItsWay(refresh[u].next) PROVE OnItsWay(refresh[u].next)'
    <3>1. PICK m : m = refresh[u].next /\ m = refresh'[u].next
      BY <1>1
    <3>2. m \in Tokens /\ token'[m] = "live"
      BY <3>1, <2>1, <1>1 DEF OnItsWay
    <3> QED
      BY <3>1, <3>2, <2>1, <1>1 DEF OnItsWay
  <2> QED
    BY <2>1, <1>1 DEF TokensSafe, NextIsFresh, Rotated
<1>5. NothingTooOld'
  <2>1. ASSUME NEW i \in MaybeToken, Presentable(i) PROVE Presentable(i)'
    <3>1. i # k
      BY <2>1, <1>1, BrowserAssumption DEF Presentable, GaveUp
    <3>2. \A u \in Tabs : GaveUp(u, i) => GaveUp(u, i)'
      BY <1>1 DEF GaveUp, Rotated
    <3> QED
      BY <3>1, <3>2, <2>1, <1>1 DEF Presentable, MaybeToken
  <2>2. ~lost => Presentable(cookie)' /\ Presentable(legacy)'
    BY <2>1, <1>1 DEF TokensSafe, NothingTooOld, Typed
  <2> QED
    BY <2>2, <1>1, <1>2 DEF TokensSafe, NothingTooOld, MaybeToken
<1>6. RefusedIsNotLive'
  BY <1>1, <1>2 DEF TokensSafe, RefusedIsNotLive, MaybeToken
<1>7. SecondTryIsAlone'
  BY <1>1 DEF TokensSafe, SecondTryIsAlone
<1> QED
  BY <1>3, <1>4, <1>5, <1>6, <1>7 DEF TokensSafe

LEMMA TokensStep ==
    ASSUME Typed, TabsInOrder, TokensSafe, [SessionNext]_browserVars
    PROVE  TokensSafe'
<1>1. ASSUME NEW t \in Tabs, OpenTab(t) PROVE TokensSafe'
  <2>1. CASE HasSession
    <3>1. refresh[t].at = "none"
      BY <1>1, NotClosed DEF OpenTab, TabsInOrder, TabInOrder
    <3> QED
      BY <2>1, <3>1, <1>1, StartSafe DEF OpenTab, storageVars
  <2>2. CASE ~HasSession
    BY <2>2, <1>1, QuietSafe DEF OpenTab, storageVars
  <2> QED
    BY <2>1, <2>2
<1>2. ASSUME NEW t \in Tabs, ServeRefresh(t) PROVE TokensSafe'
  BY <1>2, ServeSafe
<1>3. ASSUME NEW t \in Tabs, RefreshSucceeds(t) PROVE TokensSafe'
  BY <1>3, RenewalSafe
<1>4. ASSUME NEW t \in Tabs, RefreshRefused(t) PROVE TokensSafe'
  <2>1. CASE MayRetry(t)
    BY <2>1, <1>4, PauseSafe DEF RefreshRefused, storageVars
  <2>2. CASE ~MayRetry(t)
    <3>1. /\ refresh'[t] = NoRefresh /\ \A u \in Tabs \ {t} : refresh'[u] = refresh[u]
          /\ legacy' = NoToken /\ ~Rotated(t)
          /\ UNCHANGED <<token, cookie, logout, alarm, lost, crossed>>
      BY <2>2, <1>4 DEF RefreshRefused, EndRefresh, ClearStorage, Rotated, Typed
    <3> QED
      BY <3>1, DropSafe
  <2> QED
    BY <2>1, <2>2
<1>5. ASSUME NEW t \in Tabs, RetryRefresh(t) PROVE TokensSafe'
  BY <1>5, RetrySafe
<1>6. ASSUME NEW t \in Tabs, RefreshFails(t) PROVE TokensSafe'
  <2>1. /\ refresh'[t] = NoRefresh /\ \A u \in Tabs \ {t} : refresh'[u] = refresh[u]
        /\ lost' = (lost \/ Rotated(t))
        /\ UNCHANGED <<token, cookie, legacy, logout, alarm, crossed>>
    BY <1>6 DEF RefreshFails, EndRefresh, Typed, storageVars
  <2> QED
    BY <2>1, DropSafe
<1>7. ASSUME NEW t \in Tabs, Login(t) PROVE TokensSafe'
  BY <1>7, LoginSafe
<1>8. ASSUME NEW t \in Tabs, Logout(t) PROVE TokensSafe'
  BY <1>8, LogoutSafe
<1>9. ASSUME NEW t \in Tabs, ServeLogout(t) PROVE TokensSafe'
  BY <1>9, ServeLogoutSafe
<1>10. ASSUME NEW t \in Tabs, LogoutEnds(t) PROVE TokensSafe'
  BY <1>10, LogoutEndsSafe
<1>11. ASSUME NEW t \in Tabs, CloseTab(t) PROVE TokensSafe'
  <2>1. /\ refresh'[t] = NoRefresh /\ logout'[t] = NoLogout
        /\ \A u \in Tabs \ {t} : refresh'[u] = refresh[u] /\ logout'[u] = logout[u] /\ crossed'[u] = crossed[u]
        /\ lost' = (lost \/ Rotated(t) \/ logout[t].at = "back")
        /\ UNCHANGED <<token, cookie, legacy, alarm>>
    BY <1>11 DEF CloseTab, EndRefresh, NoLogout, Typed, storageVars
  <2> QED
    BY <2>1, DropSafe
<1>12. ASSUME NEW t \in Tabs, AccessExpires(t) PROVE TokensSafe'
  BY <1>12, QuietSafe DEF AccessExpires, storageVars
<1>13. ASSUME NEW c \in Calls, Request(c) PROVE TokensSafe'
  BY <1>13, QuietSafe DEF Request, storageVars
<1>14. ASSUME NEW c \in Calls, CallRefused(c) PROVE TokensSafe'
  <2>1. TabOf[c] \in Tabs
    BY BrowserAssumption
  <2>2. CASE HasSession /\ refresh[TabOf[c]].at = "none"
    BY <2>1, <2>2, <1>14, StartSafe DEF CallRefused, storageVars
  <2>3. CASE ~(HasSession /\ refresh[TabOf[c]].at = "none")
    BY <2>3, <1>14, QuietSafe DEF CallRefused, ClearStorage, storageVars
  <2> QED
    BY <2>2, <2>3
<1>15. ASSUME NEW c \in Calls, RetryRefused(c) PROVE TokensSafe'
  BY <1>15, QuietSafe DEF RetryRefused, ClearStorage
<1>16. ASSUME NEW c \in Calls, CallAnswered(c) PROVE TokensSafe'
  BY <1>16, QuietSafe DEF CallAnswered, storageVars
<1>17. ASSUME NEW k \in Tokens, GraceEnds(k) PROVE TokensSafe'
  BY <1>17, GraceSafe
<1>18. CASE UNCHANGED browserVars
  BY <1>18, QuietSafe DEF browserVars, storageVars
<1> QED
  BY <1>1, <1>2, <1>3, <1>4, <1>5, <1>6, <1>7, <1>8, <1>9, <1>10, <1>11, <1>12, <1>13, <1>14, <1>15, <1>16,
     <1>17, <1>18 DEF SessionNext, RefreshSteps, CallSteps

-----------------------------------------------------------------------------
(* The theorems.                                                           *)

LEMMA BrowserInvariant == SessionSpec => []BrowserInv
<1>1. SessionInit => BrowserInv
  BY TypedInit, TabsInit, TokensInit DEF BrowserInv
<1>2. BrowserInv /\ [SessionNext]_browserVars => BrowserInv'
  BY TypedStep, TabsStep, TokensStep DEF BrowserInv
<1> QED
  BY <1>1, <1>2, PTL DEF SessionSpec

\* Whatever the tabs of a browser do, in whatever order they refresh, sign in
\* and sign out, the service never takes their tokens for a leak unless an
\* answer that gave a token up was lost (auth.go, Refresh; auth-interceptor.ts,
\* refreshOnce).
THEOREM TabsRaiseNoAlarm == SessionSpec => []NoFalseAlarm
<1>1. BrowserInv => NoFalseAlarm
  BY DEF BrowserInv, TokensSafe, NothingTooOld, NoFalseAlarm
<1> QED
  BY <1>1, BrowserInvariant, PTL

(* A tab that is signed out in the step that drops its refused refresh has *)
(* been refused for good: no other step does both.                         *)
LEMMA RefusalIsSeen ==
    ASSUME Typed, TabsInOrder, [SessionNext]_browserVars, NEW t \in Tabs,
           refresh[t].answer = "unauthorized", refresh'[t] = NoRefresh, tab'[t] = SignedOut
    PROVE  RefreshRefused(t) /\ ~MayRetry(t)
<1>1. /\ NoRefresh.at = "none" /\ NoRefresh.answer = "none" /\ SignedOut # ClosedTab
      /\ refresh[t].at # "none" /\ refresh'[t] # refresh[t]
  BY DEF NoRefresh, SignedOut, ClosedTab, TabsInOrder, TabInOrder
<1>2. ASSUME NEW u \in Tabs, OpenTab(u) PROVE FALSE
  <2>1. refresh[u].at = "none"
    BY <1>2, NotClosed DEF OpenTab, TabsInOrder, TabInOrder
  <2> QED
    BY <2>1, <1>1, <1>2 DEF OpenTab, StartRefresh, Typed
<1>3. ASSUME NEW u \in Tabs, ServeRefresh(u) PROVE FALSE
  <2>1. PICK a \in {"invalid", "rotated", "unauthorized"}, n \in MaybeToken :
           refresh' = [refresh EXCEPT ![u].at = "back", ![u].answer = a, ![u].next = n]
    BY <1>3, PiecesTyped DEF ServeRefresh
  <2>2. refresh'[u].at = "back" /\ \A v \in Tabs \ {u} : refresh'[v] = refresh[v]
    BY <2>1, AnswerGiven DEF IsBack
  <2> QED
    BY <2>2, <1>1
<1>4. ASSUME NEW u \in Tabs, RefreshSucceeds(u) PROVE FALSE
  BY <1>1, <1>4 DEF RefreshSucceeds, Rotated, EndRefresh, Typed
<1>5. ASSUME NEW u \in Tabs, RefreshRefused(u) PROVE u = t /\ ~MayRetry(t)
  <2>1. CASE MayRetry(u)
    <3>1. refresh'[u].at = "pause" /\ \A v \in Tabs \ {u} : refresh'[v] = refresh[v]
      BY <2>1, <1>5 DEF RefreshRefused, Typed, Refresh
    <3> QED
      BY <3>1, <1>1
  <2>2. CASE ~MayRetry(u)
    <3>1. \A v \in Tabs \ {u} : refresh'[v] = refresh[v]
      BY <2>2, <1>5 DEF RefreshRefused, EndRefresh, Typed
    <3> QED
      BY <3>1, <2>2, <1>1
  <2> QED
    BY <2>1, <2>2
<1>6. ASSUME NEW u \in Tabs, RetryRefresh(u) PROVE FALSE
  BY <1>1, <1>6, NotClosed DEF RetryRefresh, Typed
<1>7. ASSUME NEW u \in Tabs, RefreshFails(u) PROVE FALSE
  BY <1>1, <1>7 DEF RefreshFails, EndRefresh, Typed
<1>8. ASSUME NEW u \in Tabs, CloseTab(u) PROVE FALSE
  BY <1>1, <1>8 DEF CloseTab, EndRefresh, Typed
<1>9. ASSUME NEW c \in Calls, CallRefused(c) PROVE FALSE
  <2>1. TabOf[c] \in Tabs
    BY BrowserAssumption
  <2>2. CASE refresh[TabOf[c]].at = "none"
    BY <2>1, <2>2, <1>1, <1>9 DEF CallRefused, StartRefresh, Typed
  <2>3. CASE refresh[TabOf[c]].at # "none"
    BY <2>3, <1>1, <1>9 DEF CallRefused
  <2> QED
    BY <2>2, <2>3
<1>10. ~UNCHANGED refresh
  BY <1>1
<1>11. ASSUME NEW u \in Tabs, Login(u) \/ Logout(u) \/ ServeLogout(u) \/ LogoutEnds(u) \/ AccessExpires(u)
       PROVE  FALSE
  BY <1>10, <1>11 DEF Login, Logout, ServeLogout, LogoutEnds, AccessExpires
<1>12. ASSUME NEW c \in Calls, Request(c) \/ RetryRefused(c) \/ CallAnswered(c) PROVE FALSE
  BY <1>10, <1>12 DEF Request, RetryRefused, CallAnswered
<1>13. ASSUME NEW k \in Tokens, GraceEnds(k) PROVE FALSE
  BY <1>10, <1>13 DEF GraceEnds
<1>14. ~UNCHANGED browserVars
  BY <1>10 DEF browserVars
<1> QED
  BY <1>2, <1>3, <1>4, <1>5, <1>6, <1>7, <1>8, <1>9, <1>11, <1>12, <1>13, <1>14
     DEF SessionNext, RefreshSteps, CallSteps

\* A refused refresh signs a tab out only when the stored session is over, an
\* answer was lost, or its second try crossed another tab's refresh, sign-in
\* or logout (auth-repository.ts, refreshSession).
THEOREM RacesKeepSession == SessionSpec => RacingTabsKeepSession
<1> DEFINE Kept == \A t \in Tabs :
                     refresh[t].answer = "unauthorized" /\ refresh'[t] = NoRefresh /\ tab'[t] = SignedOut
                        => lost \/ crossed[t] \/ cookie = NoToken \/ token[cookie] # "live"
<1>1. ASSUME BrowserInv, [SessionNext]_browserVars, NEW t \in Tabs,
             refresh[t].answer = "unauthorized", refresh'[t] = NoRefresh, tab'[t] = SignedOut
      PROVE  lost \/ crossed[t] \/ cookie = NoToken \/ token[cookie] # "live"
  <2>1. RefreshRefused(t) /\ ~MayRetry(t)
    BY <1>1, RefusalIsSeen DEF BrowserInv
  <2>2. refresh[t].try = 2
    BY <2>1, <1>1 DEF RefreshRefused, MayRetry, BrowserInv, TabsInOrder, TabInOrder, Typed, Refresh
  <2>3. crossed[t] \/ cookie \in {NoToken, refresh[t].sent}
    BY <2>2, <1>1 DEF BrowserInv, TokensSafe, SecondTryIsAlone
  <2> QED
    BY <2>3, <1>1 DEF BrowserInv, TokensSafe, RefusedIsNotLive
<1>2. BrowserInv /\ [SessionNext]_browserVars => [Kept]_browserVars
  BY <1>1
<1>3. SessionSpec => [][Kept]_browserVars
  BY <1>2, BrowserInvariant, PTL DEF SessionSpec
<1> QED
  BY <1>3 DEF RacingTabsKeepSession

=============================================================================
