--------------------------- MODULE SessionsProofs ---------------------------
(***************************************************************************)
(* Proofs about Sessions, for any number of accounts, tokens, requests and *)
(* any bounds.                                                             *)
(*                                                                         *)
(* The inductive invariant ties the table to the requests in flight: who   *)
(* holds which row, which drawn token belongs to an open transaction, and  *)
(* what a revoking statement has already made sure of.                     *)
(***************************************************************************)
EXTENDS Sessions, TLAPS

\* Drawn, and not the unpublished row of an open rotation.
Settled(t) == t \in drawn /\ \A p \in Procs : Rotating(p) => req[p].next # t

RowInv == \A t \in Tokens : Stored(t) => Settled(t) /\ Settled(row[t].login)

HoldInv ==
    \A p \in Procs : \A t \in req[p].held :
       Live(t) /\ req[p].pc \in {"commit", "scan"}

HoldExclusive == \A p, q \in Procs : \A t \in Tokens :
    t \in req[p].held /\ t \in req[q].held => p = q

RotateInv ==
    \A p \in Procs : Rotating(p) =>
       /\ req[p].tok \in Tokens
       /\ req[p].next \in drawn
       /\ users[req[p].user].exists
       /\ req[p].pc = "commit" => req[p].tok \in req[p].held

NextExclusive == \A p, q \in Procs :
    Rotating(p) /\ Rotating(q) /\ req[p].next = req[q].next => p = q

ScanInv ==
    \A p \in Procs : \A t \in req[p].chosen :
       /\ Settled(t)
       /\ req[p].pc = "scan"
       /\ t \notin req[p].pend /\ t \notin req[p].held => ~Live(t)

DoomInv == \A t \in doomed : Settled(t) /\ ~Live(t)

SInv ==
    /\ RowInv
    /\ HoldInv
    /\ HoldExclusive
    /\ RotateInv
    /\ NextExclusive
    /\ ScanInv
    /\ DoomInv
    /\ OneLivePerLogin
    /\ NoOrphanSession

IInv == TypeOK /\ SInv

-----------------------------------------------------------------------------
(* Idle is a request. *)
LEMMA IdleIsRequest == Idle \in Request
  BY DEF Idle, Request, PCs, Ops

(* A request that begins a revoking statement is a request.                *)
LEMMA ScanIsRequest ==
    ASSUME NEW r \in Request, NEW S \in SUBSET Tokens, now \in Nat
    PROVE  [r EXCEPT !.pc = "scan", !.pend = S, !.chosen = S, !.at = now] \in Request
  BY DEF Request, PCs

(* What TypeOK says of one request.                                        *)
RequestOK(r) ==
    /\ r \in Request
    /\ r.pc \in {"create", "setPassword"} => r.user \in Users
    /\ r.pc \in {"readUser", "insert", "revokeOld", "commit"}
         => r.user \in Users /\ r.tok \in Tokens

(* The fields of the records that the steps of Rotate put in a request's   *)
(* place, and that those are requests.                                     *)
LEMMA RotateFields ==
    ASSUME NEW r \in Request, NEW t, NEW i
    PROVE  /\ LET n == [r EXCEPT !.pc = "insert"]
              IN  n.pc = "insert" /\ n.user = r.user /\ n.tok = r.tok
           /\ LET n == [r EXCEPT !.pc = "revokeOld", !.next = t, !.at = i]
              IN  /\ n.pc = "revokeOld" /\ n.next = t /\ n.user = r.user /\ n.tok = r.tok
                  /\ n.held = r.held /\ n.chosen = r.chosen
           /\ LET n == [r EXCEPT !.pc = "commit", !.held = {t}]
              IN  /\ n.pc = "commit" /\ n.held = {t} /\ n.user = r.user /\ n.tok = r.tok
                  /\ n.next = r.next /\ n.chosen = r.chosen
  BY DEF Request

LEMMA RotateRecords ==
    ASSUME NEW r \in Request, r.user \in Users, r.tok \in Tokens, NEW t \in Tokens, NEW i \in Nat
    PROVE  /\ RequestOK([r EXCEPT !.pc = "insert"])
           /\ RequestOK([r EXCEPT !.pc = "revokeOld", !.next = t, !.at = i])
           /\ RequestOK([r EXCEPT !.pc = "commit", !.held = {t}])
<1>1. \A n \in Request : n.user = r.user /\ n.tok = r.tok => RequestOK(n)
  BY DEF RequestOK
<1>2. "insert" \in PCs /\ "revokeOld" \in PCs /\ "commit" \in PCs
  BY DEF PCs
<1>3. RequestOK([r EXCEPT !.pc = "insert"])
  <2> DEFINE n == [r EXCEPT !.pc = "insert"]
  <2>1. n \in Request
    BY <1>2 DEF Request
  <2>2. n.user = r.user /\ n.tok = r.tok
    BY DEF Request
  <2>3. QED
    BY <1>1, <2>1, <2>2
<1>4. RequestOK([r EXCEPT !.pc = "revokeOld", !.next = t, !.at = i])
  <2> DEFINE n == [r EXCEPT !.pc = "revokeOld", !.next = t, !.at = i]
  <2>1. n \in Request
    BY <1>2 DEF Request
  <2>2. n.user = r.user /\ n.tok = r.tok
    BY RotateFields
  <2>3. QED
    BY <1>1, <2>1, <2>2
<1>5. RequestOK([r EXCEPT !.pc = "commit", !.held = {t}])
  <2> DEFINE n == [r EXCEPT !.pc = "commit", !.held = {t}]
  <2>1. n \in Request
    <3>1. \A H \in SUBSET Tokens : [r EXCEPT !.pc = "commit", !.held = H] \in Request
      BY <1>2 DEF Request
    <3>2. QED
      BY <3>1
  <2>2. n.user = r.user /\ n.tok = r.tok
    BY RotateFields
  <2>3. QED
    BY <1>1, <2>1, <2>2
<1>6. QED
  BY <1>3, <1>4, <1>5

(* Replacing one well-formed request by another keeps them well-formed.    *)
LEMMA RequestUpdate ==
    ASSUME TypeOK, NEW p \in Procs, NEW r, RequestOK(r), req' = [req EXCEPT ![p] = r]
    PROVE  req' \in [Procs -> Request] /\ \A q \in Procs : RequestOK(req'[q])
  BY DEF TypeOK, RequestOK

(* A step that only moves one request keeps the types.                     *)
LEMMA TypeOfRequestStep ==
    ASSUME TypeOK, NEW p \in Procs, NEW r, RequestOK(r), req' = [req EXCEPT ![p] = r],
           now' \in Nat, users' \in [Users -> [exists: BOOLEAN, pwd: Nat]],
           row' \in [Tokens -> Row], drawn' \subseteq Tokens,
           promised' \in [Users -> Nat], doomed' \subseteq Tokens
    PROVE  TypeOK'
  BY RequestUpdate DEF TypeOK, RequestOK

LEMMA IdleOK == RequestOK(Idle)
  BY IdleIsRequest DEF RequestOK, Idle

(* Type correctness: every variable keeps its shape (Sessions' TypeOK).    *)
THEOREM TypeCorrect == Spec => []TypeOK
<1> USE SessionsAssumption
<1>1. Init => TypeOK
  BY IdleIsRequest DEF Init, TypeOK, NoRow, Row, Idle, Never
<1>2. TypeOK /\ [Next]_vars => TypeOK'
  <2> SUFFICES ASSUME TypeOK, [Next]_vars PROVE TypeOK'
    OBVIOUS
  <2>0. /\ now \in Nat
        /\ users \in [Users -> [exists: BOOLEAN, pwd: Nat]]
        /\ row \in [Tokens -> Row]
        /\ drawn \subseteq Tokens
        /\ promised \in [Users -> Nat]
        /\ doomed \subseteq Tokens
        /\ req \in [Procs -> Request]
        /\ \A q \in Procs : RequestOK(req[q])
    BY DEF TypeOK, RequestOK
  <2>1. ASSUME NEW p \in Procs, NEW t \in Tokens, CreateSession(p, t) PROVE TypeOK'
    <3>1. NewRow(req[p].user, now, t, req[p].pwd) \in Row
      BY <2>0 DEF NewRow, Row, Request, Never
    <3>2. row' \in [Tokens -> Row]
      BY <2>0, <2>1, <3>1 DEF CreateSession
    <3>3. QED
      BY <2>0, <2>1, <3>2, IdleOK, TypeOfRequestStep DEF CreateSession, Finish
  <2>2. ASSUME NEW p \in Procs, RefreshUser(p) PROVE TypeOK'
    <3>1. CASE users[req[p].user].exists
      <4>1. RequestOK([req[p] EXCEPT !.pc = "insert"])
        <5>1. req[p] \in Request /\ req[p].user \in Users /\ req[p].tok \in Tokens
          BY <2>0, <2>2 DEF RefreshUser, RequestOK
        <5>2. QED
          BY <2>0, <5>1, RotateRecords
      <4>2. QED
        BY <2>0, <2>2, <3>1, <4>1, TypeOfRequestStep DEF RefreshUser, Goto
    <3>2. CASE ~users[req[p].user].exists
      BY <2>0, <2>2, <3>2, IdleOK, TypeOfRequestStep DEF RefreshUser, Finish
    <3>3. QED
      BY <3>1, <3>2
  <2>3. ASSUME NEW p \in Procs, NEW n \in Tokens, RotateInsert(p, n) PROVE TypeOK'
    <3>1. CASE ForeignKey(req[p].user)
      <4>1. RequestOK([req[p] EXCEPT !.pc = "revokeOld", !.next = n, !.at = now])
        <5>1. req[p] \in Request /\ req[p].user \in Users /\ req[p].tok \in Tokens
          BY <2>0, <2>3 DEF RotateInsert, RequestOK
        <5>2. QED
          BY <2>0, <5>1, RotateRecords
      <4>2. req' = [req EXCEPT ![p] = [req[p] EXCEPT !.pc = "revokeOld", !.next = n, !.at = now]]
        BY <2>3, <3>1 DEF RotateInsert
      <4>3. QED
        BY <2>0, <2>3, <4>1, <4>2, TypeOfRequestStep DEF RotateInsert
    <3>2. CASE ~ForeignKey(req[p].user)
      BY <2>0, <2>3, <3>2, IdleOK, TypeOfRequestStep DEF RotateInsert, Finish
    <3>3. QED
      BY <3>1, <3>2
  <2>4. ASSUME NEW p \in Procs, RotateRevoke(p) PROVE TypeOK'
    <3>1. CASE MayRotate(p)
      <4>1. RequestOK([req[p] EXCEPT !.pc = "commit", !.held = {req[p].tok}])
        <5>1. req[p] \in Request /\ req[p].user \in Users /\ req[p].tok \in Tokens
          BY <2>0, <2>4 DEF RotateRevoke, RequestOK
        <5>2. QED
          BY <2>0, <5>1, RotateRecords
      <4>2. req' = [req EXCEPT ![p] = [req[p] EXCEPT !.pc = "commit", !.held = {req[p].tok}]]
        BY <2>4, <3>1 DEF RotateRevoke
      <4>3. QED
        BY <2>0, <2>4, <4>1, <4>2, TypeOfRequestStep DEF RotateRevoke
    <3>2. CASE ~MayRotate(p)
      BY <2>0, <2>4, <3>2, IdleOK, TypeOfRequestStep DEF RotateRevoke, Finish
    <3>3. QED
      BY <3>1, <3>2
  <2>5. ASSUME NEW p \in Procs, RotateCommit(p) PROVE TypeOK'
    <3> DEFINE old == req[p].tok
               new == req[p].next
               o == [row[old] EXCEPT !.revoked = req[p].at, !.replacedBy = new]
               n == NewRow(req[p].user, req[p].at, row[old].login, row[old].pwd)
    <3>1. old \in Tokens /\ req[p].user \in Users
      BY <2>0, <2>5 DEF RotateCommit, RequestOK
    <3>2. req[p].at \in Nat /\ new \in Tokens \cup {NoToken}
      BY <2>0 DEF Request
    <3>3. o \in Row
      <4>1. \A r \in Row, x \in Nat, y \in Tokens \cup {NoToken} :
               [r EXCEPT !.revoked = x, !.replacedBy = y] \in Row
        BY DEF Row
      <4>2. row[old] \in Row
        BY <2>0, <3>1
      <4>3. QED
        BY <3>2, <4>1, <4>2
    <3>4. n \in Row
      BY <2>0, <3>1, <3>2 DEF Row, NewRow, Never
    <3>5. row' = [row EXCEPT ![old] = o, ![new] = n]
      BY <2>5 DEF RotateCommit
    <3>6. row' \in [Tokens -> Row]
      BY <2>0, <3>3, <3>4, <3>5
    <3>7. QED
      BY <2>0, <2>5, <3>6, IdleOK, TypeOfRequestStep DEF RotateCommit, Finish
  <2>6. ASSUME NEW p \in Procs, RevokeAllStart(p) PROVE TypeOK'
    <3> DEFINE S == {t \in Tokens : Live(t) /\ row[t].user = req[p].user}
               r == [req[p] EXCEPT !.pc = "scan", !.pend = S, !.chosen = S, !.at = now]
    <3>1. r \in Request
      BY <2>0, ScanIsRequest
    <3>2. RequestOK(r)
      BY <2>0, <3>1 DEF RequestOK, Request
    <3>3. req' = [req EXCEPT ![p] = r]
      BY <2>6 DEF RevokeAllStart, BeginScan
    <3> HIDE DEF r
    <3>4. QED
      BY <2>0, <2>6, <3>2, <3>3, TypeOfRequestStep DEF RevokeAllStart
  <2>7. ASSUME NEW p \in Procs, NEW t \in Tokens, ScanRow(p, t) PROVE TypeOK'
    <3> DEFINE P == req[p].pend \ {t}
               H == IF Recheck(t) THEN req[p].held \cup {t} ELSE req[p].held
               r == [req[p] EXCEPT !.pend = P, !.held = H]
    <3>1. P \in SUBSET Tokens /\ H \in SUBSET Tokens
      BY <2>0 DEF Request
    <3>2. req' = [req EXCEPT ![p] = r]
      BY <2>7 DEF ScanRow
    <3> HIDE DEF P, H
    <3>3. RequestOK(r)
      <4>1. \A x \in Request, A \in SUBSET Tokens, B \in SUBSET Tokens :
               [x EXCEPT !.pend = A, !.held = B] \in Request
        BY DEF Request
      <4>2. \A x \in Request : \A A, B : [x EXCEPT !.pend = A, !.held = B].pc = x.pc
        BY DEF Request
      <4>3. req[p] \in Request /\ req[p].pc = "scan"
        BY <2>0, <2>7 DEF ScanRow
      <4>4. r \in Request /\ r.pc = "scan"
        BY <3>1, <4>1, <4>2, <4>3
      <4>5. QED
        BY <4>4 DEF RequestOK
    <3> HIDE DEF r
    <3>4. QED
      BY <2>0, <2>7, <3>2, <3>3, TypeOfRequestStep DEF ScanRow
  <2>8. ASSUME NEW p \in Procs, RevokeCommit(p) PROVE TypeOK'
    <3>1. req[p].at \in Nat /\ req[p].pwd \in Nat /\ req[p].chosen \subseteq Tokens
      BY <2>0 DEF Request
    <3>2. \A t \in Tokens : [row[t] EXCEPT !.revoked = req[p].at] \in Row
      BY <2>0, <3>1 DEF Row
    <3>3. row' \in [Tokens -> Row]
      BY <2>0, <2>8, <3>2 DEF RevokeCommit
    <3>4. promised' \in [Users -> Nat] /\ doomed' \subseteq Tokens
      BY <2>0, <2>8, <3>1 DEF RevokeCommit
    <3>5. QED
      BY <2>0, <2>8, <3>3, <3>4, IdleOK, TypeOfRequestStep DEF RevokeCommit, Finish
  <2>9. ASSUME NEW p \in Procs, UpdatePassword(p) PROVE TypeOK'
    <3> DEFINE u == req[p].user
    <3>1. u \in Users
      BY <2>0, <2>9 DEF UpdatePassword, RequestOK
    <3>2. CASE users[u].exists
      <4>1. RequestOK([req[p] EXCEPT !.pc = "revokeAll", !.pwd = users[u].pwd + 1])
        <5>1. users[u].pwd + 1 \in Nat
          BY <2>0, <3>1
        <5>2. \A r \in Request, n \in Nat : RequestOK([r EXCEPT !.pc = "revokeAll", !.pwd = n])
          <6> SUFFICES ASSUME NEW r \in Request, NEW n \in Nat
                       PROVE  RequestOK([r EXCEPT !.pc = "revokeAll", !.pwd = n])
            OBVIOUS
          <6> DEFINE m == [r EXCEPT !.pc = "revokeAll", !.pwd = n]
          <6>1. "revokeAll" \in PCs
            BY DEF PCs
          <6>2. m \in Request /\ m.pc = "revokeAll"
            BY <6>1 DEF Request
          <6> HIDE DEF m
          <6>3. QED
            BY <6>2 DEF RequestOK, m
        <5>3. QED
          BY <2>0, <5>1, <5>2
      <4>2. users' \in [Users -> [exists: BOOLEAN, pwd: Nat]]
        BY <2>0, <2>9, <3>1, <3>2 DEF UpdatePassword
      <4>3. req' = [req EXCEPT ![p] = [req[p] EXCEPT !.pc = "revokeAll", !.pwd = users[u].pwd + 1]]
        BY <2>9, <3>2 DEF UpdatePassword
      <4>4. QED
        BY <2>0, <2>9, <4>1, <4>2, <4>3, TypeOfRequestStep DEF UpdatePassword
    <3>3. CASE ~users[u].exists
      BY <2>0, <2>9, <3>3, IdleOK, TypeOfRequestStep DEF UpdatePassword, Finish
    <3>4. QED
      BY <3>2, <3>3
  <2>10. ASSUME NEW p \in Procs, DeadlockAbort(p) \/ Cancel(p) PROVE TypeOK'
    BY <2>0, <2>10, IdleOK, TypeOfRequestStep DEF DeadlockAbort, Cancel, Finish
  <2>11. ASSUME NEW p \in Procs, Arrive(p) PROVE TypeOK'
    <3>1. ASSUME NEW u \in Users, LoginRead(p, u) PROVE TypeOK'
      <4>1. RequestOK([Idle EXCEPT !.pc = "create", !.op = "login", !.user = u,
                                   !.pwd = users[u].pwd])
        BY <2>0 DEF RequestOK, Idle, Request, PCs, Ops
      <4>2. QED
        BY <2>0, <3>1, <4>1, TypeOfRequestStep DEF LoginRead
    <3>2. ASSUME NEW u \in Users, ChangePasswordRead(p, u) PROVE TypeOK'
      <4>1. RequestOK([Idle EXCEPT !.pc = "setPassword", !.op = "changePassword", !.user = u])
        BY DEF RequestOK, Idle, Request, PCs, Ops
      <4>2. QED
        BY <2>0, <3>2, <4>1, TypeOfRequestStep DEF ChangePasswordRead
    <3>3. ASSUME NEW u \in Users, UpdateRole(p, u) PROVE TypeOK'
      <4>1. RequestOK([Idle EXCEPT !.pc = "revokeAll", !.op = "updateRole", !.user = u])
        BY DEF RequestOK, Idle, Request, PCs, Ops
      <4>2. QED
        BY <2>0, <3>3, <4>1, TypeOfRequestStep DEF UpdateRole
    <3>4. ASSUME NEW t \in Tokens, RefreshRead(p, t) PROVE TypeOK'
      <4>1. /\ row[t].user \in Users \cup {NoUser}
            /\ row[t].replacedBy \in Tokens \cup {NoToken}
            /\ Stored(t) => row[t].user \in Users
        BY <2>0 DEF Row, Stored
      <4>2. CASE Active(t)
        <5>1. RequestOK([Idle EXCEPT !.pc = "readUser", !.op = "refresh",
                                     !.user = row[t].user, !.tok = t])
          BY <4>1, <4>2 DEF Active, Live, RequestOK, Idle, Request, PCs, Ops
        <5>2. QED
          BY <2>0, <3>4, <4>2, <5>1, TypeOfRequestStep DEF RefreshRead
      <4>3. CASE ~Active(t)
        <5>1. RequestOK([Idle EXCEPT !.pc = "revokeAll", !.op = "refresh",
                                     !.user = row[t].user, !.tok = t,
                                     !.next = row[t].replacedBy])
          BY <4>1 DEF RequestOK, Idle, Request, PCs, Ops
        <5>2. QED
          BY <2>0, <3>4, <4>3, <5>1, TypeOfRequestStep DEF RefreshRead
      <4>4. QED
        BY <4>2, <4>3
    <3>5. ASSUME NEW t \in Tokens, Logout(p, t) PROVE TypeOK'
      <4> DEFINE S == {s \in {t} : Live(s)}
                 l == [Idle EXCEPT !.op = "logout", !.user = row[t].user, !.tok = t]
                 r == [l EXCEPT !.pc = "scan", !.pend = S, !.chosen = S, !.at = now]
      <4>1. row[t].user \in Users \cup {NoUser}
        BY <2>0 DEF Row
      <4>2. l \in Request
        BY <4>1 DEF Idle, Request, PCs, Ops
      <4>3. S \in SUBSET Tokens
        OBVIOUS
      <4> HIDE DEF l, S
      <4>4. r \in Request
        BY <2>0, <4>2, <4>3, ScanIsRequest
      <4>5. RequestOK(r)
        BY <4>2, <4>4 DEF RequestOK, Request
      <4>6. req' = [req EXCEPT ![p] = r]
        BY <3>5 DEF Logout, BeginScan, l, S
      <4> HIDE DEF r
      <4>7. QED
        BY <2>0, <3>5, <4>5, <4>6, TypeOfRequestStep DEF Logout
    <3>6. QED
      BY <2>11, <3>1, <3>2, <3>3, <3>4, <3>5 DEF Arrive
  <2>12. ASSUME NEW u \in Users, DeleteUser(u) PROVE TypeOK'
    <3>1. NoRow \in Row
      BY DEF NoRow, Row, Never
    <3>2. row' \in [Tokens -> Row] /\ users' \in [Users -> [exists: BOOLEAN, pwd: Nat]]
      BY <2>0, <2>12, <3>1 DEF DeleteUser
    <3>3. QED
      BY <2>12, <3>2 DEF DeleteUser, TypeOK
  <2>13. CASE DeleteExpired
    <3>1. NoRow \in Row
      BY DEF NoRow, Row, Never
    <3>2. \A t \in Tokens : [row[t] EXCEPT !.replacedBy = NoToken] \in Row
      BY <2>0 DEF Row
    <3>3. row' \in [Tokens -> Row]
      BY <2>0, <2>13, <3>1, <3>2 DEF DeleteExpired
    <3>4. QED
      BY <2>13, <3>3 DEF DeleteExpired, TypeOK
  <2>14. CASE Tick
    BY <2>14 DEF Tick, TypeOK
  <2>15. CASE UNCHANGED vars
    BY <2>15 DEF vars, TypeOK
  <2>16. QED
    BY <2>1, <2>2, <2>3, <2>4, <2>5, <2>6, <2>7, <2>8, <2>9, <2>10, <2>11, <2>12,
       <2>13, <2>14, <2>15 DEF Next, Step
<1>3. QED
  BY <1>1, <1>2, PTL DEF Spec

-----------------------------------------------------------------------------
(* Where a request comes from matters only through what it holds: one that *)
(* moves to, or falls back to, a state in which it holds no row, no        *)
(* unpublished row and no choice of rows disturbs nothing.                 *)
LEMMA QuietStep ==
    ASSUME TypeOK, SInv, NEW p \in Procs, NEW r,
           r.pc \notin {"revokeOld", "commit"}, r.held = {}, r.chosen = {},
           req' = [req EXCEPT ![p] = r],
           row' = row, doomed' = doomed, drawn \subseteq drawn',
           \A u \in Users : users'[u].exists = users[u].exists
    PROVE  SInv'
<1> USE DEF Settled, Rotating, Live, Stored
<1>0. /\ req \in [Procs -> Request]
      /\ req'[p] = r
      /\ \A q \in Procs \ {p} : req'[q] = req[q]
      /\ \A q \in Procs : Rotating(q)' => q # p /\ Rotating(q)
      /\ \A t : Settled(t) => Settled(t)'
      /\ \A t \in Tokens : row[t].user \in Users \cup {NoUser}
      /\ \A q \in Procs : Rotating(q) => req[q].user \in Users
  BY DEF TypeOK, Row
<1>1. RowInv'
  BY <1>0 DEF SInv, RowInv
<1>2. HoldInv'
  BY <1>0 DEF SInv, HoldInv
<1>3. HoldExclusive'
  BY <1>0 DEF SInv, HoldExclusive
<1>4. RotateInv'
  BY <1>0 DEF SInv, RotateInv
<1>5. NextExclusive'
  BY <1>0 DEF SInv, NextExclusive
<1>6. ScanInv'
  BY <1>0 DEF SInv, ScanInv
<1>7. DoomInv'
  BY <1>0 DEF SInv, DoomInv
<1>8. OneLivePerLogin'
  BY <1>0 DEF SInv, OneLivePerLogin
<1>9. NoOrphanSession'
  BY <1>0 DEF SInv, NoOrphanSession
<1>10. QED
  BY <1>1, <1>2, <1>3, <1>4, <1>5, <1>6, <1>7, <1>8, <1>9 DEF SInv

(* Rows that go away or stop being live, while the locked ones stay: a     *)
(* revoking statement that ends, a deleted account, the janitor.           *)
LEMMA ShrinkStep ==
    ASSUME TypeOK, SInv, TypeOK', drawn' = drawn,
           \A q \in Procs : req'[q] = req[q] \/ req'[q] = Idle,
           \A t \in Tokens : Stored(t)' =>
              /\ Stored(t)
              /\ row'[t].login = row[t].login
              /\ users'[row'[t].user].exists,
           \A t \in Tokens : Live(t)' => Live(t),
           \A q \in Procs : \A t \in req'[q].held : Live(t)',
           \A q \in Procs : Rotating(q)' => users'[req'[q].user].exists,
           \A t \in doomed' : Settled(t)' /\ ~Live(t)'
    PROVE  SInv'
<1>0. /\ \A q \in Procs : req'[q].held \subseteq Tokens /\ req'[q].chosen \subseteq Tokens
      /\ \A q \in Procs : Rotating(q)' => req'[q] = req[q] /\ Rotating(q)
      /\ \A q \in Procs : \A t \in req'[q].held \cup req'[q].chosen : req'[q] = req[q]
      /\ \A t : Settled(t) => Settled(t)'
  <2>1. Idle.pc = "idle" /\ Idle.held = {} /\ Idle.chosen = {}
    BY DEF Idle
  <2>2. \A q \in Procs : req'[q] \in Request
    BY DEF TypeOK
  <2>3. \A q \in Procs : Rotating(q)' => req'[q] = req[q] /\ Rotating(q)
    BY <2>1 DEF Rotating
  <2>4. QED
    BY <2>1, <2>2, <2>3 DEF Settled, Request
<1>1. RowInv'
  BY <1>0 DEF SInv, RowInv
<1>2. HoldInv'
  BY <1>0 DEF SInv, HoldInv
<1>3. HoldExclusive'
  BY <1>0 DEF SInv, HoldExclusive
<1>4. RotateInv'
  BY <1>0 DEF SInv, RotateInv
<1>5. NextExclusive'
  BY <1>0 DEF SInv, NextExclusive
<1>6. ScanInv'
  BY <1>0 DEF SInv, ScanInv
<1>7. DoomInv'
  BY <1>0 DEF SInv, DoomInv
<1>8. OneLivePerLogin'
  BY <1>0 DEF SInv, OneLivePerLogin, Live
<1>9. NoOrphanSession'
  BY <1>0 DEF SInv, NoOrphanSession
<1>10. QED
  BY <1>1, <1>2, <1>3, <1>4, <1>5, <1>6, <1>7, <1>8, <1>9 DEF SInv

(* RevokeCommit keeps the invariant: every row it chose is held by it, and *)
(* revoked now, or had stopped being live when it was visited.             *)
LEMMA RevokeCommitSafe ==
    ASSUME TypeOK, SInv, TypeOK', NEW p \in Procs, RevokeCommit(p)
    PROVE  SInv'
<1>0. /\ req' = [req EXCEPT ![p] = Idle]
      /\ users' = users /\ drawn' = drawn
      /\ row' = [t \in Tokens |->
                   IF t \in req[p].held THEN [row[t] EXCEPT !.revoked = req[p].at] ELSE row[t]]
      /\ doomed' = doomed \cup req[p].chosen
      /\ req[p].pend = {} /\ req[p].pc = "scan"
      /\ req[p].at # Never
  BY SessionsAssumption DEF RevokeCommit, Finish, TypeOK, Request, Never
<1>1. \A q \in Procs : req'[q] = IF q = p THEN Idle ELSE req[q]
  BY <1>0 DEF TypeOK
<1>2. \A t \in Tokens : Stored(t)' = Stored(t) /\ row'[t].login = row[t].login
                        /\ row'[t].user = row[t].user
  BY <1>0 DEF TypeOK, Row, Stored
<1>3. \A t \in Tokens : Live(t)' <=> Live(t) /\ t \notin req[p].held
  <2>1. \A t \in Tokens : t \in req[p].held => row'[t].revoked = req[p].at
    BY <1>0 DEF TypeOK, Row
  <2>2. \A t \in Tokens : t \notin req[p].held => row'[t] = row[t]
    BY <1>0
  <2>3. QED
    BY <1>0, <1>2, <2>1, <2>2 DEF Live, Stored
<1>4. \A t \in Tokens : Stored(t)' => users'[row'[t].user].exists
  BY <1>0, <1>2 DEF SInv, NoOrphanSession
<1>5. \A q \in Procs : \A t \in req'[q].held : Live(t)'
  <2> SUFFICES ASSUME NEW q \in Procs, NEW t \in req'[q].held PROVE Live(t)'
    OBVIOUS
  <2>1. q # p /\ t \in req[q].held /\ t \in Tokens
    BY <1>1 DEF Idle, TypeOK, Request
  <2>2. t \notin req[p].held /\ Live(t)
    BY <2>1 DEF SInv, HoldExclusive, HoldInv
  <2>3. QED
    BY <1>3, <2>1, <2>2
<1>6. \A q \in Procs : Rotating(q)' => users'[req'[q].user].exists
  BY <1>0, <1>1 DEF Rotating, Idle, SInv, RotateInv
<1>7. \A t \in doomed' : Settled(t)' /\ ~Live(t)'
  <2> SUFFICES ASSUME NEW t \in doomed \cup req[p].chosen PROVE Settled(t)' /\ ~Live(t)'
    BY <1>0
  <2>1. t \in Tokens
    BY DEF TypeOK, Request
  <2>2. Settled(t) /\ (~Live(t) \/ t \in req[p].held)
    BY <1>0 DEF SInv, DoomInv, ScanInv
  <2>3. Settled(t)'
    BY <1>0, <1>1, <2>2 DEF Settled, Rotating, Idle
  <2>4. QED
    BY <1>3, <2>1, <2>2, <2>3
<1>8. QED
  BY <1>0, <1>1, <1>2, <1>3, <1>4, <1>5, <1>6, <1>7, ShrinkStep

(* DeleteUser waits for the account's open rotations, and its cascade for  *)
(* the locked rows; what is left belongs to other accounts.                *)
LEMMA DeleteUserSafe ==
    ASSUME TypeOK, SInv, TypeOK', NEW u \in Users, DeleteUser(u)
    PROVE  SInv'
<1>0. /\ req' = req /\ drawn' = drawn /\ doomed' = doomed
      /\ row' = [t \in Tokens |-> IF row[t].user = u THEN NoRow ELSE row[t]]
      /\ users' = [users EXCEPT ![u].exists = FALSE]
      /\ \A p \in Procs : ~HoldsUser(p, u)
      /\ \A t \in Tokens, p \in Procs : row[t].user = u => t \notin req[p].held
  BY DEF DeleteUser
<1>1. \A v \in Users : v # u => users'[v] = users[v]
  BY <1>0 DEF TypeOK
<1>2. \A t \in Tokens : IF row[t].user = u THEN ~Stored(t)' ELSE row'[t] = row[t]
  BY <1>0 DEF Stored, NoRow
<1>3. \A t \in Tokens : Stored(t)' => row'[t] = row[t] /\ row[t].user \in Users \ {u}
  BY <1>2 DEF Stored, TypeOK, Row
<1>4. \A t \in Tokens : Stored(t)' => users'[row'[t].user].exists
  BY <1>1, <1>3 DEF SInv, NoOrphanSession, Stored
<1>5. \A q \in Procs : \A t \in req'[q].held : Live(t)'
  <2> SUFFICES ASSUME NEW q \in Procs, NEW t \in req[q].held PROVE Live(t)'
    BY <1>0
  <2>1. t \in Tokens /\ Live(t)
    BY DEF SInv, HoldInv, TypeOK, Request
  <2>2. row'[t] = row[t]
    BY <1>0, <1>2, <2>1
  <2>3. QED
    BY <2>1, <2>2 DEF Live, Stored
<1>6. \A q \in Procs : Rotating(q)' => users'[req'[q].user].exists
  <2> SUFFICES ASSUME NEW q \in Procs, Rotating(q) PROVE users'[req[q].user].exists
    BY <1>0 DEF Rotating
  <2>1. req[q].user \in Users /\ req[q].user # u
    BY <1>0 DEF HoldsUser, TypeOK, Rotating
  <2>2. QED
    BY <1>1, <2>1 DEF SInv, RotateInv
<1>7. \A t \in doomed' : Settled(t)' /\ ~Live(t)'
  <2>1. \A t \in doomed : t \in Tokens
    BY DEF TypeOK
  <2>2. QED
    BY <1>0, <1>2, <2>1 DEF SInv, DoomInv, Settled, Rotating, Live, Stored
<1>8. QED
  BY <1>0, <1>3, <1>4, <1>5, <1>6, <1>7, ShrinkStep DEF Live, Stored

(* The janitor removes expired rows nobody has locked.                     *)
LEMMA DeleteExpiredSafe ==
    ASSUME TypeOK, SInv, TypeOK', DeleteExpired
    PROVE  SInv'
<1> DEFINE gone == {t \in Tokens : Stored(t) /\ row[t].expires < now}
<1>0. /\ req' = req /\ drawn' = drawn /\ doomed' = doomed /\ users' = users
      /\ row' = [t \in Tokens |->
                    IF t \in gone THEN NoRow
                    ELSE IF row[t].replacedBy \in gone
                         THEN [row[t] EXCEPT !.replacedBy = NoToken]
                         ELSE row[t]]
      /\ \A t \in gone, p \in Procs : t \notin req[p].held
  BY DEF DeleteExpired
<1> HIDE DEF gone
<1>1. \A t \in Tokens : IF t \in gone THEN ~Stored(t)'
                        ELSE /\ row'[t].user = row[t].user
                             /\ row'[t].login = row[t].login
                             /\ row'[t].revoked = row[t].revoked
  BY <1>0 DEF Stored, NoRow, TypeOK, Row
<1>2. \A t \in Tokens : Stored(t)' => t \notin gone
  BY <1>1
<1>3. \A q \in Procs : \A t \in req'[q].held : Live(t)'
  <2> SUFFICES ASSUME NEW q \in Procs, NEW t \in req[q].held PROVE Live(t)'
    BY <1>0
  <2>1. t \in Tokens /\ Live(t) /\ t \notin gone
    BY <1>0 DEF SInv, HoldInv, TypeOK, Request
  <2>2. QED
    BY <1>1, <2>1 DEF Live, Stored
<1>4. \A t \in doomed' : Settled(t)' /\ ~Live(t)'
  <2>1. \A t \in doomed : t \in Tokens
    BY DEF TypeOK
  <2>2. QED
    BY <1>0, <1>1, <2>1 DEF SInv, DoomInv, Settled, Rotating, Live, Stored
<1>5. \A t \in Tokens : Stored(t)' => Stored(t) /\ row'[t].login = row[t].login
                                      /\ users'[row'[t].user].exists
  BY <1>0, <1>1 DEF SInv, NoOrphanSession, Stored
<1>6. \A q \in Procs : Rotating(q)' => users'[req'[q].user].exists
  BY <1>0 DEF SInv, RotateInv, Rotating
<1>7. \A t \in Tokens : Live(t)' => Live(t)
  BY <1>1 DEF Live, Stored
<1>8. QED
  BY <1>0, <1>3, <1>4, <1>5, <1>6, <1>7, ShrinkStep

(* A new sign-in begins a chain of its own: its token has never been drawn,*)
(* so no other row names it.                                               *)
LEMMA CreateSessionSafe ==
    ASSUME TypeOK, SInv, TypeOK', NEW p \in Procs, NEW t \in Tokens, CreateSession(p, t)
    PROVE  SInv'
<1>0. /\ req' = [req EXCEPT ![p] = Idle]
      /\ drawn' = drawn \cup {t} /\ users' = users /\ doomed' = doomed
      /\ t \notin drawn /\ req[p].user \in Users
      /\ Idle.pc = "idle" /\ Idle.held = {} /\ Idle.chosen = {}
  BY DEF CreateSession, Finish, TypeOK, Idle
<1>1. CASE ~ForeignKey(req[p].user)
  BY <1>0, <1>1, QuietStep DEF CreateSession
<1>2. CASE ForeignKey(req[p].user)
  <2>0. row' = [row EXCEPT ![t] = NewRow(req[p].user, now, t, req[p].pwd)]
    BY <1>2 DEF CreateSession
  <2>1. /\ \A q \in Procs : req'[q] = IF q = p THEN Idle ELSE req[q]
        /\ \A s \in Tokens \ {t} : row'[s] = row[s]
        /\ row'[t].user = req[p].user /\ row'[t].login = t
    BY <1>0, <2>0 DEF TypeOK, NewRow
  <2>2. \A s : Settled(s) => Settled(s)' /\ s # t
    BY <1>0, <2>1 DEF Settled, Rotating
  <2>3. Settled(t)'
    <3>1. \A q \in Procs : Rotating(q)' => Rotating(q) /\ req'[q] = req[q]
      BY <1>0, <2>1 DEF Rotating
    <3>2. QED
      BY <1>0, <3>1 DEF Settled, SInv, RotateInv
  <2>4. \A s \in Tokens \ {t} : (Stored(s)' <=> Stored(s)) /\ (Live(s)' <=> Live(s))
    BY <2>1 DEF Stored, Live
  <2>5. ~Stored(t)
    BY <1>0 DEF SInv, RowInv, Settled
  <2>6. RowInv'
    BY <2>1, <2>2, <2>3, <2>4 DEF SInv, RowInv
  <2>7. HoldInv'
    <3> SUFFICES ASSUME NEW q \in Procs, NEW s \in req'[q].held
                 PROVE  Live(s)' /\ req'[q].pc \in {"commit", "scan"}
      BY DEF HoldInv
    <3>1. req'[q] = req[q]
      BY <1>0, <2>1
    <3>2. Live(s) /\ req[q].pc \in {"commit", "scan"} /\ s \in Tokens
      BY <3>1 DEF SInv, HoldInv, TypeOK, Request
    <3>3. s # t
      BY <2>5, <3>2 DEF Live
    <3>4. QED
      BY <2>4, <3>1, <3>2, <3>3
  <2>8. HoldExclusive'
    BY <1>0, <2>1 DEF SInv, HoldExclusive
  <2>9. RotateInv'
    BY <1>0, <2>1 DEF SInv, RotateInv, Rotating
  <2>10. NextExclusive'
    BY <1>0, <2>1 DEF SInv, NextExclusive, Rotating
  <2>11. ScanInv'
    <3> SUFFICES ASSUME NEW q \in Procs, NEW s \in req'[q].chosen
                 PROVE  /\ Settled(s)'
                        /\ req'[q].pc = "scan"
                        /\ s \notin req'[q].pend /\ s \notin req'[q].held => ~Live(s)'
      BY DEF ScanInv
    <3>1. req'[q] = req[q] /\ s \in Tokens
      BY <1>0, <2>1 DEF TypeOK, Request
    <3>2. Settled(s) /\ req[q].pc = "scan"
          /\ (s \notin req[q].pend /\ s \notin req[q].held => ~Live(s))
      BY <3>1 DEF SInv, ScanInv
    <3>3. QED
      BY <2>2, <2>4, <3>1, <3>2
  <2>12. DoomInv'
    BY <1>0, <2>2, <2>4 DEF SInv, DoomInv, TypeOK
  <2>13. OneLivePerLogin'
    <3>1. \A s \in Tokens \ {t} : Live(s) => row[s].login # t
      BY <2>2 DEF SInv, RowInv, Live
    <3>2. QED
      BY <2>1, <2>4, <3>1 DEF SInv, OneLivePerLogin
  <2>14. NoOrphanSession'
    BY <1>0, <1>2, <2>1, <2>4 DEF SInv, NoOrphanSession, ForeignKey
  <2>15. QED
    BY <2>6, <2>7, <2>8, <2>9, <2>10, <2>11, <2>12, <2>13, <2>14 DEF SInv
<1>3. QED
  BY <1>1, <1>2

(* RotateInsert only draws a token; its row is not published.              *)
LEMMA RotateInsertSafe ==
    ASSUME TypeOK, SInv, TypeOK', NEW p \in Procs, NEW n \in Tokens, RotateInsert(p, n)
    PROVE  SInv'
<1>0. /\ drawn' = drawn \cup {n} /\ users' = users /\ doomed' = doomed /\ row' = row
      /\ n \notin drawn /\ req[p].pc = "insert" /\ req[p].user \in Users /\ req[p].tok \in Tokens
      /\ Idle.pc = "idle" /\ Idle.held = {} /\ Idle.chosen = {}
  BY DEF RotateInsert, TypeOK, Idle
<1>1. CASE ~ForeignKey(req[p].user)
  BY <1>0, <1>1, QuietStep DEF RotateInsert, Finish
<1>2. CASE ForeignKey(req[p].user)
  <2>1. /\ \A q \in Procs \ {p} : req'[q] = req[q]
        /\ req'[p] = [req[p] EXCEPT !.pc = "revokeOld", !.next = n, !.at = now]
    BY <1>2 DEF RotateInsert, TypeOK
  <2>2. /\ req'[p].pc = "revokeOld" /\ req'[p].next = n
        /\ req'[p].user = req[p].user /\ req'[p].tok = req[p].tok
        /\ req'[p].held = req[p].held /\ req'[p].chosen = req[p].chosen
    <3>1. req[p] \in Request
      BY DEF TypeOK
    <3>2. QED
      BY <2>1, <3>1, RotateFields
  <2>3. req[p].held = {} /\ req[p].chosen = {}
    BY <1>0 DEF SInv, HoldInv, ScanInv
  <2>4. \A s : Settled(s) => Settled(s)'
    <3>1. \A q \in Procs \ {p} : Rotating(q)' => Rotating(q) /\ req'[q].next = req[q].next
      BY <2>1 DEF Rotating
    <3>2. QED
      BY <1>0, <2>2, <3>1 DEF Settled
  <2>5. \A s \in Tokens : (Stored(s)' <=> Stored(s)) /\ (Live(s)' <=> Live(s))
    BY <1>0 DEF Stored, Live
  <2>6. RowInv'
    BY <1>0, <2>4, <2>5 DEF SInv, RowInv
  <2>7. HoldInv'
    BY <2>1, <2>2, <2>3, <2>5 DEF SInv, HoldInv, TypeOK, Request
  <2>8. HoldExclusive'
    BY <2>1, <2>2, <2>3 DEF SInv, HoldExclusive
  <2>9. RotateInv'
    <3>1. \A q \in Procs \ {p} : Rotating(q)' => Rotating(q)
      BY <2>1 DEF Rotating
    <3> SUFFICES ASSUME NEW q \in Procs, Rotating(q)'
                 PROVE  /\ req'[q].tok \in Tokens
                        /\ req'[q].next \in drawn'
                        /\ users'[req'[q].user].exists
                        /\ req'[q].pc = "commit" => req'[q].tok \in req'[q].held
      BY DEF RotateInv
    <3>2. CASE q = p
      BY <1>0, <1>2, <2>2, <3>2 DEF ForeignKey
    <3>3. CASE q # p
      BY <1>0, <2>1, <3>1, <3>3 DEF SInv, RotateInv
    <3>4. QED
      BY <3>2, <3>3
  <2>10. NextExclusive'
    <3>1. \A q \in Procs : Rotating(q) => req[q].next # n
      BY <1>0 DEF SInv, RotateInv
    <3>2. \A q \in Procs \ {p} : Rotating(q)' => Rotating(q) /\ req'[q].next = req[q].next
      BY <2>1 DEF Rotating
    <3>3. QED
      BY <2>2, <3>1, <3>2 DEF SInv, NextExclusive
  <2>11. ScanInv'
    <3> SUFFICES ASSUME NEW q \in Procs, NEW s \in req'[q].chosen
                 PROVE  /\ Settled(s)'
                        /\ req'[q].pc = "scan"
                        /\ s \notin req'[q].pend /\ s \notin req'[q].held => ~Live(s)'
      BY DEF ScanInv
    <3>1. req'[q] = req[q] /\ s \in Tokens
      BY <2>1, <2>2, <2>3 DEF TypeOK, Request
    <3>2. QED
      BY <2>4, <2>5, <3>1 DEF SInv, ScanInv
  <2>12. DoomInv'
    BY <1>0, <2>4, <2>5 DEF SInv, DoomInv, TypeOK
  <2>13. OneLivePerLogin'
    BY <1>0, <2>5 DEF SInv, OneLivePerLogin
  <2>14. NoOrphanSession'
    BY <1>0, <2>5 DEF SInv, NoOrphanSession
  <2>15. QED
    BY <2>6, <2>7, <2>8, <2>9, <2>10, <2>11, <2>12, <2>13, <2>14 DEF SInv
<1>3. QED
  BY <1>1, <1>2

(* RotateRevoke takes the lock of a live row nobody else holds.            *)
LEMMA RotateRevokeSafe ==
    ASSUME TypeOK, SInv, TypeOK', NEW p \in Procs, RotateRevoke(p)
    PROVE  SInv'
<1>0. /\ drawn' = drawn /\ users' = users /\ doomed' = doomed /\ row' = row
      /\ req[p].pc = "revokeOld" /\ req[p].tok \in Tokens
      /\ \A q \in Procs \ {p} : req[p].tok \notin req[q].held
      /\ Idle.pc = "idle" /\ Idle.held = {} /\ Idle.chosen = {}
  BY DEF RotateRevoke, Unlocked, LockedByOther, TypeOK, Idle
<1>1. CASE ~MayRotate(p)
  BY <1>0, <1>1, QuietStep DEF RotateRevoke, Finish
<1>2. CASE MayRotate(p)
  <2>1. /\ \A q \in Procs \ {p} : req'[q] = req[q]
        /\ req'[p] = [req[p] EXCEPT !.pc = "commit", !.held = {req[p].tok}]
    BY <1>2 DEF RotateRevoke, TypeOK
  <2>2. /\ req'[p].pc = "commit" /\ req'[p].held = {req[p].tok}
        /\ req'[p].next = req[p].next /\ req'[p].user = req[p].user
        /\ req'[p].tok = req[p].tok /\ req'[p].chosen = req[p].chosen
    <3>1. req[p] \in Request
      BY DEF TypeOK
    <3>2. QED
      BY <2>1, <3>1, RotateFields
  <2>3. req[p].held = {} /\ req[p].chosen = {}
    BY <1>0 DEF SInv, HoldInv, ScanInv
  <2>0. \A q \in Procs : (Rotating(q)' <=> Rotating(q)) /\ req'[q].next = req[q].next
    BY <1>0, <2>1, <2>2 DEF Rotating
  <2>4. \A s : Settled(s) => Settled(s)'
    BY <1>0, <2>0 DEF Settled
  <2>5. \A s \in Tokens : (Stored(s)' <=> Stored(s)) /\ (Live(s)' <=> Live(s))
    BY <1>0 DEF Stored, Live
  <2>6. RowInv'
    BY <1>0, <2>4, <2>5 DEF SInv, RowInv
  <2>7. HoldInv'
    <3> SUFFICES ASSUME NEW q \in Procs, NEW s \in req'[q].held
                 PROVE  Live(s)' /\ req'[q].pc \in {"commit", "scan"}
      BY DEF HoldInv
    <3>1. CASE q = p
      BY <1>0, <1>2, <2>2, <2>5, <3>1 DEF MayRotate
    <3>2. CASE q # p
      BY <2>1, <2>5, <3>2 DEF SInv, HoldInv, TypeOK, Request
    <3>3. QED
      BY <3>1, <3>2
  <2>8. HoldExclusive'
    <3> SUFFICES ASSUME NEW q \in Procs, NEW r \in Procs, NEW s \in Tokens,
                        s \in req'[q].held, s \in req'[r].held
                 PROVE  q = r
      BY DEF HoldExclusive
    <3>1. CASE q # p /\ r # p
      BY <2>1, <3>1 DEF SInv, HoldExclusive
    <3>2. \A x \in Procs : x # p => req[p].tok \notin req'[x].held
      BY <1>0, <2>1
    <3>3. \A x \in Procs : x = p => req'[x].held = {req[p].tok}
      BY <2>2
    <3>4. QED
      BY <3>1, <3>2, <3>3
  <2>9. RotateInv'
    <3>1. \A q \in Procs \ {p} : Rotating(q)' => Rotating(q)
      BY <2>1 DEF Rotating
    <3>2. Rotating(p)
      BY <1>0 DEF Rotating
    <3> SUFFICES ASSUME NEW q \in Procs, Rotating(q)'
                 PROVE  /\ req'[q].tok \in Tokens
                        /\ req'[q].next \in drawn'
                        /\ users'[req'[q].user].exists
                        /\ req'[q].pc = "commit" => req'[q].tok \in req'[q].held
      BY DEF RotateInv
    <3>3. CASE q = p
      BY <1>0, <2>2, <3>2, <3>3 DEF SInv, RotateInv
    <3>4. CASE q # p
      BY <1>0, <2>1, <3>1, <3>4 DEF SInv, RotateInv
    <3>5. QED
      BY <3>3, <3>4
  <2>10. NextExclusive'
    BY <2>0 DEF SInv, NextExclusive
  <2>11. ScanInv'
    <3> SUFFICES ASSUME NEW q \in Procs, NEW s \in req'[q].chosen
                 PROVE  /\ Settled(s)'
                        /\ req'[q].pc = "scan"
                        /\ s \notin req'[q].pend /\ s \notin req'[q].held => ~Live(s)'
      BY DEF ScanInv
    <3>1. req'[q] = req[q] /\ s \in Tokens
      BY <2>1, <2>2, <2>3 DEF TypeOK, Request
    <3>2. QED
      BY <2>4, <2>5, <3>1 DEF SInv, ScanInv
  <2>12. DoomInv'
    BY <1>0, <2>4, <2>5 DEF SInv, DoomInv, TypeOK
  <2>13. OneLivePerLogin'
    BY <1>0, <2>5 DEF SInv, OneLivePerLogin
  <2>14. NoOrphanSession'
    BY <1>0, <2>5 DEF SInv, NoOrphanSession
  <2>15. QED
    BY <2>6, <2>7, <2>8, <2>9, <2>10, <2>11, <2>12, <2>13, <2>14 DEF SInv
<1>3. QED
  BY <1>1, <1>2

(* RotateCommit publishes the next token in the step that revokes the old  *)
(* one, so the chain still has one live row.                               *)
LEMMA RotateCommitSafe ==
    ASSUME TypeOK, SInv, TypeOK', NEW p \in Procs, RotateCommit(p)
    PROVE  SInv'
<1>a. req[p].tok \in Tokens /\ req[p].next \in Tokens
  BY DEF RotateCommit, TypeOK, SInv, RotateInv, Rotating
<1>b. PICK old \in Tokens, new \in Tokens : old = req[p].tok /\ new = req[p].next
  BY <1>a
<1>0. /\ req' = [req EXCEPT ![p] = Idle]
      /\ drawn' = drawn /\ users' = users /\ doomed' = doomed
      /\ req[p].pc = "commit" /\ Rotating(p)
      /\ old \in Tokens /\ new \in drawn /\ new \in Tokens
      /\ req[p].user \in Users /\ users[req[p].user].exists
      /\ Idle.pc = "idle" /\ Idle.held = {} /\ Idle.chosen = {}
  BY <1>b DEF RotateCommit, Finish, TypeOK, SInv, RotateInv, Rotating, Idle
<1>1. Live(old) /\ old \in req[p].held /\ ~Stored(new) /\ old # new
  BY <1>0, <1>b DEF SInv, RotateInv, HoldInv, RowInv, Settled, Live
<1>2. /\ \A q \in Procs : req'[q] = IF q = p THEN Idle ELSE req[q]
      /\ \A s \in Tokens \ {old, new} : row'[s] = row[s]
      /\ row'[old].user = row[old].user /\ row'[old].login = row[old].login
      /\ row'[old].revoked = req[p].at
      /\ row'[new].user = req[p].user /\ row'[new].login = row[old].login
  <2>1. row' = [row EXCEPT ![old] = [@ EXCEPT !.revoked = req[p].at, !.replacedBy = new],
                           ![new] = NewRow(req[p].user, req[p].at, row[old].login, row[old].pwd)]
    BY <1>b DEF RotateCommit
  <2>2. row \in [Tokens -> Row] /\ row[old] \in Row
    BY <1>0 DEF TypeOK
  <2>3. \A s \in Tokens \ {old, new} : row'[s] = row[s]
    BY <2>1, <2>2
  <2>4. row'[old] = [row[old] EXCEPT !.revoked = req[p].at, !.replacedBy = new]
    BY <1>1, <2>1, <2>2
  <2>5. row'[new] = NewRow(req[p].user, req[p].at, row[old].login, row[old].pwd)
    BY <1>0, <1>1, <2>1, <2>2
  <2>6. /\ row'[old].user = row[old].user /\ row'[old].login = row[old].login
        /\ row'[old].revoked = req[p].at
    BY <2>2, <2>4 DEF Row
  <2>7. row'[new].user = req[p].user /\ row'[new].login = row[old].login
    BY <2>5 DEF NewRow
  <2>8. \A q \in Procs : req'[q] = IF q = p THEN Idle ELSE req[q]
    BY <1>0 DEF TypeOK
  <2>9. QED
    BY <2>3, <2>6, <2>7, <2>8
<1>3. ~Live(old)' /\ Stored(old)'
  BY <1>1, <1>2 DEF TypeOK, Request, Live, Stored, Never
<1>4. \A s \in Tokens \ {old, new} : (Stored(s)' <=> Stored(s)) /\ (Live(s)' <=> Live(s))
  BY <1>2 DEF Stored, Live
<1>5. \A q \in Procs : Rotating(q)' => q # p /\ Rotating(q) /\ req'[q] = req[q]
  BY <1>0, <1>2 DEF Rotating
<1>6. \A s : Settled(s) => Settled(s)' /\ s # new
  BY <1>0, <1>5, <1>b DEF Settled
<1>7. Settled(new)'
  BY <1>0, <1>5, <1>b DEF Settled, SInv, NextExclusive
<1>8. RowInv'
  <2>1. Settled(row[old].login) /\ Settled(old)
    BY <1>0, <1>1 DEF SInv, RowInv, Live
  <2>2. QED
    BY <1>2, <1>4, <1>6, <1>7, <2>1 DEF SInv, RowInv
<1>9. HoldInv'
  <2> SUFFICES ASSUME NEW q \in Procs, NEW s \in req'[q].held
               PROVE  Live(s)' /\ req'[q].pc \in {"commit", "scan"}
    BY DEF HoldInv
  <2>1. q # p /\ req'[q] = req[q]
    BY <1>0, <1>2
  <2>2. s \in Tokens /\ Live(s) /\ req[q].pc \in {"commit", "scan"}
    BY <2>1 DEF SInv, HoldInv, TypeOK, Request
  <2>3. s # old /\ s # new
    BY <1>0, <1>1, <2>1, <2>2 DEF SInv, HoldExclusive, Live
  <2>4. QED
    BY <1>4, <2>1, <2>2, <2>3
<1>10. HoldExclusive'
  BY <1>0, <1>2 DEF SInv, HoldExclusive
<1>11. RotateInv'
  BY <1>0, <1>5 DEF SInv, RotateInv
<1>12. NextExclusive'
  BY <1>5 DEF SInv, NextExclusive
<1>13. ScanInv'
  <2> SUFFICES ASSUME NEW q \in Procs, NEW s \in req'[q].chosen
               PROVE  /\ Settled(s)'
                      /\ req'[q].pc = "scan"
                      /\ s \notin req'[q].pend /\ s \notin req'[q].held => ~Live(s)'
    BY DEF ScanInv
  <2>1. req'[q] = req[q] /\ s \in Tokens
    BY <1>0, <1>2 DEF TypeOK, Request
  <2>2. Settled(s) /\ req[q].pc = "scan"
        /\ (s \notin req[q].pend /\ s \notin req[q].held => ~Live(s))
    BY <2>1 DEF SInv, ScanInv
  <2>3. s # new
    BY <1>6, <2>2
  <2>4. QED
    BY <1>3, <1>4, <1>6, <2>1, <2>2, <2>3
<1>14. DoomInv'
  BY <1>0, <1>3, <1>4, <1>6 DEF SInv, DoomInv, TypeOK
<1>15. OneLivePerLogin'
  <2> SUFFICES ASSUME NEW s \in Tokens, NEW t \in Tokens, Live(s)', Live(t)',
                      row'[s].login = row'[t].login
               PROVE  s = t
    BY DEF OneLivePerLogin
  <2>1. s # old /\ t # old
    BY <1>3
  <2>2. CASE s # new /\ t # new
    BY <1>2, <1>4, <2>1, <2>2 DEF SInv, OneLivePerLogin
  <2>3. ASSUME NEW x \in Tokens, Live(x)', x # old, x # new, row'[x].login = row'[new].login
        PROVE  FALSE
    <3>1. Live(x) /\ row[x].login = row[old].login
      BY <1>2, <1>4, <2>3
    <3>2. x = old
      BY <1>0, <1>1, <3>1 DEF SInv, OneLivePerLogin
    <3>3. QED
      BY <2>3, <3>2
  <2>4. QED
    BY <2>1, <2>2, <2>3
<1>16. NoOrphanSession'
  BY <1>0, <1>1, <1>2, <1>4 DEF SInv, NoOrphanSession, Live
<1>17. QED
  BY <1>8, <1>9, <1>10, <1>11, <1>12, <1>13, <1>14, <1>15, <1>16 DEF SInv

(* A revoking statement begins with the rows it chose live, committed and  *)
(* all still to be visited.                                                *)
LEMMA BeginScanSafe ==
    ASSUME TypeOK, SInv, NEW p \in Procs, NEW r, req' = [req EXCEPT ![p] = r],
           r.pc = "scan", r.held = {}, r.pend = r.chosen, r.chosen \subseteq Tokens,
           \A t \in r.chosen : Live(t),
           row' = row, users' = users, drawn' = drawn, doomed' = doomed
    PROVE  SInv'
<1>1. req'[p] = r /\ \A q \in Procs \ {p} : req'[q] = req[q]
  BY DEF TypeOK
<1>2. \A q \in Procs : Rotating(q)' => q # p /\ Rotating(q)
  BY <1>1 DEF Rotating
<1>3. \A s : Settled(s) => Settled(s)'
  BY <1>1, <1>2 DEF Settled
<1>4. \A s : (Stored(s)' <=> Stored(s)) /\ (Live(s)' <=> Live(s))
  BY DEF Stored, Live
<1>5. RowInv'
  BY <1>3, <1>4 DEF SInv, RowInv
<1>6. HoldInv'
  BY <1>1, <1>4 DEF SInv, HoldInv
<1>7. HoldExclusive'
  BY <1>1 DEF SInv, HoldExclusive
<1>8. RotateInv'
  BY <1>1, <1>2 DEF SInv, RotateInv
<1>9. NextExclusive'
  BY <1>1, <1>2 DEF SInv, NextExclusive
<1>10. ScanInv'
  <2> SUFFICES ASSUME NEW q \in Procs, NEW s \in req'[q].chosen
               PROVE  /\ Settled(s)'
                      /\ req'[q].pc = "scan"
                      /\ s \notin req'[q].pend /\ s \notin req'[q].held => ~Live(s)'
    BY DEF ScanInv
  <2>1. CASE q = p
    BY <1>1, <1>3, <2>1 DEF SInv, RowInv, Live
  <2>2. CASE q # p
    BY <1>1, <1>3, <1>4, <2>2 DEF SInv, ScanInv
  <2>3. QED
    BY <2>1, <2>2
<1>11. DoomInv'
  BY <1>3, <1>4 DEF SInv, DoomInv
<1>12. OneLivePerLogin'
  BY <1>4 DEF SInv, OneLivePerLogin
<1>13. NoOrphanSession'
  BY <1>4 DEF SInv, NoOrphanSession
<1>14. QED
  BY <1>5, <1>6, <1>7, <1>8, <1>9, <1>10, <1>11, <1>12, <1>13 DEF SInv

(* ScanRow visits one row: it is locked if it is live still, passed over   *)
(* for good if it is not.                                                  *)
LEMMA ScanRowSafe ==
    ASSUME TypeOK, SInv, NEW p \in Procs, NEW t \in Tokens, ScanRow(p, t)
    PROVE  SInv'
<1>0. /\ row' = row /\ users' = users /\ drawn' = drawn /\ doomed' = doomed
      /\ req[p].pc = "scan" /\ \A q \in Procs \ {p} : t \notin req[q].held
  BY DEF ScanRow, Unlocked, LockedByOther
<1>1. \A q \in Procs \ {p} : req'[q] = req[q]
  BY DEF ScanRow, TypeOK
<1>2. /\ req'[p].pc = "scan" /\ req'[p].chosen = req[p].chosen
      /\ req'[p].pend = req[p].pend \ {t}
      /\ req'[p].held = IF Live(t) THEN req[p].held \cup {t} ELSE req[p].held
  BY <1>0 DEF ScanRow, Recheck, TypeOK, Request
<1>3. \A q \in Procs : Rotating(q)' => Rotating(q) /\ q # p
  BY <1>1, <1>2 DEF Rotating
<1>4. \A s : Settled(s) => Settled(s)'
  BY <1>0, <1>1, <1>3 DEF Settled
<1>5. \A s : (Stored(s)' <=> Stored(s)) /\ (Live(s)' <=> Live(s))
  BY <1>0 DEF Stored, Live
<1>6. RowInv'
  BY <1>0, <1>4, <1>5 DEF SInv, RowInv
<1>7. HoldInv'
  <2> SUFFICES ASSUME NEW q \in Procs, NEW s \in req'[q].held
               PROVE  Live(s)' /\ req'[q].pc \in {"commit", "scan"}
    BY DEF HoldInv
  <2>1. CASE q = p
    BY <1>2, <1>5, <2>1 DEF SInv, HoldInv
  <2>2. CASE q # p
    BY <1>1, <1>5, <2>2 DEF SInv, HoldInv
  <2>3. QED
    BY <2>1, <2>2
<1>8. HoldExclusive'
  <2> SUFFICES ASSUME NEW q \in Procs, NEW r \in Procs, NEW s \in Tokens,
                      s \in req'[q].held, s \in req'[r].held
               PROVE  q = r
    BY DEF HoldExclusive
  <2>1. \A x \in Procs : s \in req'[x].held => s \in req[x].held \/ (x = p /\ s = t)
    BY <1>1, <1>2
  <2>2. QED
    BY <1>0, <2>1 DEF SInv, HoldExclusive
<1>9. RotateInv'
  BY <1>0, <1>1, <1>3 DEF SInv, RotateInv
<1>10. NextExclusive'
  BY <1>1, <1>3 DEF SInv, NextExclusive
<1>11. ScanInv'
  <2> SUFFICES ASSUME NEW q \in Procs, NEW s \in req'[q].chosen
               PROVE  /\ Settled(s)'
                      /\ req'[q].pc = "scan"
                      /\ s \notin req'[q].pend /\ s \notin req'[q].held => ~Live(s)'
    BY DEF ScanInv
  <2>1. CASE q = p
    BY <1>2, <1>4, <1>5, <2>1 DEF SInv, ScanInv
  <2>2. CASE q # p
    BY <1>1, <1>4, <1>5, <2>2 DEF SInv, ScanInv
  <2>3. QED
    BY <2>1, <2>2
<1>12. DoomInv'
  BY <1>0, <1>4, <1>5 DEF SInv, DoomInv
<1>13. OneLivePerLogin'
  BY <1>0, <1>5 DEF SInv, OneLivePerLogin
<1>14. NoOrphanSession'
  BY <1>0, <1>5 DEF SInv, NoOrphanSession
<1>15. QED
  BY <1>6, <1>7, <1>8, <1>9, <1>10, <1>11, <1>12, <1>13, <1>14 DEF SInv

-----------------------------------------------------------------------------
(* A request that is not revoking rows holds none and has chosen none, so  *)
(* the invariant does not see where it goes next.                          *)
LEMMA ArriveSafe ==
    ASSUME TypeOK, SInv, NEW p \in Procs, Arrive(p)
    PROVE  SInv'
<1> USE DEF Idle
<1>1. ASSUME NEW u \in Users, LoginRead(p, u) \/ ChangePasswordRead(p, u) \/ UpdateRole(p, u)
      PROVE  SInv'
  BY <1>1, QuietStep DEF LoginRead, ChangePasswordRead, UpdateRole
<1>2. ASSUME NEW t \in Tokens, RefreshRead(p, t) PROVE SInv'
  <2>1. CASE Active(t)
    BY <1>2, <2>1, QuietStep DEF RefreshRead
  <2>2. CASE ~Active(t)
    BY <1>2, <2>2, QuietStep DEF RefreshRead
  <2>3. QED
    BY <2>1, <2>2
<1>3. ASSUME NEW t \in Tokens, Logout(p, t) PROVE SInv'
  <2> DEFINE S == {s \in {t} : Live(s)}
             l == [Idle EXCEPT !.op = "logout", !.user = row[t].user, !.tok = t]
             r == [l EXCEPT !.pc = "scan", !.pend = S, !.chosen = S, !.at = now]
  <2>1. r.pc = "scan" /\ r.held = {} /\ r.pend = S /\ r.chosen = S
    OBVIOUS
  <2>2. S \subseteq Tokens /\ \A s \in S : Live(s)
    OBVIOUS
  <2>3. req' = [req EXCEPT ![p] = r] /\ row' = row /\ users' = users
        /\ drawn' = drawn /\ doomed' = doomed
    BY <1>3 DEF Logout, BeginScan
  <2> HIDE DEF r, S
  <2>4. QED
    BY <2>1, <2>2, <2>3, BeginScanSafe
<1>4. QED
  BY <1>1, <1>2, <1>3 DEF Arrive

LEMMA StepSafe ==
    ASSUME TypeOK, SInv, TypeOK', NEW p \in Procs, Step(p)
    PROVE  SInv'
<1>1. CASE \E t \in Tokens : CreateSession(p, t)
  BY <1>1, CreateSessionSafe
<1>2. CASE RefreshUser(p)
  <2>1. req[p].held = {} /\ req[p].chosen = {} /\ req[p] \in Request
    BY <1>2 DEF RefreshUser, SInv, HoldInv, ScanInv, TypeOK
  <2>2. CASE users[req[p].user].exists
    <3> DEFINE r == [req[p] EXCEPT !.pc = "insert"]
    <3>1. r.pc = "insert" /\ r.held = {} /\ r.chosen = {}
      BY <2>1 DEF Request
    <3>2. req' = [req EXCEPT ![p] = r]
      BY <1>2, <2>2 DEF RefreshUser, Goto
    <3> HIDE DEF r
    <3>3. QED
      BY <1>2, <3>1, <3>2, QuietStep DEF RefreshUser
  <2>3. CASE ~users[req[p].user].exists
    BY <1>2, <2>3, QuietStep DEF RefreshUser, Finish, Idle
  <2>4. QED
    BY <2>2, <2>3
<1>3. CASE \E n \in Tokens : RotateInsert(p, n)
  BY <1>3, RotateInsertSafe
<1>4. CASE RotateRevoke(p)
  BY <1>4, RotateRevokeSafe
<1>5. CASE RotateCommit(p)
  BY <1>5, RotateCommitSafe
<1>6. CASE RevokeAllStart(p)
  <2> DEFINE S == {t \in Tokens : Live(t) /\ row[t].user = req[p].user}
             r == [req[p] EXCEPT !.pc = "scan", !.pend = S, !.chosen = S, !.at = now]
  <2>1. req[p].held = {} /\ req[p] \in Request
    BY <1>6 DEF RevokeAllStart, SInv, HoldInv, TypeOK
  <2>2. S \subseteq Tokens /\ \A s \in S : Live(s)
    OBVIOUS
  <2>3. req' = [req EXCEPT ![p] = r] /\ row' = row /\ users' = users
        /\ drawn' = drawn /\ doomed' = doomed
    BY <1>6 DEF RevokeAllStart, BeginScan
  <2> HIDE DEF S
  <2>4. r.pc = "scan" /\ r.held = {} /\ r.pend = S /\ r.chosen = S
    BY <2>1 DEF Request
  <2> HIDE DEF r
  <2>5. QED
    BY <2>2, <2>3, <2>4, BeginScanSafe
<1>7. CASE \E t \in Tokens : ScanRow(p, t)
  BY <1>7, ScanRowSafe
<1>8. CASE RevokeCommit(p)
  BY <1>8, RevokeCommitSafe
<1>9. CASE UpdatePassword(p)
  <2> DEFINE u == req[p].user
  <2>1. req[p].held = {} /\ req[p].chosen = {} /\ req[p] \in Request /\ u \in Users
    BY <1>9 DEF UpdatePassword, SInv, HoldInv, ScanInv, TypeOK
  <2>2. CASE users[u].exists
    <3> DEFINE r == [req[p] EXCEPT !.pc = "revokeAll", !.pwd = users[u].pwd + 1]
    <3>1. r.pc = "revokeAll" /\ r.held = {} /\ r.chosen = {}
      BY <2>1 DEF Request
    <3>2. req' = [req EXCEPT ![p] = r]
      BY <1>9, <2>2 DEF UpdatePassword
    <3>3. \A v \in Users : users'[v].exists = users[v].exists
      BY <1>9, <2>1, <2>2 DEF UpdatePassword, TypeOK
    <3> HIDE DEF r, u
    <3>4. QED
      BY <1>9, <3>1, <3>2, <3>3, QuietStep DEF UpdatePassword
  <2>3. CASE ~users[u].exists
    BY <1>9, <2>3, QuietStep DEF UpdatePassword, Finish, Idle
  <2>4. QED
    BY <2>2, <2>3
<1>10. CASE DeadlockAbort(p)
  BY <1>10, QuietStep DEF DeadlockAbort, Finish, Idle
<1>11. QED
  BY <1>1, <1>2, <1>3, <1>4, <1>5, <1>6, <1>7, <1>8, <1>9, <1>10 DEF Step

(* The strengthened invariant holds of the initial states and every step   *)
(* of the specification keeps it.                                          *)
LEMMA SessionInvariant == Spec => []IInv
<1>1. Init => SInv
  BY DEF Init, SInv, RowInv, HoldInv, HoldExclusive, RotateInv, NextExclusive, ScanInv,
         DoomInv, OneLivePerLogin, NoOrphanSession, Stored, Live, Rotating, NoRow, Idle
<1>2. TypeOK /\ TypeOK' /\ SInv /\ [Next]_vars => SInv'
  <2> SUFFICES ASSUME TypeOK, TypeOK', SInv, [Next]_vars PROVE SInv'
    OBVIOUS
  <2>1. ASSUME NEW p \in Procs, Cancel(p) PROVE SInv'
    BY <2>1, QuietStep DEF Cancel, Finish, Idle
  <2>2. CASE Tick \/ UNCHANGED vars
    BY <2>2 DEF Tick, vars, SInv, RowInv, HoldInv, HoldExclusive, RotateInv, NextExclusive,
                ScanInv, DoomInv, OneLivePerLogin, NoOrphanSession, Stored, Live, Rotating,
                Settled
  <2>3. QED
    BY <2>1, <2>2, StepSafe, ArriveSafe, DeleteUserSafe, DeleteExpiredSafe DEF Next
<1>3. QED
  BY <1>1, <1>2, TypeCorrect, PTL DEF Spec, IInv

(* One sign-in never holds two exchangeable refresh tokens, whatever       *)
(* rotations, logouts and revoke-alls race (Rotate's revoked_at IS NULL).  *)
THEOREM OneSessionPerLogin == Spec => []OneLivePerLogin
<1>1. IInv => OneLivePerLogin
  BY DEF IInv, SInv
<1>2. QED
  BY <1>1, SessionInvariant, PTL

(* A row a finished Revoke or RevokeAllForUser had chosen is never         *)
(* exchangeable again, committed or rolled back rotations included.        *)
THEOREM RevocationHolds == Spec => []RevokedStaysRevoked
<1>1. IInv => RevokedStaysRevoked
  BY DEF IInv, SInv, DoomInv, RevokedStaysRevoked
<1>2. QED
  BY <1>1, SessionInvariant, PTL

(* Every stored session belongs to an account that still exists, although  *)
(* DeleteUser races with sign-ins and rotations of that account.           *)
THEOREM NoSessionOutlivesAccount == Spec => []NoOrphanSession
<1>1. IInv => NoOrphanSession
  BY DEF IInv, SInv
<1>2. QED
  BY <1>1, SessionInvariant, PTL

-----------------------------------------------------------------------------
(* A revoked row keeps the moment it was revoked at: rotations and         *)
(* revoke-alls write live rows only, whatever they raced with (the         *)
(* revoked_at IS NULL of every revoking UPDATE).                           *)
THEOREM RevocationMomentFixed == Spec => RevocationTimeFixed
<1> DEFINE Fixed(t) == Stored(t) /\ ~Live(t) /\ Stored(t)' => row'[t].revoked = row[t].revoked
<1>1. IInv /\ [Next]_vars => \A t \in Tokens : Fixed(t)
  <2> SUFFICES ASSUME IInv, [Next]_vars, NEW t \in Tokens, row'[t] # row[t],
                      Stored(t), ~Live(t), Stored(t)'
               PROVE  row'[t].revoked = row[t].revoked
    BY Zenon
  <2>0. TypeOK /\ SInv /\ row \in [Tokens -> Row]
    BY DEF IInv, TypeOK
  <2>1. CASE \E p \in Procs, s \in Tokens : CreateSession(p, s)
    <3>1. PICK p \in Procs, s \in Tokens : CreateSession(p, s)
      BY <2>1
    <3>2. s \notin drawn /\ (t # s => row'[t] = row[t])
      BY <2>0, <3>1 DEF CreateSession
    <3>3. t \in drawn
      BY <2>0 DEF SInv, RowInv, Settled
    <3>4. QED
      BY <3>2, <3>3
  <2>2. CASE \E p \in Procs : RotateCommit(p)
    <3>1. PICK p \in Procs : RotateCommit(p)
      BY <2>2
    <3>2. Live(req[p].tok) /\ ~Settled(req[p].next)
      BY <2>0, <3>1 DEF RotateCommit, SInv, RotateInv, HoldInv, Rotating, Settled
    <3>3. t # req[p].tok /\ t # req[p].next
      BY <2>0, <3>2 DEF SInv, RowInv
    <3>4. row'[t] = row[t]
      BY <2>0, <3>1, <3>3 DEF RotateCommit
    <3>5. QED
      BY <3>4
  <2>3. CASE \E p \in Procs : RevokeCommit(p)
    BY <2>0, <2>3 DEF RevokeCommit, SInv, HoldInv
  <2>4. CASE \E u \in Users : DeleteUser(u)
    BY <2>4 DEF DeleteUser, Stored, NoRow
  <2>5. CASE DeleteExpired
    <3>1. row'[t] = NoRow \/ row'[t] = [row[t] EXCEPT !.replacedBy = NoToken]
      BY <2>5 DEF DeleteExpired
    <3>2. row'[t] # NoRow
      BY DEF Stored, NoRow
    <3>3. QED
      BY <2>0, <3>1, <3>2 DEF Row
  <2>6. QED
    <3>1. CASE UNCHANGED vars \/ Tick
      BY <3>1 DEF vars, Tick
    <3>2. CASE \E p \in Procs : Arrive(p) \/ Cancel(p)
      BY <3>2 DEF Arrive, Cancel, LoginRead, ChangePasswordRead, UpdateRole, RefreshRead, Logout
    <3>3. CASE \E p \in Procs : Step(p)
      BY <2>1, <2>2, <2>3, <3>3 DEF Step, RefreshUser, RotateInsert, RotateRevoke,
         RevokeAllStart, ScanRow, UpdatePassword, DeadlockAbort
    <3>4. QED
      BY <2>4, <2>5, <3>1, <3>2, <3>3 DEF Next
<1>2. QED
  BY <1>1, SessionInvariant, PTL DEF Spec, RevocationTimeFixed

-----------------------------------------------------------------------------
(* Refinement.  A step that takes the rows of S out of use, and does no    *)
(* more, is the contract's Retire.                                         *)
LEMMA RetireStep ==
    ASSUME TypeOK, TypeOK', NEW S \in SUBSET Tokens,
           \A t \in Tokens : Live(t)' <=> Live(t) /\ t \notin S,
           \A t \in Tokens : Live(t)' => row'[t].login = row[t].login,
           \A t \in Tokens : Settled(t)' /\ ~Live(t)' <=> (Settled(t) /\ ~Live(t)) \/ t \in S
    PROVE  Contract!CNext
<1>1. UsableChain' = [t \in Tokens |-> IF t \in S THEN NoToken ELSE UsableChain[t]]
  BY DEF UsableChain
<1>2. SpentTokens' = SpentTokens \cup S
  <2>1. SpentTokens = {t \in Tokens : Settled(t) /\ ~Live(t)}
    BY DEF SpentTokens, Settled, TypeOK
  <2>2. SpentTokens' = {t \in Tokens : Settled(t)' /\ ~Live(t)'}
    BY DEF SpentTokens, Settled, TypeOK
  <2>3. QED
    BY <2>1, <2>2
<1>3. Contract!Retire(S)
  BY <1>1, <1>2 DEF Contract!Retire
<1>4. QED
  BY <1>3 DEF Contract!CNext

(* A step that writes no row, draws no token and opens or ends no rotation *)
(* changes nothing the contract speaks of.                                 *)
LEMMA SilentStep ==
    ASSUME TypeOK, TypeOK', row' = row, drawn' = drawn,
           \A q \in Procs : Rotating(q)' <=> Rotating(q),
           \A q \in Procs : Rotating(q) => req'[q].next = req[q].next
    PROVE  Contract!CNext
<1>1. \A t \in Tokens : (Live(t)' <=> Live(t)) /\ (Settled(t)' <=> Settled(t))
  BY DEF Live, Stored, Settled
<1>2. PICK S \in SUBSET Tokens : S = {}
  OBVIOUS
<1>3. QED
  BY <1>1, <1>2, RetireStep

(* A request that ends before it published anything retires at most the    *)
(* token it had drawn.                                                     *)
LEMMA FinishStep ==
    ASSUME TypeOK, TypeOK', SInv, NEW p \in Procs, req' = [req EXCEPT ![p] = Idle],
           row' = row, drawn' = drawn
    PROVE  Contract!CNext
<1>1. /\ \A q \in Procs \ {p} : req'[q] = req[q]
      /\ ~Rotating(p)'
      /\ \A t \in Tokens : (Live(t)' <=> Live(t)) /\ row'[t].login = row[t].login
  BY DEF TypeOK, Rotating, Idle, Live, Stored
<1>2. CASE ~Rotating(p)
  BY <1>1, <1>2, SilentStep DEF Rotating
<1>3. CASE Rotating(p)
  <2> DEFINE S == {req[p].next}
  <2>1. S \in SUBSET Tokens /\ \A t \in S : ~Live(t) /\ ~Settled(t)
    BY <1>3 DEF TypeOK, SInv, RotateInv, RowInv, Live, Settled
  <2>2. \A t \in Tokens : Settled(t)' <=> Settled(t) \/ t \in S
    BY <1>1, <1>3 DEF Settled, Rotating, SInv, NextExclusive, RotateInv
  <2> HIDE DEF S
  <2>3. QED
    BY <1>1, <2>1, <2>2, RetireStep
<1>4. QED
  BY <1>2, <1>3

(* The steps that draw a token.                                            *)
LEMMA CreateSessionRefines ==
    ASSUME TypeOK, TypeOK', SInv, SInv', NEW p \in Procs, NEW t \in Tokens, CreateSession(p, t)
    PROVE  Contract!CNext
<1>0. /\ drawn' = drawn \cup {t} /\ t \notin drawn
      /\ \A q \in Procs : (Rotating(q)' <=> Rotating(q)) /\ (Rotating(q) => req'[q] = req[q])
      /\ ~Stored(t) /\ ~Live(t)
  BY DEF CreateSession, Finish, Rotating, Idle, TypeOK, SInv, RowInv, Settled, Live
<1>1. \A s \in Tokens : Settled(s)' <=> Settled(s) \/ s = t
  BY <1>0 DEF Settled, SInv, RotateInv
<1>2. CASE ~ForeignKey(req[p].user)
  <2>1. \A s \in Tokens : (Live(s)' <=> Live(s)) /\ row'[s].login = row[s].login
    BY <1>2 DEF CreateSession, Live, Stored
  <2>2. {t} \in SUBSET Tokens
    OBVIOUS
  <2>3. QED
    BY <1>0, <1>1, <2>1, <2>2, RetireStep
<1>3. CASE ForeignKey(req[p].user)
  <2>0. row' = [row EXCEPT ![t] = NewRow(req[p].user, now, t, req[p].pwd)]
    BY <1>3 DEF CreateSession
  <2>1. /\ \A s \in Tokens \ {t} : row'[s] = row[s]
        /\ row'[t].user \in Users /\ row'[t].login = t /\ row'[t].revoked = Never
    BY <2>0 DEF TypeOK, NewRow, CreateSession
  <2>2. Live(t)' /\ \A s \in Tokens \ {t} : Live(s)' <=> Live(s)
    BY <2>1, SessionsAssumption DEF Live, Stored
  <2>3. UsableChain' = [UsableChain EXCEPT ![t] = t]
    BY <2>1, <2>2 DEF UsableChain
  <2>4. SpentTokens' = SpentTokens
    BY <1>0, <2>2 DEF SpentTokens, TypeOK
  <2>5. \A s \in Tokens : UsableChain[s] # t
    BY <1>0, SessionsAssumption DEF UsableChain, SInv, RowInv, Settled, Live
  <2>6. t \notin Contract!Usable \cup SpentTokens
    BY <1>0 DEF Contract!Usable, UsableChain, SpentTokens
  <2>7. Contract!Open(t)
    BY <2>3, <2>4, <2>5, <2>6 DEF Contract!Open
  <2>8. QED
    BY <2>7 DEF Contract!CNext
<1>4. QED
  BY <1>2, <1>3

LEMMA RotateInsertRefines ==
    ASSUME TypeOK, TypeOK', SInv, NEW p \in Procs, NEW n \in Tokens, RotateInsert(p, n)
    PROVE  Contract!CNext
<1>0. /\ drawn' = drawn \cup {n} /\ n \notin drawn /\ row' = row
      /\ ~Rotating(p) /\ \A q \in Procs \ {p} : req'[q] = req[q]
      /\ ~Live(n)
      /\ \A s \in Tokens : (Live(s)' <=> Live(s)) /\ row'[s].login = row[s].login
  BY DEF RotateInsert, Finish, Rotating, TypeOK, SInv, RowInv, Settled, Live, Stored
<1>1. CASE ~ForeignKey(req[p].user)
  <2>1. ~Rotating(p)'
    BY <1>1 DEF RotateInsert, Finish, Idle, Rotating, TypeOK
  <2>2. \A s \in Tokens : Settled(s)' <=> Settled(s) \/ s = n
    BY <1>0, <2>1 DEF Settled, Rotating, SInv, RotateInv
  <2>3. {n} \in SUBSET Tokens
    OBVIOUS
  <2>4. QED
    BY <1>0, <2>2, <2>3, RetireStep
<1>2. CASE ForeignKey(req[p].user)
  <2>1. Rotating(p)' /\ req'[p].next = n
    BY <1>2 DEF RotateInsert, Rotating, TypeOK, Request
  <2>2. \A s \in Tokens : Settled(s)' <=> Settled(s)
    BY <1>0, <2>1 DEF Settled, Rotating
  <2>3. PICK S \in SUBSET Tokens : S = {}
    OBVIOUS
  <2>4. QED
    BY <1>0, <2>2, <2>3, RetireStep
<1>3. QED
  BY <1>1, <1>2

(* RotateCommit is the contract's Exchange.                                *)
LEMMA RotateCommitRefines ==
    ASSUME TypeOK, TypeOK', SInv, NEW p \in Procs, RotateCommit(p)
    PROVE  Contract!CNext
<1>a. req[p].tok \in Tokens /\ req[p].next \in Tokens
  BY DEF RotateCommit, TypeOK, SInv, RotateInv, Rotating
<1>b. PICK old \in Tokens, new \in Tokens : old = req[p].tok /\ new = req[p].next
  BY <1>a
<1>0. /\ drawn' = drawn /\ row \in [Tokens -> Row] /\ Rotating(p) /\ ~Rotating(p)'
      /\ \A q \in Procs \ {p} : req'[q] = req[q]
      /\ new \in drawn /\ ~Settled(new)
      /\ req[p].user \in Users
  BY <1>b DEF RotateCommit, Finish, Idle, TypeOK, SInv, RotateInv, Rotating, Settled
<1>1. Live(old) /\ ~Stored(new) /\ old # new /\ Settled(old)
  BY <1>0, <1>b DEF SInv, RotateInv, HoldInv, RowInv, Live, RotateCommit
<1>2. row' = [row EXCEPT ![old] = [@ EXCEPT !.revoked = req[p].at, !.replacedBy = new],
                         ![new] = NewRow(req[p].user, req[p].at, row[old].login, row[old].pwd)]
  BY <1>b DEF RotateCommit
<1>3. \A s \in Tokens \ {old, new} : row'[s] = row[s]
  BY <1>0, <1>2
<1>4. row'[old] = [row[old] EXCEPT !.revoked = req[p].at, !.replacedBy = new]
  BY <1>0, <1>1, <1>2
<1>5. row'[new] = NewRow(req[p].user, req[p].at, row[old].login, row[old].pwd)
  BY <1>0, <1>1, <1>2
<1>6. ~Live(old)'
  BY <1>0, <1>4 DEF Live, Row, Never, TypeOK, Request
<1>7. Live(new)' /\ row'[new].login = row[old].login
  BY <1>0, <1>5, SessionsAssumption DEF Live, Stored, NewRow
<1>8. \A s \in Tokens \ {old, new} : Live(s)' <=> Live(s)
  BY <1>3 DEF Live, Stored
<1>9. UsableChain' = [UsableChain EXCEPT ![old] = NoToken, ![new] = UsableChain[old]]
  <2>1. UsableChain[old] = row[old].login
    BY <1>1 DEF UsableChain
  <2>2. \A s \in Tokens : UsableChain'[s] =
            IF s = new THEN row[old].login ELSE IF s = old THEN NoToken ELSE UsableChain[s]
    BY <1>3, <1>6, <1>7, <1>8 DEF UsableChain
  <2>3. UsableChain' = [s \in Tokens |-> UsableChain'[s]]
    BY DEF UsableChain
  <2>4. UsableChain' = [s \in Tokens |-> IF s = new THEN row[old].login
                                         ELSE IF s = old THEN NoToken ELSE UsableChain[s]]
    BY <2>2, <2>3, Zenon
  <2>5. UsableChain = [s \in Tokens |-> UsableChain[s]]
    BY DEF UsableChain
  <2>6. [UsableChain EXCEPT ![old] = NoToken, ![new] = UsableChain[old]]
        = [s \in Tokens |-> IF s = new THEN row[old].login
                            ELSE IF s = old THEN NoToken ELSE UsableChain[s]]
    BY <1>1, <2>1, <2>5
  <2>7. QED
    BY <2>4, <2>6
<1>10. SpentTokens' = SpentTokens \cup {old}
  <2>1. \A s \in Tokens : Settled(s)' <=> Settled(s) \/ s = new
    BY <1>0, <1>b DEF Settled, Rotating, SInv, NextExclusive
  <2>2. SpentTokens = {s \in Tokens : Settled(s) /\ ~Live(s)}
    BY DEF SpentTokens, Settled, TypeOK
  <2>3. SpentTokens' = {s \in Tokens : Settled(s)' /\ ~Live(s)'}
    BY DEF SpentTokens, Settled, TypeOK
  <2>4. \A s \in Tokens : (Settled(s)' /\ ~Live(s)') <=> (Settled(s) /\ ~Live(s)) \/ s = old
    BY <1>0, <1>1, <1>6, <1>7, <1>8, <2>1
  <2>5. QED
    BY <2>2, <2>3, <2>4
<1>11. old \in Contract!Usable
  <2>1. row[old].login \in drawn
    BY <1>1 DEF Live, SInv, RowInv, Settled
  <2>2. row[old].login # NoToken
    BY <2>1, SessionsAssumption DEF TypeOK
  <2>3. QED
    BY <1>1, <2>2 DEF Contract!Usable, UsableChain
<1>12. new \notin Contract!Usable \cup SpentTokens
  BY <1>0, <1>1 DEF Contract!Usable, UsableChain, SpentTokens, Settled, Live
<1>13. \A s \in Tokens : UsableChain[s] # new
  BY <1>0, <1>b, SessionsAssumption DEF UsableChain, SInv, RowInv, Live
<1>14. Contract!Exchange(old, new)
  BY <1>9, <1>10, <1>11, <1>12, <1>13 DEF Contract!Exchange
<1>15. QED
  BY <1>14 DEF Contract!CNext

(* The steps that end rows are the contract's Retire.                      *)
LEMMA RevokeCommitRefines ==
    ASSUME TypeOK, TypeOK', SInv, NEW p \in Procs, RevokeCommit(p)
    PROVE  Contract!CNext
<1>0. /\ req' = [req EXCEPT ![p] = Idle] /\ drawn' = drawn
      /\ row' = [t \in Tokens |->
                   IF t \in req[p].held THEN [row[t] EXCEPT !.revoked = req[p].at] ELSE row[t]]
      /\ req[p].at # Never /\ req[p].held \subseteq Tokens
      /\ \A t \in req[p].held : Live(t)
      /\ ~Rotating(p)
  BY DEF RevokeCommit, Finish, TypeOK, Request, Never, SInv, HoldInv, Rotating
<1>1. PICK S \in SUBSET Tokens : S = req[p].held
  BY <1>0
<1>2. \A t \in Tokens : Live(t)' <=> Live(t) /\ t \notin S
  <2>1. \A t \in Tokens : t \in S => row'[t].revoked = req[p].at
    BY <1>0, <1>1 DEF TypeOK, Row
  <2>2. \A t \in Tokens : t \notin S => row'[t] = row[t]
    BY <1>0, <1>1
  <2>3. QED
    BY <1>0, <2>1, <2>2 DEF Live, Stored
<1>3. \A t \in Tokens : Live(t)' => row'[t].login = row[t].login
  BY <1>0, <1>1, <1>2
<1>4. \A t \in Tokens : Settled(t)' <=> Settled(t)
  BY <1>0 DEF Settled, Rotating, Idle, TypeOK
<1>5. \A t \in S : Settled(t)
  BY <1>0, <1>1 DEF Live, SInv, RowInv
<1>6. QED
  BY <1>2, <1>3, <1>4, <1>5, RetireStep

LEMMA DeletionRefines ==
    ASSUME TypeOK, TypeOK', SInv, DeleteExpired \/ \E u \in Users : DeleteUser(u)
    PROVE  Contract!CNext
<1>0. req' = req /\ drawn' = drawn
  BY DEF DeleteExpired, DeleteUser
<1>1. PICK S \in SUBSET Tokens : S = {t \in Tokens : Live(t) /\ ~Live(t)'}
  OBVIOUS
<1>2. \A t \in Tokens : Live(t)' => Live(t) /\ row'[t].login = row[t].login
  <2>1. \A t \in Tokens : Stored(t)' =>
           row'[t] = row[t] \/ row'[t] = [row[t] EXCEPT !.replacedBy = NoToken]
    BY DEF DeleteExpired, DeleteUser, Stored, NoRow
  <2>2. \A t \in Tokens : Stored(t)' =>
           /\ row'[t].user = row[t].user
           /\ row'[t].login = row[t].login
           /\ row'[t].revoked = row[t].revoked
    BY <2>1 DEF TypeOK, Row
  <2>3. QED
    BY <2>2 DEF Live, Stored
<1>3. \A t \in Tokens : Settled(t)' <=> Settled(t)
  BY <1>0 DEF Settled, Rotating
<1>4. \A t \in Tokens : Live(t) => Settled(t)
  BY DEF Live, SInv, RowInv
<1>5. QED
  BY <1>1, <1>2, <1>3, <1>4, RetireStep

(* What the table does, statement by statement and with every race, is     *)
(* what SessionContract says: one usable token per sign-in, exchanged in a *)
(* single step, and never usable again once given up.                      *)
THEOREM SessionsImplementContract == Spec => ContractSpec
<1>1. Init => Contract!CInit
  BY DEF Init, Contract!CInit, UsableChain, SpentTokens, Live, Stored, NoRow
<1>2. IInv /\ IInv' /\ [Next]_vars => [Contract!CNext]_(Contract!cvars)
  <2> SUFFICES ASSUME TypeOK, TypeOK', SInv, SInv', [Next]_vars
               PROVE  Contract!CNext \/ UNCHANGED Contract!cvars
    BY DEF IInv
  <2>1. ASSUME NEW p \in Procs, Step(p) PROVE Contract!CNext
    <3>1. CASE RefreshUser(p) \/ DeadlockAbort(p)
      <4>1. CASE req' = [req EXCEPT ![p] = Idle]
        BY <3>1, <4>1, FinishStep DEF RefreshUser, DeadlockAbort
      <4>2. CASE RefreshUser(p) /\ Goto(p, "insert")
        <5>1. /\ ~Rotating(p) /\ ~Rotating(p)'
              /\ \A q \in Procs \ {p} : req'[q] = req[q]
          BY <4>2 DEF RefreshUser, Goto, Rotating, TypeOK, Request
        <5>2. QED
          BY <4>2, <5>1, SilentStep DEF RefreshUser, Rotating
      <4>3. QED
        BY <3>1, <4>1, <4>2 DEF RefreshUser, DeadlockAbort, Finish
    <3>2. CASE RotateRevoke(p)
      <4>1. CASE MayRotate(p)
        <5>1. /\ Rotating(p) /\ Rotating(p)' /\ req'[p].next = req[p].next
              /\ \A q \in Procs \ {p} : req'[q] = req[q]
          BY <3>2, <4>1 DEF RotateRevoke, Rotating, TypeOK, Request
        <5>2. QED
          BY <3>2, <5>1, SilentStep DEF RotateRevoke, Rotating
      <4>2. CASE ~MayRotate(p)
        BY <3>2, <4>2, FinishStep DEF RotateRevoke, Finish
      <4>3. QED
        BY <4>1, <4>2
    <3>3. CASE RevokeAllStart(p) \/ UpdatePassword(p) \/ \E t \in Tokens : ScanRow(p, t)
      <4>1. /\ ~Rotating(p) /\ ~Rotating(p)'
            /\ \A q \in Procs \ {p} : req'[q] = req[q]
        <5>1. req \in [Procs -> Request] /\ req[p] \in Request
          BY DEF TypeOK
        <5>2. CASE RevokeAllStart(p)
          BY <5>1, <5>2 DEF RevokeAllStart, BeginScan, Rotating, Request
        <5>3. CASE UpdatePassword(p)
          BY <5>1, <5>3 DEF UpdatePassword, Finish, Idle, Rotating, Request
        <5>4. CASE \E t \in Tokens : ScanRow(p, t)
          <6>1. PICK t \in Tokens : ScanRow(p, t)
            BY <5>4
          <6>2. req'[p].pc = "scan" /\ req[p].pc = "scan"
            BY <5>1, <6>1 DEF ScanRow, Request
          <6>3. QED
            BY <5>1, <6>1, <6>2 DEF ScanRow, Rotating
        <5>5. QED
          BY <3>3, <5>2, <5>3, <5>4
      <4>2. row' = row /\ drawn' = drawn
        BY <3>3 DEF RevokeAllStart, UpdatePassword, ScanRow
      <4>3. QED
        BY <4>1, <4>2, SilentStep DEF Rotating
    <3>4. QED
      BY <2>1, <3>1, <3>2, <3>3, CreateSessionRefines, RotateInsertRefines,
         RotateCommitRefines, RevokeCommitRefines DEF Step
  <2>2. ASSUME NEW p \in Procs, Arrive(p) PROVE Contract!CNext
    <3>1. /\ ~Rotating(p) /\ ~Rotating(p)' /\ row' = row /\ drawn' = drawn
          /\ \A q \in Procs \ {p} : req'[q] = req[q]
      <4>0. req \in [Procs -> Request]
        BY DEF TypeOK
      <4>1. /\ req'[p].pc \notin {"revokeOld", "commit"}
            /\ \A q \in Procs \ {p} : req'[q] = req[q]
        <5>1. CASE \E u \in Users : LoginRead(p, u)
          BY <4>0, <5>1 DEF LoginRead, Idle
        <5>2. CASE \E u \in Users : ChangePasswordRead(p, u)
          BY <4>0, <5>2 DEF ChangePasswordRead, Idle
        <5>3. CASE \E u \in Users : UpdateRole(p, u)
          BY <4>0, <5>3 DEF UpdateRole, Idle
        <5>4. CASE \E t \in Tokens : RefreshRead(p, t)
          <6>1. PICK t \in Tokens : RefreshRead(p, t)
            BY <5>4
          <6> DEFINE r == [Idle EXCEPT !.pc = "readUser", !.op = "refresh",
                                       !.user = row[t].user, !.tok = t]
                     s == [Idle EXCEPT !.pc = "revokeAll", !.op = "refresh", !.user = row[t].user,
                                       !.tok = t, !.next = row[t].replacedBy]
          <6>2. r.pc = "readUser" /\ s.pc = "revokeAll"
            BY DEF Idle
          <6>3. req' = [req EXCEPT ![p] = r] \/ req' = [req EXCEPT ![p] = s]
            BY <6>1 DEF RefreshRead
          <6> HIDE DEF r, s
          <6>4. QED
            BY <4>0, <6>2, <6>3
        <5>5. CASE \E t \in Tokens : Logout(p, t)
          <6>1. PICK t \in Tokens : Logout(p, t)
            BY <5>5
          <6>2. \A u, S, i :
                  [[Idle EXCEPT !.op = "logout", !.user = u, !.tok = t]
                     EXCEPT !.pc = "scan", !.pend = S, !.chosen = S, !.at = i].pc = "scan"
            BY DEF Idle
          <6>3. QED
            BY <4>0, <6>1, <6>2 DEF Logout, BeginScan
        <5>6. QED
          BY <2>2, <5>1, <5>2, <5>3, <5>4, <5>5 DEF Arrive
      <4>2. row' = row /\ drawn' = drawn /\ req[p].pc = "idle"
        BY <2>2 DEF Arrive, LoginRead, ChangePasswordRead, UpdateRole, RefreshRead, Logout
      <4>3. QED
        BY <4>1, <4>2 DEF Rotating
    <3>2. QED
      BY <3>1, SilentStep DEF Rotating
  <2>3. ASSUME NEW p \in Procs, Cancel(p) PROVE Contract!CNext
    BY <2>3, FinishStep DEF Cancel, Finish
  <2>4. CASE Tick \/ UNCHANGED vars
    BY <2>4 DEF Tick, vars, Contract!cvars, UsableChain, SpentTokens, Live, Stored, Rotating
  <2>5. QED
    BY <2>1, <2>2, <2>3, <2>4, DeletionRefines DEF Next
<1>3. QED
  BY <1>1, <1>2, SessionInvariant, PTL DEF Spec, ContractSpec, Contract!CSpec
=============================================================================
