----------------------------- MODULE MembersProofs -----------------------------
(***************************************************************************)
(* What a member may do and is shown.                                      *)
(*                                                                         *)
(* The service's grants: the inductive invariant says of an answer on its  *)
(* way from the table to the cache what StaleAnswersExpire says of one in  *)
(* the cache: if the table has changed its mind since, it did so after the *)
(* lookup began.                                                           *)
(*                                                                         *)
(* Members: unless the effect that looks grants up is due, it has run for  *)
(* the member who is signed in, and the grants shown are theirs, none, or  *)
(* still asked for.                                                        *)
(*                                                                         *)
(* Addresses: the table of routes is read part by part, so that the links  *)
(* of the masthead are found among its entries.                            *)
(*                                                                         *)
(* Notes: what a resource was answered, and what it shows, is what the     *)
(* service has now, or is read again, unless something else changed it     *)
(* since.                                                                  *)
(***************************************************************************)
EXTENDS GrantCache, Membership, PlayerNotes, SequenceTheorems, FiniteSetTheorems, WellFoundedInduction, TLAPS

------------------------------------------------------------------------------
(* The grants that a replica caches.                                       *)

PastInv ==
    /\ \A k \in Keys : changed[k] <= now
    /\ \A p \in Procs : req[p].at <= now
    /\ \A r \in Replicas, k \in Keys : cache[r][k].expiresAt <= now + TTL

AnswerInv ==
    \A p \in Procs :
       req[p].pc = "put" =>
          LET k == Head(req[p].todo)
          IN req[p].answer = (k \in grants) \/ req[p].at <= changed[k]

IInv == TypeOK /\ PastInv /\ AnswerInv /\ StaleAnswersExpire /\ EditsHadGrant

-----------------------------------------------------------------------------
LEMMA IdleIsRequest == Idle \in Request
  BY DEF Idle, Request, PCs

(* What TypeOK says of one request.                                        *)
RequestOK(r) ==
    /\ r \in Request
    /\ r.pc \in {"lookup", "read", "put", "edit"} \/ r.revoking => r.todo # <<>>

LEMMA HeadIsKey ==
    ASSUME NEW s \in Seq(Keys), s # <<>>
    PROVE  Head(s) \in Keys /\ Tail(s) \in Seq(Keys) /\ <<Head(s)>> \in Seq(Keys)
  OBVIOUS

LEMMA TailNotEmpty ==
    ASSUME NEW s \in Seq(Keys), Len(s) > 1
    PROVE  s # <<>> /\ Tail(s) \in Seq(Keys) /\ Tail(s) # <<>>
<1>1. Len(s) \in Nat /\ Len(<<>>) = 0
  OBVIOUS
<1>2. s # <<>>
  BY <1>1
<1>3. Len(Tail(s)) = Len(s) - 1 /\ Tail(s) \in Seq(Keys)
  BY <1>2, HeadTailProperties
<1>4. Len(Tail(s)) # 0
  BY <1>1, <1>3
<1>5. QED
  BY <1>1, <1>2, <1>3, <1>4

(* The three ways a lookup goes on.                                        *)
LEMMA DecideCases ==
    ASSUME TypeOK, NEW p \in Procs, NEW b \in BOOLEAN, NEW at \in Nat,
           req[p].pc \in {"lookup", "put"}, Decide(p, b, at)
    PROVE  \E r : /\ req' = [req EXCEPT ![p] = r]
                  /\ RequestOK(r)
                  /\ r.pc \in {"idle", "lookup", "edit"}
                  /\ r.at \in {0, at}
                  /\ r.pc = "edit" => /\ b
                                      /\ r.at = at
                                      /\ Head(r.todo) = Head(req[p].todo)
<1> DEFINE ks == req[p].todo
<1>1. ks \in Seq(Keys) /\ ks # <<>> /\ Head(ks) \in Keys /\ <<Head(ks)>> \in Seq(Keys)
  BY HeadIsKey DEF TypeOK, Request
<1>2. CASE b /\ Admit(p, at)
  <2> DEFINE r == [Idle EXCEPT !.pc = "edit", !.at = at, !.todo = <<Head(ks)>>]
  <2>1. r \in Request /\ r.pc = "edit" /\ r.at = at /\ r.todo = <<Head(ks)>>
    BY <1>1 DEF Idle, Request, PCs
  <2>2. RequestOK(r) /\ Head(r.todo) = Head(ks)
    BY <2>1 DEF RequestOK
  <2>3. req' = [req EXCEPT ![p] = r]
    BY <1>2 DEF Admit
  <2> HIDE DEF r
  <2>4. QED
    BY <1>2, <2>1, <2>2, <2>3
<1>3. CASE Len(ks) > 1 /\ AskNext(p)
  <2> DEFINE r == [Idle EXCEPT !.pc = "lookup", !.todo = Tail(ks)]
  <2>1. Tail(ks) \in Seq(Keys) /\ Tail(ks) # <<>>
    BY <1>1, <1>3, TailNotEmpty
  <2>2. r \in Request /\ r.pc = "lookup" /\ r.at = 0 /\ r.todo = Tail(ks)
    BY <2>1 DEF Idle, Request, PCs
  <2>3. req' = [req EXCEPT ![p] = r]
    BY <1>3 DEF AskNext
  <2> HIDE DEF r
  <2>4. QED
    BY <2>1, <2>2, <2>3 DEF RequestOK
<1>4. CASE Finish(p)
  <2>1. Idle.pc = "idle" /\ Idle.at = 0 /\ ~Idle.revoking
    BY DEF Idle
  <2>2. RequestOK(Idle)
    BY <2>1, IdleIsRequest DEF RequestOK
  <2>3. QED
    BY <1>4, <2>1, <2>2 DEF Finish
<1>5. QED
  BY <1>2, <1>3, <1>4 DEF Decide

(* A step that moves one request, and leaves the table and the clock.      *)
LEMMA RequestStep ==
    ASSUME IInv, NEW p \in Procs, NEW r, req' = [req EXCEPT ![p] = r], RequestOK(r),
           r.at <= now,
           r.pc = "put" => r.answer = (Head(r.todo) \in grants)
                           \/ r.at <= changed[Head(r.todo)],
           r.pc = "edit" => Head(r.todo) \in grants
                            \/ r.at < changed[Head(r.todo)] + TTL,
           UNCHANGED <<now, teams, grants, changed>>,
           cache' \in [Replicas -> [Keys -> Entry]], ended' \subseteq Keys,
           \A x \in Replicas, k \in Keys : cache'[x][k].expiresAt <= now + TTL,
           StaleAnswersExpire'
    PROVE  IInv'
<1>1. req'[p] = r /\ \A q \in Procs \ {p} : req'[q] = req[q]
  BY DEF IInv, TypeOK
<1>2. TypeOK'
  BY <1>1 DEF IInv, TypeOK, RequestOK
<1>3. PastInv'
  BY <1>1 DEF IInv, PastInv
<1>4. AnswerInv'
  BY <1>1 DEF IInv, AnswerInv
<1>5. EditsHadGrant'
  BY <1>1 DEF IInv, EditsHadGrant
<1>6. QED
  BY <1>2, <1>3, <1>4, <1>5 DEF IInv

(* A statement on team_editors: whatever answer it contradicts, it does so *)
(* now.                                                                    *)
LEMMA SetGrantsStep ==
    ASSUME IInv, NEW p \in Procs, NEW G \in SUBSET Keys, NEW ks \in Seq(Keys),
           NEW lost \in SUBSET Keys, SetGrants(p, G, ks, lost), teams' \subseteq Teams
    PROVE  IInv'
<1> DEFINE r == [Idle EXCEPT !.pc = "drop", !.revoking = (ks # <<>>),
                             !.todo = ks, !.lost = lost]
<1>1. /\ r \in Request /\ r.pc = "drop" /\ r.at = 0 /\ (r.revoking => ks # <<>>) /\ r.todo = ks
  BY DEF Idle, Request, PCs
<1>2. req' = [req EXCEPT ![p] = r]
  BY DEF SetGrants
<1> HIDE DEF r
<1>3. req'[p] = r /\ \A q \in Procs \ {p} : req'[q] = req[q]
  BY <1>2 DEF IInv, TypeOK
<1>4. /\ grants' = G /\ now' = now /\ cache' = cache /\ now \in Nat
      /\ changed \in [Keys -> Nat] /\ changed' \in [Keys -> Nat]
      /\ \A k \in Keys : changed'[k] = IF (k \in G) # (k \in grants) THEN now ELSE changed[k]
  BY DEF SetGrants, IInv, TypeOK
<1>5. \A k \in Keys : changed[k] <= changed'[k] /\ changed'[k] <= now
  <2> SUFFICES ASSUME NEW k \in Keys PROVE changed[k] <= changed'[k] /\ changed'[k] <= now
    OBVIOUS
  <2>1. changed[k] \in Nat /\ changed[k] <= now
    BY <1>4 DEF IInv, PastInv
  <2>2. changed'[k] = now \/ changed'[k] = changed[k]
    BY <1>4
  <2>3. QED
    BY <1>4, <2>1, <2>2
<1>6. \A k \in Keys : (k \in grants') = (k \in grants) \/ changed'[k] = now
  BY <1>4
<1>7. TypeOK'
  <2>1. req' \in [Procs -> Request]
    BY <1>1, <1>2 DEF IInv, TypeOK
  <2>2. \A q \in Procs :
           req'[q].pc \in {"lookup", "read", "put", "edit"} \/ req'[q].revoking => req'[q].todo # <<>>
    BY <1>1, <1>3 DEF IInv, TypeOK
  <2>3. cache' \in [Replicas -> [Keys -> Entry]] /\ ended' \subseteq Keys
    BY <1>4 DEF IInv, TypeOK, SetGrants
  <2>4. QED
    BY <1>4, <2>1, <2>2, <2>3 DEF TypeOK
<1>8. PastInv'
  <2>1. 0 <= now
    BY <1>4
  <2>2. \A q \in Procs : req'[q].at <= now
    BY <1>1, <1>3, <2>1 DEF IInv, PastInv
  <2>3. QED
    BY <1>4, <1>5, <2>2 DEF IInv, PastInv
<1>9. \A q \in Procs : req[q].pc \in {"put", "edit"} => Head(req[q].todo) \in Keys
  BY HeadIsKey DEF IInv, TypeOK, Request
<1>10. \A q \in Procs : req[q].at \in Nat /\ req[q].at <= now
  BY DEF IInv, TypeOK, Request, PastInv
<1>11. AnswerInv'
  <2> SUFFICES ASSUME NEW q \in Procs, req'[q].pc = "put"
               PROVE  LET k == Head(req'[q].todo)
                      IN req'[q].answer = (k \in grants') \/ req'[q].at <= changed'[k]
    BY DEF AnswerInv
  <2>1. q # p /\ req'[q] = req[q]
    BY <1>1, <1>3
  <2>2. PICK k \in Keys : k = Head(req[q].todo)
    BY <1>9, <2>1
  <2>3. CASE changed'[k] = now
    BY <1>10, <2>1, <2>2, <2>3
  <2>4. CASE (k \in grants') = (k \in grants)
    <3>1. req[q].answer = (k \in grants) \/ req[q].at <= changed[k]
      BY <2>1, <2>2 DEF IInv, AnswerInv
    <3>2. changed[k] \in Nat /\ changed'[k] \in Nat /\ req[q].at \in Nat /\ changed[k] <= changed'[k]
      BY <1>4, <1>5, <1>10
    <3>3. CASE req[q].at <= changed[k]
      BY <2>1, <2>2, <3>2, <3>3
    <3>4. CASE req[q].answer = (k \in grants)
      BY <2>1, <2>2, <2>4, <3>4, Zenon
    <3>5. QED
      BY <3>1, <3>3, <3>4
  <2>5. QED
    BY <1>6, <2>3, <2>4
<1>12. StaleAnswersExpire'
  <2> SUFFICES ASSUME NEW x \in Replicas, NEW k \in Keys, cache[x][k].kept,
                      cache[x][k].manages # (k \in grants')
               PROVE  cache[x][k].expiresAt <= changed'[k] + TTL
    BY <1>4 DEF StaleAnswersExpire
  <2>1. cache[x][k].expiresAt \in Nat /\ changed[k] \in Nat /\ changed'[k] \in Nat
    BY <1>4 DEF IInv, TypeOK, Entry
  <2>2. CASE cache[x][k].manages # (k \in grants)
    BY <1>5, <2>1, <2>2, GrantCacheAssumption DEF IInv, StaleAnswersExpire
  <2>3. CASE changed'[k] = now
    BY <1>4, <2>3 DEF IInv, PastInv
  <2>4. QED
    BY <1>6, <2>2, <2>3
<1>13. EditsHadGrant'
  <2> SUFFICES ASSUME NEW q \in Procs, req'[q].pc = "edit"
               PROVE  LET k == Head(req'[q].todo)
                      IN k \in grants' \/ req'[q].at < changed'[k] + TTL
    BY DEF EditsHadGrant
  <2>1. q # p /\ req'[q] = req[q]
    BY <1>1, <1>3
  <2>2. PICK k \in Keys : k = Head(req[q].todo)
    BY <1>9, <2>1
  <2>3. changed[k] \in Nat /\ changed'[k] \in Nat /\ changed[k] <= changed'[k] /\ TTL \in Nat \ {0}
    BY <1>4, <1>5, GrantCacheAssumption
  <2>4. CASE changed'[k] = now
    BY <1>4, <1>10, <2>1, <2>2, <2>3, <2>4
  <2>5. CASE (k \in grants') = (k \in grants)
    <3>1. k \in grants \/ req[q].at < changed[k] + TTL
      BY <2>1, <2>2 DEF IInv, EditsHadGrant
    <3>2. CASE k \in grants
      BY <2>1, <2>2, <2>5, <3>2
    <3>3. CASE req[q].at < changed[k] + TTL
      BY <1>10, <2>1, <2>2, <2>3, <3>3
    <3>4. QED
      BY <3>1, <3>2, <3>3
  <2>6. QED
    BY <1>6, <2>4, <2>5
<1>14. QED
  BY <1>7, <1>8, <1>11, <1>12, <1>13 DEF IInv

-----------------------------------------------------------------------------
(* managesTeam's first half: a hit decides, a miss only notes the time.    *)
LEMMA LookupStep ==
    ASSUME IInv, NEW p \in Procs, Lookup(p)
    PROVE  IInv'
<1>0. /\ UNCHANGED <<now, teams, grants, changed, cache, ended>>
      /\ req[p].pc = "lookup" /\ req[p] \in Request /\ Home[p] \in Replicas
      /\ now \in Nat /\ TTL \in Nat \ {0} /\ req \in [Procs -> Request]
      /\ req[p].todo # <<>>
  BY GrantCacheAssumption DEF Lookup, IInv, TypeOK
<1>1. StaleAnswersExpire'
  BY <1>0 DEF IInv, StaleAnswersExpire
<1>2. /\ cache' \in [Replicas -> [Keys -> Entry]] /\ ended' \subseteq Keys
      /\ \A x \in Replicas, k \in Keys : cache'[x][k].expiresAt <= now + TTL
  BY <1>0 DEF IInv, TypeOK, PastInv
<1>3. PICK r \in Replicas, k \in Keys : r = Home[p] /\ k = Head(req[p].todo)
  BY <1>0, HeadIsKey DEF Request
<1>4. CASE Fresh(r, k)
  <2>1. Decide(p, cache[r][k].manages, now)
    BY <1>3, <1>4 DEF Lookup
  <2>2. cache[r][k].manages \in BOOLEAN /\ cache[r][k].expiresAt \in Nat /\ changed[k] \in Nat
    <3>1. cache[r][k] \in Entry /\ changed[k] \in Nat
      BY DEF IInv, TypeOK
    <3>2. QED
      BY <3>1 DEF Entry
  <2>3. TypeOK
    BY DEF IInv
  <2>4. PICK n : /\ req' = [req EXCEPT ![p] = n]
                 /\ RequestOK(n)
                 /\ n.pc \in {"idle", "lookup", "edit"}
                 /\ n.at \in {0, now}
                 /\ n.pc = "edit" => /\ cache[r][k].manages
                                     /\ n.at = now
                                     /\ Head(n.todo) = k
    <3>1. PICK b \in BOOLEAN : b = cache[r][k].manages
      BY <2>2
    <3>2. Decide(p, b, now) /\ req[p].pc \in {"lookup", "put"} /\ Head(req[p].todo) = k
      BY <1>0, <1>3, <2>1, <3>1
    <3>3. QED
      BY <1>0, <2>3, <3>1, <3>2, DecideCases
  <2>5. cache[r][k].manages => k \in grants \/ now < changed[k] + TTL
    <3>1. ASSUME cache[r][k].manages, k \notin grants PROVE now < changed[k] + TTL
      <4>1. cache[r][k].manages # (k \in grants)
        BY <3>1, Zenon
      <4>2. QED
        BY <1>0, <1>4, <2>2, <4>1 DEF IInv, StaleAnswersExpire, Fresh
    <3>2. QED
      BY <3>1
  <2>6. n.at <= now
    BY <1>0, <2>4
  <2>7. QED
    BY <1>0, <1>1, <1>2, <2>4, <2>5, <2>6, RequestStep
<1>5. CASE ~Fresh(r, k)
  <2> DEFINE n == [req[p] EXCEPT !.pc = "read", !.at = now]
  <2>1. n \in Request /\ n.pc = "read" /\ n.at = now /\ n.todo = req[p].todo
    BY <1>0 DEF Request, PCs
  <2>2. req' = [req EXCEPT ![p] = n]
    BY <1>3, <1>5 DEF Lookup
  <2> HIDE DEF n
  <2>3. RequestOK(n) /\ n.at <= now
    BY <1>0, <2>1 DEF RequestOK
  <2>4. QED
    BY <1>0, <1>1, <1>2, <2>1, <2>2, <2>3, RequestStep
<1>6. QED
  BY <1>4, <1>5

(* managesTeam's second half: the answer goes into the cache, with what is *)
(* known of it, and decides.                                               *)
LEMMA PutStep ==
    ASSUME IInv, NEW p \in Procs, Put(p)
    PROVE  IInv'
<1>0. /\ UNCHANGED <<now, teams, grants, changed, ended>>
      /\ req[p].pc = "put" /\ req[p] \in Request /\ Home[p] \in Replicas
      /\ now \in Nat /\ TTL \in Nat \ {0} /\ req \in [Procs -> Request]
      /\ req[p].todo # <<>> /\ req[p].at \in Nat /\ req[p].at <= now
      /\ req[p].answer \in BOOLEAN
  BY GrantCacheAssumption DEF Put, IInv, TypeOK, Request, PastInv
<1>1. PICK r \in Replicas, k \in Keys : r = Home[p] /\ k = Head(req[p].todo)
  BY <1>0, HeadIsKey DEF Request
<1>2. PICK e \in Entry : e = [kept |-> TRUE, manages |-> req[p].answer,
                              expiresAt |-> req[p].at + TTL]
  <2>1. req[p].at + TTL \in Nat
    BY <1>0
  <2>2. [kept |-> TRUE, manages |-> req[p].answer, expiresAt |-> req[p].at + TTL] \in Entry
    BY <1>0, <2>1 DEF Entry
  <2>3. QED
    BY <2>2
<1>3. changed[k] \in Nat /\ changed[k] <= now
  BY DEF IInv, TypeOK, PastInv
<1>4. e.manages # (k \in grants) => e.expiresAt <= changed[k] + TTL
  <2>1. req[p].answer = (k \in grants) \/ req[p].at <= changed[k]
    BY <1>0, <1>1 DEF IInv, AnswerInv
  <2>2. e.manages = req[p].answer /\ e.expiresAt = req[p].at + TTL
    BY <1>2
  <2>3. CASE req[p].at <= changed[k]
    BY <1>0, <1>3, <2>2, <2>3
  <2>4. CASE req[p].answer = (k \in grants)
    BY <2>2, <2>4, Zenon
  <2>5. QED
    BY <2>1, <2>3, <2>4
<1>5. PICK c \in [Keys -> Entry] : c = [cache[r] EXCEPT ![k] = e]
  BY DEF IInv, TypeOK
<1>6. cache' = [cache EXCEPT ![r] = Swept(c, req[p].at)]
  BY <1>1, <1>2, <1>5 DEF Put, Expiry
<1>7. NoEntry \in Entry /\ ~NoEntry.kept /\ NoEntry.expiresAt = 0
  BY DEF NoEntry, Entry
<1>8. Swept(c, req[p].at) \in [Keys -> Entry]
      /\ \A j \in Keys : Swept(c, req[p].at)[j] \in {c[j], NoEntry}
  BY <1>7 DEF Swept
<1>9. cache' \in [Replicas -> [Keys -> Entry]]
  BY <1>6, <1>8 DEF IInv, TypeOK
<1>10. \A x \in Replicas, j \in Keys :
          cache'[x][j] = cache[x][j] \/ cache'[x][j] = NoEntry \/ (j = k /\ cache'[x][j] = e)
  <2>1. \A j \in Keys : c[j] = cache[r][j] \/ (j = k /\ c[j] = e)
    BY <1>5 DEF IInv, TypeOK
  <2>2. \A x \in Replicas : cache'[x] = IF x = r THEN Swept(c, req[p].at) ELSE cache[x]
    BY <1>6 DEF IInv, TypeOK
  <2>3. QED
    BY <1>8, <2>1, <2>2
<1>11. StaleAnswersExpire'
  BY <1>0, <1>4, <1>7, <1>10 DEF IInv, StaleAnswersExpire
<1>12. \A x \in Replicas, j \in Keys : cache'[x][j].expiresAt <= now + TTL
  BY <1>0, <1>2, <1>7, <1>10 DEF IInv, PastInv
<1>13. Decide(p, req[p].answer, req[p].at)
  BY DEF Put
<1>14. PICK n : /\ req' = [req EXCEPT ![p] = n]
                /\ RequestOK(n)
                /\ n.pc \in {"idle", "lookup", "edit"}
                /\ n.at \in {0, req[p].at}
                /\ n.pc = "edit" => /\ req[p].answer
                                    /\ n.at = req[p].at
                                    /\ Head(n.todo) = k
  <2>1. TypeOK
    BY DEF IInv
  <2>2. QED
    BY <1>0, <1>1, <1>13, <2>1, DecideCases
<1>15. req[p].answer => k \in grants \/ req[p].at < changed[k] + TTL
  <2>1. ASSUME req[p].answer, k \notin grants PROVE req[p].at <= changed[k]
    <3>1. req[p].answer # (k \in grants)
      BY <2>1, Zenon
    <3>2. QED
      BY <1>0, <1>1, <3>1 DEF IInv, AnswerInv
  <2>2. QED
    BY <1>0, <1>3, <2>1
<1>16. ended' \subseteq Keys /\ n.at <= now
  BY <1>0, <1>14 DEF IInv, TypeOK
<1>17. QED
  BY <1>0, <1>9, <1>11, <1>12, <1>14, <1>15, <1>16, RequestStep

(* Dropped answers contradict nothing.                                     *)
LEMMA DropEntries ==
    ASSUME IInv, UNCHANGED <<now, grants, changed>>,
           cache' \in [Replicas -> [Keys -> Entry]],
           \A x \in Replicas, k \in Keys : cache'[x][k] \in {cache[x][k], NoEntry}
    PROVE  /\ StaleAnswersExpire'
           /\ \A x \in Replicas, k \in Keys : cache'[x][k].expiresAt <= now + TTL
<1>1. ~NoEntry.kept /\ NoEntry.expiresAt = 0 /\ now \in Nat /\ TTL \in Nat
  BY GrantCacheAssumption DEF NoEntry, IInv, TypeOK
<1>2. QED
  BY <1>1 DEF IInv, StaleAnswersExpire, PastInv

(* The invariant holds of the initial states and every step keeps it.      *)
LEMMA GrantInvariant == Spec => []IInv
<1>1. Init => IInv
  BY IdleIsRequest, GrantCacheAssumption DEF Init, IInv, TypeOK, PastInv, AnswerInv,
     StaleAnswersExpire, EditsHadGrant, NoEntry, Entry, Idle
<1>2. IInv /\ [Next]_vars => IInv'
  <2> SUFFICES ASSUME IInv, [Next]_vars PROVE IInv'
    OBVIOUS
  <2>0. /\ cache \in [Replicas -> [Keys -> Entry]] /\ ended \subseteq Keys /\ teams \subseteq Teams
        /\ req \in [Procs -> Request] /\ grants \subseteq Keys /\ now \in Nat
        /\ \A x \in Replicas, k \in Keys : cache[x][k].expiresAt <= now + TTL
        /\ NoEntry \in Entry
        /\ Keys = Users \X Teams
        /\ Idle.pc = "idle" /\ Idle.at = 0 /\ RequestOK(Idle)
    BY IdleIsRequest DEF IInv, TypeOK, PastInv, Idle, NoEntry, Entry, RequestOK, Keys
  <2>1. ASSUME NEW p \in Procs, NEW u \in Users, NEW ts \in Asked, Arrive(p, u, ts) PROVE IInv'
    <3> DEFINE ks == [i \in 1 .. Len(ts) |-> <<u, ts[i]>>]
               r == [Idle EXCEPT !.pc = "lookup", !.todo = ks]
    <3>1. ts \in Seq(Teams) /\ Len(ts) \in {1, 2}
      <4>1. CASE \E t \in Teams : ts = <<t>>
        BY <4>1
      <4>2. CASE ts \in Teams \X Teams
        <5>1. PICK a \in Teams, b \in Teams : ts = <<a, b>>
          BY <4>2
        <5>2. QED
          BY <5>1
      <4>3. QED
        BY <4>1, <4>2 DEF Asked
    <3>2. ks \in Seq(Keys) /\ Len(ks) = Len(ts)
      BY <3>1 DEF Keys
    <3>3. ks # <<>>
      <4>1. Len(ks) # 0
        BY <3>1, <3>2
      <4> HIDE DEF ks
      <4>2. QED
        BY <4>1
    <3> HIDE DEF ks
    <3>4. r \in Request /\ r.pc = "lookup" /\ r.at = 0 /\ r.todo = ks
      BY <3>2 DEF Idle, Request, PCs
    <3>5. req' = [req EXCEPT ![p] = r] /\ UNCHANGED <<now, teams, grants, cache, changed, ended>>
      BY <2>1 DEF Arrive, ks
    <3> HIDE DEF r
    <3>6. RequestOK(r) /\ r.at <= now
      BY <2>0, <3>3, <3>4 DEF RequestOK
    <3>7. StaleAnswersExpire'
      BY <3>5 DEF IInv, StaleAnswersExpire
    <3>8. QED
      BY <2>0, <3>4, <3>5, <3>6, <3>7, RequestStep
  <2>2. ASSUME NEW p \in Procs, Manages(p) PROVE IInv'
    <3>0. PICK b \in BOOLEAN : b = (Head(req[p].todo) \in grants)
      <4>1. CASE Head(req[p].todo) \in grants
        <5>1. TRUE = (Head(req[p].todo) \in grants)
          BY <4>1, Zenon
        <5>2. QED
          BY <5>1, Zenon
      <4>2. CASE Head(req[p].todo) \notin grants
        <5>1. FALSE = (Head(req[p].todo) \in grants)
          BY <4>2, SMT
        <5>2. QED
          BY <5>1, Zenon
      <4>3. QED
        BY <4>1, <4>2
    <3> DEFINE r == [req[p] EXCEPT !.pc = "put", !.answer = b]
    <3>1. /\ r \in Request /\ r.pc = "put" /\ r.at = req[p].at /\ r.todo = req[p].todo
          /\ r.answer = b
      <4>1. req[p] \in Request /\ "put" \in PCs
        BY <2>0 DEF PCs
      <4>2. r \in Request
        BY <4>1 DEF Request
      <4>3. r.pc = "put" /\ r.answer = b
        BY <4>1 DEF Request
      <4>4. r.at = req[p].at /\ r.todo = req[p].todo
        BY <4>1 DEF Request
      <4>5. QED
        BY <4>2, <4>3, <4>4
    <3>2. req' = [req EXCEPT ![p] = r] /\ UNCHANGED <<now, teams, grants, cache, changed, ended>>
      BY <2>2, <3>0 DEF Manages
    <3> HIDE DEF r
    <3>3. RequestOK(r) /\ r.at <= now
      BY <2>2, <3>1 DEF RequestOK, Manages, IInv, TypeOK, PastInv
    <3>4. StaleAnswersExpire'
      BY <3>2 DEF IInv, StaleAnswersExpire
    <3>5. r.answer = (Head(r.todo) \in grants)
      BY <3>0, <3>1
    <3>6. QED
      BY <2>0, <3>1, <3>2, <3>3, <3>4, <3>5, RequestStep
  <2>3. ASSUME NEW p \in Procs, Edit(p) \/ Fail(p) PROVE IInv'
    <3>1. StaleAnswersExpire'
      BY <2>3 DEF Edit, Fail, IInv, StaleAnswersExpire
    <3>2. /\ req' = [req EXCEPT ![p] = Idle]
          /\ UNCHANGED <<now, teams, grants, cache, changed, ended>>
          /\ Idle.at <= now
      BY <2>0, <2>3 DEF Edit, Fail, Finish
    <3>3. QED
      BY <2>0, <3>1, <3>2, RequestStep
  <2>4. ASSUME NEW p \in Procs, NEW k \in Keys, Grant(p, k) \/ Revoke(p, k) PROVE IInv'
    <3>1. k[1] \in Users
      BY DEF Keys
    <3>2. /\ <<k>> \in Seq(Keys) /\ <<>> \in Seq(Keys)
          /\ {k[1]} \X Teams \in SUBSET Keys
          /\ grants \cup {k} \in SUBSET Keys /\ grants \ {k} \in SUBSET Keys
      BY <2>0, <3>1 DEF Keys
    <3>3. QED
      BY <2>0, <2>4, <3>2, SetGrantsStep DEF Grant, Revoke
  <2>5. ASSUME NEW p \in Procs, NEW t \in Teams, DeleteTeam(p, t) PROVE IInv'
    <3>1. /\ <<>> \in Seq(Keys) /\ Users \X {t} \in SUBSET Keys
          /\ grants \ (Users \X {t}) \in SUBSET Keys /\ teams' \subseteq Teams
      BY <2>0, <2>5 DEF Keys, DeleteTeam
    <3>2. QED
      BY <2>5, <3>1, SetGrantsStep DEF DeleteTeam
  <2>6. ASSUME NEW p \in Procs, NEW u \in Users, UserDeleted(p, u) \/ RoleChanged(p, u)
        PROVE  IInv'
    <3>1. /\ <<>> \in Seq(Keys) /\ {u} \X Teams \in SUBSET Keys
          /\ grants \ ({u} \X Teams) \in SUBSET Keys /\ grants \in SUBSET Keys
          /\ teams' \subseteq Teams
      BY <2>0, <2>6 DEF Keys, UserDeleted, RoleChanged
    <3>2. QED
      BY <2>6, <3>1, SetGrantsStep DEF UserDeleted, RoleChanged
  <2>7. ASSUME NEW p \in Procs, Invalidate(p) PROVE IInv'
    <3>1. cache' \in [Replicas -> [Keys -> Entry]]
          /\ \A x \in Replicas, k \in Keys : cache'[x][k] \in {cache[x][k], NoEntry}
      BY <2>0, <2>7 DEF Invalidate
    <3>2. /\ UNCHANGED <<now, teams, grants, changed>>
          /\ req' = [req EXCEPT ![p] = Idle]
          /\ Idle.at <= now
      BY <2>0, <2>7 DEF Invalidate, Finish
    <3>3. ended' \subseteq Keys
      <4>1. req[p].revoking => Head(req[p].todo) \in Keys
        BY <2>0, HeadIsKey DEF IInv, TypeOK, Request
      <4>2. QED
        BY <2>0, <2>7, <4>1 DEF Invalidate
    <3>4. StaleAnswersExpire' /\ \A x \in Replicas, k \in Keys : cache'[x][k].expiresAt <= now + TTL
      BY <3>1, <3>2, DropEntries
    <3>5. QED
      BY <2>0, <3>1, <3>2, <3>3, <3>4, RequestStep
  <2>8. ASSUME NEW r \in Replicas, Restart(r) PROVE IInv'
    <3>1. UNCHANGED <<now, teams, grants, changed, ended>>
      BY <2>8 DEF Restart
    <3>2. cache' \in [Replicas -> [Keys -> Entry]]
          /\ \A x \in Replicas, k \in Keys : cache'[x][k] \in {cache[x][k], NoEntry}
      BY <2>0, <2>8 DEF Restart
    <3>3. StaleAnswersExpire' /\ \A x \in Replicas, k \in Keys : cache'[x][k].expiresAt <= now + TTL
      BY <3>1, <3>2, DropEntries
    <3>4. \A q \in Procs : req'[q] = req[q] \/ req'[q] = Idle
      BY <2>8 DEF Restart
    <3>5. req' \in [Procs -> Request] /\ \A q \in Procs : RequestOK(req'[q])
      BY <2>0, <2>8, <3>4 DEF Restart, IInv, TypeOK, RequestOK
    <3>6. TypeOK'
      BY <3>1, <3>2, <3>5 DEF IInv, TypeOK, RequestOK
    <3>7. PastInv' /\ AnswerInv' /\ EditsHadGrant'
      <4>1. \A q \in Procs : req'[q].at <= now
        BY <2>0, <3>4 DEF IInv, PastInv
      <4>2. PastInv'
        BY <3>1, <3>3, <4>1 DEF IInv, PastInv
      <4>3. AnswerInv'
        BY <2>0, <3>1, <3>4 DEF IInv, AnswerInv
      <4>4. EditsHadGrant'
        BY <2>0, <3>1, <3>4 DEF IInv, EditsHadGrant
      <4>5. QED
        BY <4>2, <4>3, <4>4
    <3>8. QED
      BY <3>3, <3>6, <3>7 DEF IInv
  <2>9. CASE Tick
    <3>1. now' = now + 1 /\ UNCHANGED <<teams, grants, cache, req, changed, ended>>
      BY <2>9 DEF Tick
    <3>2. TypeOK'
      BY <2>0, <3>1 DEF IInv, TypeOK
    <3>3. PastInv'
      <4>1. \A k \in Keys : changed[k] \in Nat
        BY DEF IInv, TypeOK
      <4>2. \A p \in Procs : req[p].at \in Nat
        BY <2>0 DEF Request
      <4>3. \A x \in Replicas, k \in Keys : cache[x][k].expiresAt \in Nat
        BY <2>0 DEF Entry
      <4>4. QED
        BY <2>0, <3>1, <4>1, <4>2, <4>3, GrantCacheAssumption DEF IInv, PastInv
    <3>4. AnswerInv' /\ StaleAnswersExpire' /\ EditsHadGrant'
      BY <3>1 DEF IInv, AnswerInv, StaleAnswersExpire, EditsHadGrant
    <3>5. QED
      BY <3>2, <3>3, <3>4 DEF IInv
  <2>10. CASE UNCHANGED vars
    BY <2>10 DEF vars, IInv, TypeOK, PastInv, AnswerInv, StaleAnswersExpire, EditsHadGrant
  <2>11. QED
    BY <2>1, <2>2, <2>3, <2>4, <2>5, <2>6, <2>7, <2>8, <2>9, <2>10, LookupStep, PutStep DEF Next
<1>3. QED
  BY <1>1, <1>2, PTL DEF Spec

(* Type correctness of the grant cache.                                    *)
THEOREM GrantTypeCorrect == Spec => []TypeOK
<1>1. IInv => TypeOK
  BY DEF IInv
<1>2. QED
  BY <1>1, GrantInvariant, PTL

(* A cached answer that contradicts team_editors is out of use TTL after   *)
(* the table changed, on every replica and whatever invalidation was lost  *)
(* or overtaken: what grantCacheTTL promises.                              *)
THEOREM StalenessBounded == Spec => []StaleAnswersExpire
<1>1. IInv => StaleAnswersExpire
  BY DEF IInv
<1>2. QED
  BY <1>1, GrantInvariant, PTL

(* No edit is admitted by a grant that had been gone for TTL when its      *)
(* lookup began (RequireTeam and RequireEitherTeam).                       *)
THEOREM AdmittedByRecentGrant == Spec => []EditsHadGrant
<1>1. IInv => EditsHadGrant
  BY DEF IInv
<1>2. QED
  BY <1>1, GrantInvariant, PTL

------------------------------------------------------------------------------
(* The member.                                                             *)

LEMMA LeastNumber ==
    ASSUME NEW T, T \subseteq Nat, T # {}
    PROVE  \E x \in T : \A y \in T : x <= y
<1>1. PICK x \in T : \A y \in T : ~ (<<y, x>> \in OpToRel(<, Nat))
    BY NatLessThanWellFounded, WFMin
<1>2. \A y \in T : y \in Nat /\ x \in Nat /\ ~(y < x)
    BY <1>1 DEF OpToRel
<1>. QED
    BY <1>2

LEMMA NumberInduction ==
    ASSUME NEW S, 0 \in S, \A k \in Nat : k \in S => k + 1 \in S
    PROVE  \A k \in Nat : k \in S
<1>. SUFFICES ASSUME Nat \ S # {} PROVE FALSE
    OBVIOUS
<1>1. PICK x \in Nat \ S : \A y \in Nat \ S : x <= y
    BY LeastNumber
<1>2. x - 1 \in Nat /\ ~(x <= x - 1)
    BY <1>1
<1>3. x - 1 \in S
    BY <1>1, <1>2
<1>. QED
    BY <1>1, <1>2, <1>3

\* No lookup's answer is awaited, or the grants are the member's own.
GrantsFit ==
    IF session.user = NoMember THEN perms.grants = {}
    ELSE isAdmin \/ grantLookups[session.user] > 0 \/ perms.grants \subseteq HeldBy[session.user]

\* The inductive invariant: unless the effect is due, it has run for the member
\* that is signed in; a page load that goes on has not signed anyone in.
MemberInv ==
    /\ DOMAIN session = {"status", "bearer", "user"} /\ session.user \in Members \cup {NoMember}
    /\ DOMAIN perms = {"seen", "due", "grants", "loaded"} /\ perms.due \in BOOLEAN
    /\ grantLookups \in [Members -> Nat] /\ overtaken \in BOOLEAN
    /\ ~perms.due => perms.seen = session.user /\ (overtaken \/ GrantsFit)
    /\ ~AppStarted => session.user = NoMember /\ ~leaving

memberVars == <<role, session, perms, grantLookups, overtaken>>

\* Steps that change none of it.
LEMMA OtherStepsKeep ==
    ASSUME MemberInv, UNCHANGED memberVars, AppStarted' \/ (~AppStarted /\ (leaving' => leaving))
    PROVE  MemberInv'
BY DEF MemberInv, memberVars, GrantsFit, isAdmin, Role

\* The session's user and the grants stay, or the grants are to be looked up.
LEMMA SessionStepsKeep ==
    ASSUME MemberInv, UNCHANGED <<role, grantLookups, overtaken>>, AppStarted',
           DOMAIN session' = {"status", "bearer", "user"}, session'.user \in Members \cup {NoMember},
           DOMAIN perms' = {"seen", "due", "grants", "loaded"}, perms'.due \in BOOLEAN,
           perms'.seen = perms.seen, perms'.grants = perms.grants,
           perms'.due \/ (session'.user = session.user /\ perms'.due = perms.due)
    PROVE  MemberInv'
BY DEF MemberInv, GrantsFit, isAdmin, Role

LEMMA ShowStarts == ASSUME NEW path, NEW s, Show(Guarded(path, s)) PROVE AppStarted'
BY DEF Show, Guarded, PageView, AppStarted

LEMMA StayOrShowStarts == ASSUME NEW path, NEW s, StayOrShow(Guarded(path, s)) PROVE AppStarted'
<1>1. CASE Show(Guarded(path, s))
    BY <1>1, ShowStarts
<1>2. CASE leaveEditor /\ UNCHANGED view
    BY <1>2 DEF leaveEditor, AppStarted
<1>. QED
    BY <1>1, <1>2 DEF StayOrShow

LEMMA EffectKeeps == ASSUME MemberInv, PermissionsEffect PROVE MemberInv'
<1>1. UNCHANGED <<role, session, leaving, view, overtaken>> /\ perms.due
    BY DEF PermissionsEffect
<1>2. CASE session.user = NoMember
    <2>1. perms' = NoGrants /\ UNCHANGED grantLookups
        BY <1>2 DEF PermissionsEffect
    <2>2. DOMAIN perms' = {"seen", "due", "grants", "loaded"} /\ perms'.due = FALSE
          /\ perms'.seen = session'.user /\ perms'.grants = {}
        BY <1>1, <1>2, <2>1 DEF NoGrants
    <2>. QED
        BY <1>1, <1>2, <2>1, <2>2 DEF MemberInv, GrantsFit, AppStarted
<1>3. CASE session.user # NoMember /\ isAdmin
    BY <1>1, <1>3 DEF PermissionsEffect, MemberInv, GrantsFit, AppStarted, isAdmin, Role
<1>4. CASE session.user # NoMember /\ ~isAdmin
    <2>1. /\ perms' = [perms EXCEPT !.seen = session.user, !.due = FALSE]
          /\ grantLookups' = [grantLookups EXCEPT ![session.user] = @ + 1]
        BY <1>4 DEF PermissionsEffect
    <2>2. /\ DOMAIN perms' = {"seen", "due", "grants", "loaded"} /\ perms'.due = FALSE
          /\ perms'.seen = session'.user
        BY <1>1, <2>1 DEF MemberInv
    <2>3. grantLookups' \in [Members -> Nat] /\ grantLookups'[session.user] > 0
        BY <1>4, <2>1 DEF MemberInv
    <2>. QED
        BY <1>1, <1>4, <2>2, <2>3 DEF MemberInv, GrantsFit, AppStarted
<1>. QED
    BY <1>2, <1>3, <1>4

LEMMA AnswerKeeps == ASSUME MemberInv, NEW u \in Members, GrantsAnswered(u) PROVE MemberInv'
<1>1. PICK ids \in {HeldBy[u], {}} : perms' = [perms EXCEPT !.grants = ids, !.loaded = TRUE]
    BY DEF GrantsAnswered
<1>2. /\ UNCHANGED <<role, session, leaving, view>> /\ overtaken' = (u # perms.seen)
      /\ grantLookups' = [grantLookups EXCEPT ![u] = @ - 1] /\ grantLookups[u] > 0
    BY DEF GrantsAnswered
<1>3. /\ DOMAIN perms' = {"seen", "due", "grants", "loaded"} /\ perms'.due = perms.due
      /\ perms'.seen = perms.seen /\ perms'.grants = ids
    BY <1>1 DEF MemberInv
<1>4. grantLookups' \in [Members -> Nat]
    BY <1>2 DEF MemberInv
<1>5. ASSUME ~perms.due, u = perms.seen PROVE GrantsFit'
    <2>1. session'.user = u /\ u # NoMember
        BY <1>2, <1>5, MembershipAssumption DEF MemberInv
    <2>2. perms'.grants \subseteq HeldBy[session'.user]
        BY <1>1, <1>3, <2>1
    <2>. QED
        BY <2>1, <2>2 DEF GrantsFit
<1>. QED
    BY <1>2, <1>3, <1>4, <1>5 DEF MemberInv, AppStarted

\* The grants are forgotten when a member's profile goes.
LEMMA ForgottenGrants ==
    ASSUME MemberInv, ForgetGrants, session' = Anonymous, UNCHANGED <<role, grantLookups, overtaken>>, AppStarted'
    PROVE  MemberInv'
<1>1. /\ DOMAIN perms' = {"seen", "due", "grants", "loaded"} /\ perms'.due = (perms.due \/ session.user # NoMember)
      /\ perms'.seen = perms.seen /\ perms'.grants = perms.grants
    BY DEF MemberInv, ForgetGrants
<1>2. DOMAIN session' = {"status", "bearer", "user"} /\ session'.user = NoMember
    BY DEF Anonymous
<1>3. perms'.due \in BOOLEAN /\ (perms'.due \/ (session'.user = session.user /\ perms'.due = perms.due))
    BY <1>1, <1>2 DEF MemberInv
<1>. QED
    BY <1>1, <1>2, <1>3, SessionStepsKeep

LEMMA SignInKeeps == ASSUME MemberInv, NEW u \in Members, SignInSteps(u) PROVE MemberInv'
<1>1. CASE SubmitLogin(u) \/ SubmitRegister(u) \/ CompleteOAuth(u)
    <2>1. UNCHANGED memberVars /\ UNCHANGED <<leaving, view>>
        BY <1>1 DEF SubmitLogin, SubmitRegister, CompleteOAuth, StartFlow, memberVars
    <2>. QED
        BY <2>1, OtherStepsKeep DEF AppStarted
<1>2. CASE RegisterAnswered(u) \/ SignInFails(u)
    <2>1. UNCHANGED memberVars /\ UNCHANGED <<leaving, view>>
        BY <1>2 DEF RegisterAnswered, SignInFails, memberVars
    <2>. QED
        BY <2>1, OtherStepsKeep DEF AppStarted
<1>3. CASE TokensArrive(u)
    <2>1. UNCHANGED <<role, perms, grantLookups, overtaken, leaving, view>>
          /\ session' = [session EXCEPT !.status = "authenticated", !.bearer = u]
        BY <1>3 DEF TokensArrive
    <2>2. DOMAIN session' = {"status", "bearer", "user"} /\ session'.user = session.user
        BY <2>1 DEF MemberInv
    <2>. QED
        BY <2>1, <2>2 DEF MemberInv, GrantsFit, isAdmin, Role, AppStarted
<1>4. CASE ProfileArrives(u)
    <2>1. /\ UNCHANGED <<role, grantLookups, overtaken>> /\ session' = [session EXCEPT !.user = u]
          /\ StayOrShow(Guarded(Destination(u), [session EXCEPT !.user = u])) /\ perms' = [perms EXCEPT !.due = TRUE]
        BY <1>4 DEF ProfileArrives, Land
    <2>2. AppStarted'
        BY <2>1, StayOrShowStarts
    <2>3. DOMAIN session' = {"status", "bearer", "user"} /\ session'.user = u
        BY <2>1 DEF MemberInv
    <2>4. DOMAIN perms' = {"seen", "due", "grants", "loaded"} /\ perms'.due = TRUE
          /\ perms'.seen = perms.seen /\ perms'.grants = perms.grants
        BY <2>1 DEF MemberInv
    <2>. QED
        BY <2>1, <2>2, <2>3, <2>4, SessionStepsKeep
<1>5. CASE ProfileFails(u)
    <2>1. CASE Land(u, session) /\ UNCHANGED perms
        <3>1. UNCHANGED memberVars
            BY <2>1 DEF Land, memberVars
        <3>2. AppStarted'
            BY <2>1, StayOrShowStarts DEF Land
        <3>. QED
            BY <3>1, <3>2, OtherStepsKeep
    <2>2. CASE Land(u, Anonymous) /\ ForgetGrants
        <3>1. AppStarted'
            BY <2>2, StayOrShowStarts DEF Land
        <3>. QED
            BY <2>2, <3>1, ForgottenGrants DEF Land
    <2>. QED
        BY <1>5, <2>1, <2>2 DEF ProfileFails
<1>. QED
    BY <1>1, <1>2, <1>3, <1>4, <1>5 DEF SignInSteps

LEMMA RestoreKeeps == ASSUME MemberInv, RestoreEnds PROVE MemberInv'
<1>1. UNCHANGED <<role, perms, grantLookups, overtaken>> /\ session' = Anonymous /\ ~AppStarted
    BY DEF RestoreEnds
<1>2. AppStarted'
    BY ShowStarts DEF RestoreEnds
<1>3. DOMAIN session' = {"status", "bearer", "user"} /\ session'.user = session.user
    BY <1>1 DEF Anonymous, MemberInv
<1>. QED
    BY <1>1, <1>2, <1>3, SessionStepsKeep DEF MemberInv

LEMMA MemberInitially == ASSUME MembershipInit PROVE MemberInv
<1>1. DOMAIN session = {"status", "bearer", "user"} /\ session.user = NoMember
    BY DEF MembershipInit
<1>2. DOMAIN perms = {"seen", "due", "grants", "loaded"} /\ perms.due = FALSE
      /\ perms.seen = NoMember /\ perms.grants = {}
    BY DEF MembershipInit
<1>3. grantLookups \in [Members -> Nat] /\ overtaken = FALSE /\ leaving = FALSE
    BY DEF MembershipInit
<1>. QED
    BY <1>1, <1>2, <1>3 DEF MemberInv, GrantsFit

LEMMA MemberStep == ASSUME MemberInv, [MembershipNext]_membershipVars PROVE MemberInv'
<1>1. CASE UNCHANGED membershipVars
    BY <1>1, OtherStepsKeep DEF membershipVars, memberVars, AppStarted
<1>2. ASSUME NEW u \in Members, SignInSteps(u) \/ GrantsAnswered(u) PROVE MemberInv'
    BY <1>2, SignInKeeps, AnswerKeeps
<1>3. CASE Navigate
    <2>1. UNCHANGED memberVars /\ AppStarted'
        BY <1>3, ShowStarts DEF Navigate, memberVars
    <2>. QED
        BY <2>1, OtherStepsKeep
<1>4. CASE RestoreEnds
    BY <1>4, RestoreKeeps
<1>5. CASE PermissionsEffect
    BY <1>5, EffectKeeps
<1>6. CASE ConfigAnswered \/ RenderWidget \/ VerifyEmail
    <2>1. UNCHANGED memberVars /\ UNCHANGED <<leaving, view>>
        BY <1>6 DEF ConfigAnswered, RenderWidget, VerifyEmail, memberVars
    <2>. QED
        BY <2>1, OtherStepsKeep DEF AppStarted
<1>7. CASE SignOut
    <2>1. UNCHANGED memberVars /\ AppStarted'
        BY <1>7 DEF SignOut, memberVars, AppStarted
    <2>. QED
        BY <2>1, OtherStepsKeep
<1>8. CASE SignedOut
    <2>1. AppStarted'
        <3>1. AppStarted
            BY <1>8 DEF SignedOut, MemberInv
        <3>2. view' = view \/ view' = PageView(<<>>, NoPath)
            BY <1>8 DEF SignedOut, StayOrShow, Show
        <3>. QED
            BY <3>1, <3>2 DEF AppStarted, PageView
    <2>. QED
        BY <1>8, <2>1, ForgottenGrants DEF SignedOut
<1>9. CASE SessionRefused
    <2>1. AppStarted'
        BY <1>9 DEF SessionRefused, AppStarted
    <2>. QED
        BY <1>9, <2>1, ForgottenGrants DEF SessionRefused
<1>. QED
    BY <1>1, <1>2, <1>3, <1>4, <1>5, <1>6, <1>7, <1>8, <1>9 DEF MembershipNext

\* However signing in, signing out and looking up grants interleave, the grants
\* that are shown once nothing is under way are the member's own or none
\* (permissions.ts, the effect; session-store.ts, login and logout) -- unless
\* the last answer to come was for someone who had gone.
THEOREM GrantsAreOwn == MembershipSpec => []SettledGrantsAreOwn
<1>1. MembershipInit => MemberInv
    BY MemberInitially
<1>2. MemberInv /\ [MembershipNext]_membershipVars => MemberInv'
    BY MemberStep
<1>3. MemberInv => SettledGrantsAreOwn
    BY MembershipAssumption DEF MemberInv, GrantsFit, SettledGrantsAreOwn
<1>. QED
    BY <1>1, <1>2, <1>3, PTL DEF MembershipSpec

------------------------------------------------------------------------------
(* The table of addresses, read part by part.                              *)

LEMMA FunctionIsList ==
    ASSUME NEW X, NEW n \in Nat, NEW f \in [1 .. n -> X]
    PROVE  f \in Seq(X) /\ Len(f) = n
OBVIOUS

LEMMA Concatenated ==
    ASSUME NEW X, NEW a \in Seq(X), NEW b \in Seq(X)
    PROVE  /\ a \o b \in Seq(X) /\ Len(a \o b) = Len(a) + Len(b)
           /\ \A i \in 1 .. Len(a) + Len(b) : (a \o b)[i] = IF i <= Len(a) THEN a[i] ELSE b[i - Len(a)]
OBVIOUS

LEMMA RoutesParts ==
    /\ DOMAIN Routes = 1 .. 44
    /\ \A i \in 1 .. 21 : \E k \in 1 .. 43 : Routes[k] = RecordRoutes[i]
    /\ \A i \in 1 .. 20 : \E k \in 1 .. 43 : Routes[k] = PersonRoutes[i]
    /\ \A i \in 1 .. 2 : \E k \in 1 .. 43 : Routes[k] = GamesRoutes[i]
<1>1. PICK last : last = Page(<<"**">>, "NotFound", "open")
    OBVIOUS
<1>2. PICK X : X = {RecordRoutes[i] : i \in 1 .. 21} \cup {PersonRoutes[i] : i \in 1 .. 20}
                     \cup {GamesRoutes[i] : i \in 1 .. 2} \cup {last}
    OBVIOUS
<1>3. PICK r \in Seq(X) : r = RecordRoutes /\ Len(r) = 21
    <2>1. RecordRoutes \in [1 .. 21 -> {RecordRoutes[i] : i \in 1 .. 21}]
        BY DEF RecordRoutes
    <2>2. RecordRoutes \in [1 .. 21 -> X]
        BY <1>2, <2>1
    <2>3. RecordRoutes \in Seq(X) /\ Len(RecordRoutes) = 21
        BY <2>2, FunctionIsList
    <2>. QED
        BY <2>3
<1>4. PICK p \in Seq(X) : p = PersonRoutes /\ Len(p) = 20
    <2>1. PersonRoutes \in [1 .. 20 -> {PersonRoutes[i] : i \in 1 .. 20}]
        BY DEF PersonRoutes
    <2>2. PersonRoutes \in [1 .. 20 -> X]
        BY <1>2, <2>1
    <2>3. PersonRoutes \in Seq(X) /\ Len(PersonRoutes) = 20
        BY <2>2, FunctionIsList
    <2>. QED
        BY <2>3
<1>5. PICK g \in Seq(X) : g = GamesRoutes /\ Len(g) = 2
    <2>1. GamesRoutes \in [1 .. 2 -> {GamesRoutes[i] : i \in 1 .. 2}]
        BY DEF GamesRoutes
    <2>2. GamesRoutes \in [1 .. 2 -> X]
        BY <1>2, <2>1
    <2>3. GamesRoutes \in Seq(X) /\ Len(GamesRoutes) = 2
        BY <2>2, FunctionIsList
    <2>. QED
        BY <2>3
<1>6. PICK e \in Seq(X) : e = <<last>> /\ Len(e) = 1 /\ e[1] = last
    <2>1. last \in X
        BY <1>2
    <2>2. <<last>> \in Seq(X) /\ Len(<<last>>) = 1 /\ <<last>>[1] = last
        BY <2>1
    <2>. QED
        BY <2>2
<1>7. PICK rp \in Seq(X) : /\ rp = r \o p /\ Len(rp) = 41
                           /\ \A i \in 1 .. 41 : rp[i] = IF i <= 21 THEN r[i] ELSE p[i - 21]
    <2>1. r \o p \in Seq(X) /\ Len(r \o p) = Len(r) + Len(p)
          /\ \A i \in 1 .. Len(r) + Len(p) : (r \o p)[i] = IF i <= Len(r) THEN r[i] ELSE p[i - Len(r)]
        BY Concatenated
    <2>0. Len(r) = 21 /\ Len(r) + Len(p) = 41
        BY <1>3, <1>4
    <2>2. /\ Len(r \o p) = 41
          /\ \A i \in 1 .. 41 : (r \o p)[i] = IF i <= 21 THEN r[i] ELSE p[i - 21]
        BY <2>0, <2>1
    <2>. QED
        BY <2>1, <2>2
<1>8. PICK rpg \in Seq(X) : /\ rpg = rp \o g /\ Len(rpg) = 43
                            /\ \A i \in 1 .. 43 : rpg[i] = IF i <= 41 THEN rp[i] ELSE g[i - 41]
    <2>1. rp \o g \in Seq(X) /\ Len(rp \o g) = Len(rp) + Len(g)
          /\ \A i \in 1 .. Len(rp) + Len(g) : (rp \o g)[i] = IF i <= Len(rp) THEN rp[i] ELSE g[i - Len(rp)]
        BY Concatenated
    <2>0. Len(rp) = 41 /\ Len(rp) + Len(g) = 43
        BY <1>5, <1>7
    <2>2. /\ Len(rp \o g) = 43
          /\ \A i \in 1 .. 43 : (rp \o g)[i] = IF i <= 41 THEN rp[i] ELSE g[i - 41]
        BY <2>0, <2>1
    <2>. QED
        BY <2>1, <2>2
<1>9. PICK all \in Seq(X) : /\ all = Routes /\ Len(all) = 44
                            /\ \A i \in 1 .. 44 : all[i] = IF i <= 43 THEN rpg[i] ELSE e[i - 43]
    <2>1. PICK all \in Seq(X) : /\ all = rpg \o e /\ Len(all) = 44
                                /\ \A i \in 1 .. 44 : all[i] = IF i <= 43 THEN rpg[i] ELSE e[i - 43]
        <3>1. rpg \o e \in Seq(X) /\ Len(rpg \o e) = Len(rpg) + Len(e)
              /\ \A i \in 1 .. Len(rpg) + Len(e) : (rpg \o e)[i] = IF i <= Len(rpg) THEN rpg[i] ELSE e[i - Len(rpg)]
            BY Concatenated
        <3>0. Len(rpg) = 43 /\ Len(rpg) + Len(e) = 44
            BY <1>6, <1>8
        <3>2. /\ Len(rpg \o e) = 44
              /\ \A i \in 1 .. 44 : (rpg \o e)[i] = IF i <= 43 THEN rpg[i] ELSE e[i - 43]
            BY <3>0, <3>1
        <3>. QED
            BY <3>1, <3>2
    <2>2. all = Routes
        BY <1>1, <1>3, <1>4, <1>5, <1>6, <1>7, <1>8, <2>1 DEF Routes
    <2>. QED
        BY <2>1, <2>2
<1>10. ASSUME NEW i \in 1 .. 21 PROVE all[i] = r[i]
    <2>1. i \in 1 .. 41 /\ i \in 1 .. 43 /\ i \in 1 .. 44 /\ i <= 21 /\ i <= 41 /\ i <= 43
        OBVIOUS
    <2>. QED
        BY <1>7, <1>8, <1>9, <2>1
<1>11. ASSUME NEW i \in 1 .. 20 PROVE all[21 + i] = p[i]
    <2>1. /\ 21 + i \in 1 .. 41 /\ 21 + i \in 1 .. 43 /\ 21 + i \in 1 .. 44
          /\ ~(21 + i <= 21) /\ 21 + i <= 41 /\ 21 + i <= 43 /\ (21 + i) - 21 = i
        OBVIOUS
    <2>2. all[21 + i] = rp[21 + i]
        BY <1>8, <1>9, <2>1
    <2>. QED
        BY <1>7, <2>1, <2>2
<1>12. ASSUME NEW i \in 1 .. 2 PROVE all[41 + i] = g[i]
    <2>1. 41 + i \in 1 .. 43 /\ 41 + i \in 1 .. 44 /\ ~(41 + i <= 41) /\ 41 + i <= 43 /\ (41 + i) - 41 = i
        OBVIOUS
    <2>. QED
        BY <1>8, <1>9, <2>1
<1>13. DOMAIN all = 1 .. 44
    BY <1>9
<1>14. /\ \A i \in 1 .. 21 : i \in 1 .. 43
       /\ \A i \in 1 .. 20 : 21 + i \in 1 .. 43
       /\ \A i \in 1 .. 2 : 41 + i \in 1 .. 43
    OBVIOUS
<1>. QED
    BY <1>3, <1>4, <1>5, <1>9, <1>10, <1>11, <1>12, <1>13, <1>14

------------------------------------------------------------------------------
(* What the parts of the membership are.                                   *)

\* An entry that is written out is an address.
LEMMA WrittenAddress ==
    ASSUME NEW path, \A i \in DOMAIN path : path[i] # "*", path = [i \in DOMAIN path |-> path[i]],
           NEW k \in 1 .. 44, Routes[k].path = path
    PROVE  path \in Addresses(Ids)
<1>1. PICK id \in Ids : TRUE
    BY MembershipAssumption
<1>2. path = [i \in DOMAIN Routes[k].path |-> IF Routes[k].path[i] = "*" THEN id ELSE Routes[k].path[i]]
    OBVIOUS
<1>3. k \in DOMAIN Routes
    BY RoutesParts
<1>. QED
    BY <1>2, <1>3 DEF Addresses

\* The links of the masthead, and where a guard sends a visitor.
MastheadPaths ==
    {<<>>, <<"transfers">>, <<"clubs">>, <<"competitions">>, <<"articles">>, <<"games">>, <<"search">>,
     <<"tactics">>, <<"account">>, <<"desk">>, <<"admin", "users">>, <<"tactics", "new">>, <<"login">>}

\* An entry of the table that is written out.
IsWritten(path) ==
    /\ \E k \in 1 .. 44 : Routes[k].path = path
    /\ path = [i \in DOMAIN path |-> path[i]] /\ \A i \in DOMAIN path : path[i] # "*"

LEMMA MastheadAddresses == MastheadPaths \subseteq Addresses(Ids)
<1>1. /\ \A i \in 1 .. 21 : \E k \in 1 .. 44 : Routes[k] = RecordRoutes[i]
      /\ \A i \in 1 .. 20 : \E k \in 1 .. 44 : Routes[k] = PersonRoutes[i]
      /\ \A i \in 1 .. 2 : \E k \in 1 .. 44 : Routes[k] = GamesRoutes[i]
    <2>1. \A k \in 1 .. 43 : k \in 1 .. 44
        OBVIOUS
    <2>. QED
        BY <2>1, RoutesParts
<1>2. ASSUME NEW i \in 1 .. 21, NEW path, RecordRoutes[i].path = path,
             path = [j \in DOMAIN path |-> path[j]], \A j \in DOMAIN path : path[j] # "*"
      PROVE  IsWritten(path)
    BY <1>1, <1>2 DEF IsWritten
<1>3. ASSUME NEW i \in 1 .. 20, NEW path, PersonRoutes[i].path = path,
             path = [j \in DOMAIN path |-> path[j]], \A j \in DOMAIN path : path[j] # "*"
      PROVE  IsWritten(path)
    BY <1>1, <1>3 DEF IsWritten
<1>4. ASSUME NEW i \in 1 .. 2, NEW path, GamesRoutes[i].path = path,
             path = [j \in DOMAIN path |-> path[j]], \A j \in DOMAIN path : path[j] # "*"
      PROVE  IsWritten(path)
    BY <1>1, <1>4 DEF IsWritten
<1>5. IsWritten(<<>>)
    <2>1. PICK none : none = <<>>
        OBVIOUS
    <2>2. RecordRoutes[1].path = none
        BY <2>1 DEF RecordRoutes, Page
    <2>3. none \in Seq({}) /\ Len(none) = 0
        BY <2>1
    <2>4. none = [j \in DOMAIN none |-> none[j]] /\ \A j \in DOMAIN none : none[j] # "*"
        BY <2>3
    <2>5. IsWritten(none)
        BY <1>2, <2>2, <2>4
    <2>. QED
        BY <2>1, <2>5
<1>6. IsWritten(<<"transfers">>)
    <2>1. RecordRoutes[2].path = <<"transfers">>
        BY DEF RecordRoutes, Page
    <2>. QED
        BY <1>2, <2>1
<1>7. IsWritten(<<"search">>)
    <2>1. RecordRoutes[3].path = <<"search">>
        BY DEF RecordRoutes, Page
    <2>. QED
        BY <1>2, <2>1
<1>8. IsWritten(<<"clubs">>)
    <2>1. RecordRoutes[10].path = <<"clubs">>
        BY DEF RecordRoutes, Page
    <2>. QED
        BY <1>2, <2>1
<1>9. IsWritten(<<"competitions">>)
    <2>1. RecordRoutes[15].path = <<"competitions">>
        BY DEF RecordRoutes, Page
    <2>. QED
        BY <1>2, <2>1
<1>10. IsWritten(<<"login">>)
    <2>1. PersonRoutes[5].path = <<"login">>
        BY DEF PersonRoutes, Page, Editor
    <2>. QED
        BY <1>3, <2>1
<1>11. IsWritten(<<"account">>)
    <2>1. PersonRoutes[9].path = <<"account">>
        BY DEF PersonRoutes, Page, Editor
    <2>. QED
        BY <1>3, <2>1
<1>12. IsWritten(<<"admin", "users">>)
    <2>1. PersonRoutes[10].path = <<"admin", "users">>
        BY DEF PersonRoutes, Page, Editor
    <2>. QED
        BY <1>3, <2>1
<1>13. IsWritten(<<"tactics">>)
    <2>1. PersonRoutes[12].path = <<"tactics">>
        BY DEF PersonRoutes, Page, Editor
    <2>. QED
        BY <1>3, <2>1
<1>14. IsWritten(<<"tactics", "new">>)
    <2>1. PersonRoutes[13].path = <<"tactics", "new">>
        BY DEF PersonRoutes, Page, Editor
    <2>. QED
        BY <1>3, <2>1
<1>15. IsWritten(<<"articles">>)
    <2>1. PersonRoutes[15].path = <<"articles">>
        BY DEF PersonRoutes, Page, Editor
    <2>. QED
        BY <1>3, <2>1
<1>16. IsWritten(<<"desk">>)
    <2>1. PersonRoutes[17].path = <<"desk">>
        BY DEF PersonRoutes, Page, Editor
    <2>. QED
        BY <1>3, <2>1
<1>17. IsWritten(<<"games">>)
    <2>1. GamesRoutes[1].path = <<"games">>
        BY DEF GamesRoutes, Page
    <2>. QED
        BY <1>4, <2>1
<1>18. \A path \in MastheadPaths : IsWritten(path)
    BY <1>5, <1>6, <1>7, <1>8, <1>9, <1>10, <1>11, <1>12, <1>13, <1>14, <1>15, <1>16, <1>17 DEF MastheadPaths
<1>. QED
    BY <1>18, WrittenAddress DEF IsWritten

\* What a guard makes of an address.
LEMMA GuardedAddress ==
    ASSUME NEW path \in Addresses(Ids), NEW s
    PROVE  /\ Guarded(path, s).path \in Addresses(Ids)
           /\ Guarded(path, s).returnTo \in Addresses(Ids) \cup {NoPath}
           /\ PageView(<<>>, NoPath).path \in Addresses(Ids)
           /\ PageView(<<>>, NoPath).returnTo = NoPath
<1>1. <<>> \in Addresses(Ids) /\ <<"login">> \in Addresses(Ids)
    BY MastheadAddresses DEF MastheadPaths
<1>2. \A at, returnTo : PageView(at, returnTo).path = at /\ PageView(at, returnTo).returnTo = returnTo
    BY DEF PageView
<1>. QED
    BY <1>1, <1>2 DEF Guarded

SessionRecords == [status: {"unknown", "anonymous", "authenticated"},
             bearer: Members \cup {NoMember}, user: Members \cup {NoMember}]
Permissions == [seen: Members \cup {NoMember}, due: BOOLEAN, grants: SUBSET Clubs, loaded: BOOLEAN]
Flows == [at: {"none", "sent", "signing in", "profile"},
          via: {"none", "restore", "login", "register", "callback"}, here: BOOLEAN]

ViewTyped == view.path \in Addresses(Ids) /\ view.returnTo \in Addresses(Ids) \cup {NoPath}

\* What will become a request for the grants of u: the profile that was set,
\* and the sign-in that may set it.
Due(u) == IF perms.due /\ session.user = u THEN 1 ELSE 0
Coming(u) == IF flow[u].at # "none" THEN 1 ELSE 0

LookupsCounted ==
    /\ signIns \in 0 .. MaxSignIns
    /\ \A u \in Members : grantLookups[u] + Due(u) + Coming(u) <= signIns + 1

MembershipInv ==
    /\ session \in SessionRecords /\ perms \in Permissions
    /\ flow \in [Members -> Flows]
    /\ grantLookups \in [Members -> Nat]
    /\ ViewTyped /\ LookupsCounted

LEMMA MembershipInitially == MembershipInit => MembershipInv
<1>. SUFFICES ASSUME MembershipInit PROVE MembershipInv
    OBVIOUS
<1>1. session \in SessionRecords /\ perms \in Permissions /\ grantLookups \in [Members -> Nat]
    BY DEF MembershipInit, SessionRecords, Permissions
<1>2. flow \in [Members -> Flows]
    BY DEF MembershipInit, Flows, NoFlow
<1>3. ViewTyped
    BY DEF MembershipInit, ViewTyped
<1>4. LookupsCounted
    BY MembershipAssumption, <1>2 DEF MembershipInit, LookupsCounted, Due, Coming
<1>. QED
    BY <1>1, <1>2, <1>3, <1>4 DEF MembershipInv

\* Pages that are shown.
LEMMA ShowTyped ==
    ASSUME NEW v, v.path \in Addresses(Ids), v.returnTo \in Addresses(Ids) \cup {NoPath}, ViewTyped, StayOrShow(v) \/ Show(v)
    PROVE  ViewTyped'
BY DEF StayOrShow, Show, ViewTyped

\* A page that is left keeps its sign-ins.
LEMMA DetachedTyped ==
    ASSUME NEW f \in [Members -> Flows], flow' = Detached(f)
    PROVE  flow' \in [Members -> Flows] /\ \A u \in Members : flow'[u].at = f[u].at
<1>1. ASSUME NEW u \in Members PROVE flow'[u] \in Flows /\ flow'[u].at = f[u].at
    BY DEF Detached, Flows
<1>2. flow' = [u \in Members |-> flow'[u]]
    BY DEF Detached
<1>. QED
    BY <1>1, <1>2

\* A sign-in begins: one more may ask for grants.
LEMMA StartTyped ==
    ASSUME MembershipInv, NEW u \in Members, NEW via \in {"login", "register", "callback"}, StartFlow(u, via)
    PROVE  MembershipInv'
<1>1. /\ signIns' = signIns + 1 /\ signIns < MaxSignIns /\ flow[u].at = "none"
      /\ UNCHANGED <<session, perms, grantLookups, view>>
      /\ flow' = [flow EXCEPT ![u] = [at |-> "sent", via |-> via, here |-> TRUE]]
    BY DEF StartFlow
<1>2. [at |-> "sent", via |-> via, here |-> TRUE] \in Flows
    BY DEF Flows
<1>3. flow' \in [Members -> Flows] /\ \A w \in Members \ {u} : flow'[w] = flow[w]
    BY <1>1, <1>2 DEF MembershipInv
<1>4. signIns' \in 0 .. MaxSignIns
    BY <1>1, MembershipAssumption DEF MembershipInv, LookupsCounted
<1>5. ASSUME NEW w \in Members PROVE (grantLookups[w] + Due(w) + Coming(w))' <= signIns' + 1
    <2>1. grantLookups[w] + Due(w) + Coming(w) <= signIns + 1 /\ grantLookups[w] \in Nat /\ signIns \in Nat
        BY DEF MembershipInv, LookupsCounted
    <2>2. Due(w)' = Due(w) /\ Due(w) \in 0 .. 1 /\ Coming(w) \in 0 .. 1 /\ Coming(w)' \in 0 .. 1
        BY <1>1 DEF Due, Coming
    <2>3. Coming(w)' = Coming(w) \/ (Coming(w) = 0 /\ Coming(w)' = 1)
        BY <1>1, <1>3 DEF Coming
    <2>. QED
        BY <1>1, <2>1, <2>2, <2>3
<1>. QED
    BY <1>1, <1>3, <1>4, <1>5 DEF MembershipInv, LookupsCounted, ViewTyped

\* Any other step starts no sign-in: nobody is nearer to a request than before.
LEMMA NoNearer ==
    ASSUME MembershipInv, signIns' = signIns,
           \A u \in Members : (grantLookups[u] + Due(u) + Coming(u))' <= grantLookups[u] + Due(u) + Coming(u),
           grantLookups' \in [Members -> Nat]
    PROVE  LookupsCounted'
<1>1. ASSUME NEW u \in Members PROVE (grantLookups[u] + Due(u) + Coming(u))' <= signIns + 1
    <2>1. grantLookups[u] + Due(u) + Coming(u) <= signIns + 1 /\ grantLookups[u] \in Nat /\ signIns \in Nat
          /\ grantLookups'[u] \in Nat
        BY DEF MembershipInv, LookupsCounted
    <2>2. /\ Due(u) \in 0 .. 1 /\ Coming(u) \in 0 .. 1
          /\ Due(u)' \in 0 .. 1 /\ Coming(u)' \in 0 .. 1
        BY DEF Due, Coming
    <2>3. (grantLookups[u] + Due(u) + Coming(u))' <= grantLookups[u] + Due(u) + Coming(u)
        OBVIOUS
    <2>. QED
        BY <2>1, <2>2, <2>3
<1>. QED
    BY <1>1 DEF MembershipInv, LookupsCounted

\* The sign-in of u leaves the page, or ends.
LEMMA LandTyped ==
    ASSUME MembershipInv, NEW u \in Members, NEW s \in SessionRecords, flow[u].at = "profile", Land(u, s)
    PROVE  /\ session' = s /\ flow' \in [Members -> Flows] /\ ViewTyped'
           /\ UNCHANGED <<grantLookups, signIns>>
           /\ Coming(u) = 1 /\ \A w \in Members : Coming(w)' = IF w = u THEN 0 ELSE Coming(w)
<1>1. session' = s /\ UNCHANGED <<grantLookups, signIns>> /\ StayOrShow(Guarded(Destination(u), s))
      /\ flow' = Detached([flow EXCEPT ![u] = NoFlow])
    BY DEF Land
<1>2. Destination(u) \in Addresses(Ids)
    <2>1. <<>> \in Addresses(Ids)
        BY MastheadAddresses DEF MastheadPaths
    <2>. QED
        BY <2>1 DEF Destination, MembershipInv, ViewTyped
<1>3. ViewTyped'
    BY <1>1, <1>2, GuardedAddress, ShowTyped DEF MembershipInv
<1>4. PICK f \in [Members -> Flows] : f = [flow EXCEPT ![u] = NoFlow]
    BY DEF MembershipInv, Flows, NoFlow
<1>5. \A w \in Members : f[w] = IF w = u THEN NoFlow ELSE flow[w]
    BY <1>4 DEF MembershipInv
<1>6. flow' \in [Members -> Flows] /\ \A w \in Members : flow'[w].at = f[w].at
    BY <1>1, <1>4, DetachedTyped
<1>7. NoFlow.at = "none"
    BY DEF NoFlow
<1>8. \A w \in Members : flow'[w].at = IF w = u THEN "none" ELSE flow[w].at
    BY <1>5, <1>6, <1>7
<1>9. Coming(u) = 1 /\ \A w \in Members : Coming(w)' = IF w = u THEN 0 ELSE Coming(w)
    BY <1>8 DEF Coming
<1>. QED
    BY <1>1, <1>3, <1>6, <1>9

LEMMA ProfileTyped ==
    ASSUME MembershipInv, NEW u \in Members, ProfileArrives(u) \/ ProfileFails(u)
    PROVE  MembershipInv'
<1>0. session \in SessionRecords /\ perms \in Permissions /\ grantLookups \in [Members -> Nat] /\ NoMember \notin Members
    BY MembershipAssumption DEF MembershipInv
<1>1. PICK s \in SessionRecords :
          /\ Land(u, s) /\ flow[u].at = "profile"
          /\ \/ perms' = [perms EXCEPT !.due = TRUE] /\ s.user = u
             \/ perms' = perms /\ s = session
             \/ ForgetGrants /\ s.user = NoMember
    <2>1. [session EXCEPT !.user = u] \in SessionRecords /\ [session EXCEPT !.user = u].user = u
        BY <1>0 DEF SessionRecords
    <2>2. Anonymous \in SessionRecords /\ Anonymous.user = NoMember
        BY DEF Anonymous, SessionRecords
    <2>. QED
        BY <1>0, <2>1, <2>2 DEF ProfileArrives, ProfileFails
<1>2. /\ session' = s /\ flow' \in [Members -> Flows] /\ ViewTyped'
      /\ UNCHANGED <<grantLookups, signIns>>
      /\ Coming(u) = 1 /\ \A w \in Members : Coming(w)' = IF w = u THEN 0 ELSE Coming(w)
    BY <1>1, LandTyped
<1>3. perms' \in Permissions
    BY <1>0, <1>1 DEF Permissions, ForgetGrants
<1>4. ASSUME NEW w \in Members
      PROVE  (grantLookups[w] + Due(w) + Coming(w))' <= grantLookups[w] + Due(w) + Coming(w)
    <2>1. grantLookups[w] \in Nat /\ grantLookups'[w] = grantLookups[w]
        BY <1>0, <1>2
    <2>2. /\ Due(w) \in 0 .. 1 /\ Coming(w) \in 0 .. 1 /\ Due(w)' \in 0 .. 1 /\ Coming(w)' \in 0 .. 1
        BY DEF Due, Coming
    <2>3. CASE w = u
        <3>1. Coming(w) = 1 /\ Coming(w)' = 0
            BY <1>2, <2>3
        <3>. QED
            BY <2>1, <2>2, <3>1
    <2>4. CASE w # u
        <3>1. Coming(w)' = Coming(w)
            BY <1>2, <2>4
        <3>2. Due(w)' = 0 \/ Due(w)' = Due(w)
            BY <1>0, <1>1, <1>2, <2>4 DEF Due
        <3>. QED
            BY <2>1, <2>2, <3>1, <3>2
    <2>. QED
        BY <2>3, <2>4
<1>5. LookupsCounted'
    <2>1. grantLookups' \in [Members -> Nat] /\ signIns' = signIns
        BY <1>0, <1>2
    <2>. QED
        BY <1>4, <2>1, NoNearer
<1>. QED
    BY <1>0, <1>2, <1>3, <1>5 DEF MembershipInv

\* A sign-in goes on, or fails before it has a profile.
LEMMA FlowTyped ==
    ASSUME MembershipInv, NEW u \in Members, NEW f \in Flows, flow' = [flow EXCEPT ![u] = f], flow[u].at # "none",
           session' \in SessionRecords, session'.user = session.user, UNCHANGED <<perms, grantLookups, view, signIns>>
    PROVE  MembershipInv'
<1>1. flow' \in [Members -> Flows] /\ \A w \in Members \ {u} : flow'[w] = flow[w]
    BY DEF MembershipInv
<1>2. ASSUME NEW w \in Members
      PROVE  (grantLookups[w] + Due(w) + Coming(w))' <= grantLookups[w] + Due(w) + Coming(w)
    <2>1. grantLookups[w] \in Nat /\ grantLookups'[w] = grantLookups[w] /\ Due(w)' = Due(w)
        BY DEF MembershipInv, Due
    <2>2. /\ Due(w) \in 0 .. 1 /\ Coming(w) \in 0 .. 1 /\ Coming(w)' \in 0 .. 1
        BY DEF Due, Coming
    <2>3. Coming(w)' = Coming(w) \/ Coming(w) = 1
        BY <1>1 DEF Coming
    <2>. QED
        BY <2>1, <2>2, <2>3
<1>3. LookupsCounted'
    <2>1. grantLookups' \in [Members -> Nat] /\ signIns' = signIns
        BY DEF MembershipInv
    <2>. QED
        BY <1>2, <2>1, NoNearer
<1>. QED
    BY <1>1, <1>3 DEF MembershipInv, ViewTyped

LEMMA SignInTyped == ASSUME MembershipInv, NEW u \in Members, SignInSteps(u) PROVE MembershipInv'
<1>0. session \in SessionRecords /\ flow[u] \in Flows
    BY DEF MembershipInv
<1>1. CASE SubmitLogin(u) \/ SubmitRegister(u)
    BY <1>1, StartTyped DEF SubmitLogin, SubmitRegister
<1>2. CASE CompleteOAuth(u)
    <2>1. CASE StartFlow(u, "callback")
        BY <2>1, StartTyped
    <2>2. CASE UNCHANGED <<role, session, flow, perms, grantLookups, leaving, view, signIns, overtaken>>
        BY <2>2 DEF MembershipInv, ViewTyped, LookupsCounted, Due, Coming
    <2>. QED
        BY <1>2, <2>1, <2>2 DEF CompleteOAuth
<1>3. CASE RegisterAnswered(u)
    <2>1. [flow[u] EXCEPT !.at = "signing in"] \in Flows /\ NoFlow \in Flows
        BY <1>0 DEF Flows, NoFlow
    <2>2. flow[u].at # "none" /\ UNCHANGED <<session, perms, grantLookups, view, signIns>>
        BY <1>3 DEF RegisterAnswered
    <2>3. CASE flow' = [flow EXCEPT ![u].at = "signing in"]
        <3>1. flow' = [flow EXCEPT ![u] = [flow[u] EXCEPT !.at = "signing in"]]
            BY <2>3
        <3>. QED
            BY <1>0, <2>1, <2>2, <3>1, FlowTyped
    <2>4. CASE flow' = [flow EXCEPT ![u] = NoFlow]
        BY <1>0, <2>1, <2>2, <2>4, FlowTyped
    <2>. QED
        BY <1>3, <2>3, <2>4 DEF RegisterAnswered
<1>4. CASE TokensArrive(u)
    <2>1. [flow[u] EXCEPT !.at = "profile"] \in Flows
        BY <1>0 DEF Flows
    <2>2. flow[u].at # "none" /\ UNCHANGED <<perms, grantLookups, view, signIns>>
        BY <1>4 DEF TokensArrive
    <2>3. session' \in SessionRecords /\ session'.user = session.user
        BY <1>0, <1>4 DEF TokensArrive, SessionRecords
    <2>4. flow' = [flow EXCEPT ![u] = [flow[u] EXCEPT !.at = "profile"]]
        BY <1>4 DEF TokensArrive
    <2>. QED
        BY <2>1, <2>2, <2>3, <2>4, FlowTyped
<1>5. CASE SignInFails(u)
    <2>1. NoFlow \in Flows
        BY DEF Flows, NoFlow
    <2>2. /\ flow[u].at # "none" /\ UNCHANGED <<session, perms, grantLookups, view, signIns>>
          /\ flow' = [flow EXCEPT ![u] = NoFlow]
        BY <1>5 DEF SignInFails
    <2>. QED
        BY <1>0, <2>1, <2>2, FlowTyped
<1>6. CASE ProfileArrives(u) \/ ProfileFails(u)
    BY <1>6, ProfileTyped
<1>. QED
    BY <1>1, <1>2, <1>3, <1>4, <1>5, <1>6 DEF SignInSteps

\* Steps that leave the sign-ins where they are.
LEMMA SameFlowsTyped ==
    ASSUME MembershipInv, session' \in SessionRecords, perms' \in Permissions, ViewTyped',
           flow' \in [Members -> Flows], \A u \in Members : flow'[u].at = flow[u].at \/ flow'[u].at = "none",
           UNCHANGED <<grantLookups, signIns>>,
           \A u \in Members : perms'.due /\ session'.user = u => perms.due /\ session.user = u
    PROVE  MembershipInv'
<1>1. ASSUME NEW w \in Members
      PROVE  (grantLookups[w] + Due(w) + Coming(w))' <= grantLookups[w] + Due(w) + Coming(w)
    <2>1. grantLookups[w] \in Nat /\ grantLookups'[w] = grantLookups[w]
        BY DEF MembershipInv
    <2>2. /\ Due(w) \in 0 .. 1 /\ Coming(w) \in 0 .. 1 /\ Due(w)' \in 0 .. 1 /\ Coming(w)' \in 0 .. 1
        BY DEF Due, Coming
    <2>3. Coming(w)' <= Coming(w) /\ Due(w)' <= Due(w)
        BY DEF Coming, Due
    <2>. QED
        BY <2>1, <2>2, <2>3
<1>2. LookupsCounted'
    <2>1. grantLookups' \in [Members -> Nat] /\ signIns' = signIns
        BY DEF MembershipInv
    <2>. QED
        BY <1>1, <2>1, NoNearer
<1>. QED
    BY <1>2 DEF MembershipInv

LEMMA MembershipKept == MembershipInv /\ [MembershipNext]_membershipVars => MembershipInv'
<1>. SUFFICES ASSUME MembershipInv, [MembershipNext]_membershipVars PROVE MembershipInv'
    OBVIOUS
<1>0. /\ session \in SessionRecords /\ perms \in Permissions /\ grantLookups \in [Members -> Nat] /\ ViewTyped
      /\ flow \in [Members -> Flows] /\ NoMember \notin Members
    BY MembershipAssumption DEF MembershipInv
<1>1. ASSUME NEW u \in Members, SignInSteps(u) PROVE MembershipInv'
    BY <1>1, SignInTyped
<1>2. ASSUME NEW u \in Members, GrantsAnswered(u) PROVE MembershipInv'
    <2>1. /\ grantLookups[u] > 0 /\ grantLookups' = [grantLookups EXCEPT ![u] = @ - 1]
          /\ UNCHANGED <<session, flow, view, signIns>>
        BY <1>2 DEF GrantsAnswered
    <2>2. PICK ids \in {HeldBy[u], {}} : perms' = [perms EXCEPT !.grants = ids, !.loaded = TRUE]
        BY <1>2 DEF GrantsAnswered
    <2>3. perms' \in Permissions /\ perms'.due = perms.due
        BY <1>0, <2>2, MembershipAssumption DEF Permissions
    <2>4. grantLookups' \in [Members -> Nat] /\ \A w \in Members : grantLookups'[w] <= grantLookups[w]
        BY <1>0, <2>1
    <2>5. ASSUME NEW w \in Members
          PROVE  (grantLookups[w] + Due(w) + Coming(w))' <= grantLookups[w] + Due(w) + Coming(w)
        <3>1. Due(w)' = Due(w) /\ Coming(w)' = Coming(w) /\ Due(w) \in 0 .. 1 /\ Coming(w) \in 0 .. 1
            BY <2>1, <2>3 DEF Due, Coming
        <3>2. grantLookups'[w] <= grantLookups[w] /\ grantLookups'[w] \in Nat /\ grantLookups[w] \in Nat
            BY <1>0, <2>4
        <3>. QED
            BY <3>1, <3>2
    <2>6. LookupsCounted'
        BY <2>1, <2>4, <2>5, NoNearer
    <2>. QED
        BY <1>0, <2>1, <2>3, <2>4, <2>6 DEF MembershipInv, ViewTyped
<1>3. CASE Navigate
    <2>1. PICK path \in (HeaderLinks \cap Followed) \cup LinkedPaths : Show(Guarded(path, session))
        BY <1>3 DEF Navigate
    <2>2. path \in Addresses(Ids)
        <3>1. HeaderLinks \subseteq MastheadPaths
            BY DEF HeaderLinks, MastheadPaths
        <3>. QED
            BY <2>1, <3>1, MastheadAddresses, MembershipAssumption
    <2>3. ViewTyped'
        BY <1>0, <2>1, <2>2, GuardedAddress, ShowTyped
    <2>4. UNCHANGED <<session, perms, grantLookups, signIns>> /\ flow' = Detached(flow)
        BY <1>3 DEF Navigate
    <2>. QED
        BY <1>0, <2>3, <2>4, DetachedTyped, SameFlowsTyped
<1>4. CASE RestoreEnds
    <2>1. /\ session' = Anonymous /\ flow' = [u \in Members |-> NoFlow]
          /\ UNCHANGED <<perms, grantLookups, signIns>> /\ Show(Guarded(view.path, Anonymous))
        BY <1>4 DEF RestoreEnds
    <2>2. Anonymous \in SessionRecords /\ Anonymous.user = NoMember
        BY DEF Anonymous, SessionRecords
    <2>3. NoFlow \in Flows /\ NoFlow.at = "none"
        BY DEF Flows, NoFlow
    <2>4. view.path \in Addresses(Ids)
        BY <1>0 DEF ViewTyped
    <2>5. ViewTyped'
        BY <1>0, <2>1, <2>4, GuardedAddress, ShowTyped
    <2>. QED
        BY <1>0, <2>1, <2>2, <2>3, <2>5, SameFlowsTyped
<1>5. CASE PermissionsEffect
    <2>1. perms.due /\ UNCHANGED <<session, flow, view, signIns>>
        BY <1>5 DEF PermissionsEffect
    <2>2. perms' \in Permissions /\ ~perms'.due
        <3>1. NoGrants \in Permissions /\ ~NoGrants.due
            BY DEF Permissions, NoGrants
        <3>2. CASE session.user = NoMember
            BY <1>5, <3>1, <3>2 DEF PermissionsEffect
        <3>3. CASE session.user # NoMember
            <4>1. session.user \in Members
                BY <1>0, <3>3 DEF SessionRecords
            <4>2. \/ perms' = [perms EXCEPT !.seen = session.user, !.due = FALSE, !.loaded = TRUE]
                  \/ perms' = [perms EXCEPT !.seen = session.user, !.due = FALSE]
                BY <1>5, <3>3 DEF PermissionsEffect
            <4>. QED
                BY <1>0, <4>1, <4>2 DEF Permissions
        <3>. QED
            BY <3>2, <3>3
    <2>3. \/ grantLookups' = grantLookups
          \/ session.user \in Members /\ grantLookups' = [grantLookups EXCEPT ![session.user] = @ + 1]
        BY <1>0, <1>5 DEF PermissionsEffect, SessionRecords
    <2>4. grantLookups' \in [Members -> Nat]
        BY <1>0, <2>3
    <2>5. ASSUME NEW w \in Members
          PROVE  (grantLookups[w] + Due(w) + Coming(w))' <= grantLookups[w] + Due(w) + Coming(w)
        <3>1. Due(w)' = 0 /\ Coming(w)' = Coming(w) /\ Due(w) \in 0 .. 1 /\ Coming(w) \in 0 .. 1
            BY <2>1, <2>2 DEF Due, Coming
        <3>2. grantLookups[w] \in Nat /\ grantLookups'[w] \in Nat
            BY <1>0, <2>4
        <3>3. grantLookups'[w] = grantLookups[w] \/ (session.user = w /\ grantLookups'[w] = grantLookups[w] + 1)
            BY <1>0, <2>3
        <3>4. session.user = w => Due(w) = 1
            BY <2>1 DEF Due
        <3>. QED
            BY <3>1, <3>2, <3>3, <3>4
    <2>6. LookupsCounted'
        BY <2>1, <2>4, <2>5, NoNearer
    <2>. QED
        BY <1>0, <2>1, <2>2, <2>4, <2>6 DEF MembershipInv, ViewTyped
<1>6. CASE ConfigAnswered \/ RenderWidget \/ VerifyEmail \/ SignOut \/ UNCHANGED membershipVars
    <2>1. UNCHANGED <<session, flow, perms, grantLookups, view, signIns>>
        BY <1>6 DEF ConfigAnswered, RenderWidget, VerifyEmail, SignOut, membershipVars
    <2>. QED
        BY <2>1 DEF MembershipInv, ViewTyped, LookupsCounted, Due, Coming
<1>7. CASE SignedOut \/ SessionRefused
    <2>1. /\ session' = Anonymous /\ ForgetGrants /\ UNCHANGED <<grantLookups, signIns>>
        BY <1>7 DEF SignedOut, SessionRefused
    <2>2. Anonymous \in SessionRecords /\ Anonymous.user = NoMember
        BY DEF Anonymous, SessionRecords
    <2>3. perms' \in Permissions
        BY <1>0, <2>1 DEF Permissions, ForgetGrants
    <2>4. view.path \in Addresses(Ids)
        BY <1>0 DEF ViewTyped
    <2>5. ViewTyped'
        <3>1. CASE SignedOut
            <4>1. StayOrShow(PageView(<<>>, NoPath))
                BY <3>1 DEF SignedOut
            <4>. QED
                BY <1>0, <2>4, <4>1, GuardedAddress, ShowTyped
        <3>2. CASE SessionRefused
            BY <1>0, <3>2 DEF SessionRefused, ViewTyped
        <3>. QED
            BY <1>7, <3>1, <3>2
    <2>6. flow' \in [Members -> Flows] /\ \A u \in Members : flow'[u].at = flow[u].at
        <3>1. flow' = flow \/ flow' = Detached(flow)
            BY <1>7 DEF SignedOut, SessionRefused
        <3>. QED
            BY <1>0, <3>1, DetachedTyped
    <2>. QED
        BY <1>0, <2>1, <2>2, <2>3, <2>5, <2>6, SameFlowsTyped
<1>. QED
    BY <1>1, <1>2, <1>3, <1>4, <1>5, <1>6, <1>7 DEF MembershipNext

\* The parts of the membership are what they should be: no order of signing in
\* and out asks for a member's grants more often than there were sign-ins
\* (permissions.ts), and every address that is shown, or returned to, is one of
\* the site's (guards.ts, login.ts).
THEOREM MembershipTypeCorrect == MembershipSpec => []MembershipTypeOK
<1>1. MembershipInv => MembershipTypeOK
    <2>. SUFFICES ASSUME MembershipInv PROVE MembershipTypeOK
        OBVIOUS
    <2>1. ASSUME NEW u \in Members PROVE grantLookups[u] \in 0 .. MaxSignIns + 1
        <3>1. grantLookups[u] + Due(u) + Coming(u) <= signIns + 1 /\ signIns \in 0 .. MaxSignIns /\ grantLookups[u] \in Nat
            BY DEF MembershipInv, LookupsCounted
        <3>2. Due(u) \in 0 .. 1 /\ Coming(u) \in 0 .. 1
            BY DEF Due, Coming
        <3>. QED
            BY <3>1, <3>2, MembershipAssumption
    <2>2. grantLookups \in [Members -> 0 .. MaxSignIns + 1]
        BY <2>1 DEF MembershipInv
    <2>. QED
        BY <2>2 DEF MembershipInv, MembershipTypeOK, SessionRecords, Permissions, Flows, ViewTyped
<1>. QED
    BY <1>1, MembershipInitially, MembershipKept, PTL DEF MembershipSpec

------------------------------------------------------------------------------
(* The notes.                                                              *)

\* Notes of one player: every id and every author once.
NoteRow == [id : Nat, author : Others \cup {Me}, body : Texts]

OnePerAuthor(notes) ==
    /\ notes \subseteq NoteRow
    /\ \A n, m \in notes : n.author = m.author \/ n.id = m.id => n = m

NotesStored ==
    /\ created \in Nat
    /\ noted \in [Persons -> SUBSET NoteRow]
    /\ \A p \in Persons : OnePerAuthor(noted[p]) /\ \A n \in noted[p] : n.id <= created

\* The page's two resources.
NotesResource == [at : {"idle", "loading", "reloading", "ready", "failed"}, got : BOOLEAN,
                  answer : SUBSET NoteRow, value : SUBSET NoteRow]

\* What was read for the own note is one note of the member's.
OneOfMine(notes) == OnePerAuthor(notes) /\ \A n \in notes : n.author = Me

NotesPageOK ==
    /\ onPage \in Persons /\ member \in BOOLEAN
    /\ resource \in [Resources -> NotesResource]
    /\ \A r \in Resources : resource[r].got => isLoading(r)
    /\ OneOfMine(resource["own"].answer) /\ OneOfMine(resource["own"].value)
    /\ resource["own"].at = "idle" => resource["own"].value = {}
    /\ behind \subseteq Resources

NotesWrite ==
    /\ write \in [at : {"none", "out", "done", "refused"}, kind : {"post", "edit"}, player : Persons,
                  id : Nat, body : Texts \cup {0}]
    /\ write.at = "out" => write.body \in Texts
    /\ pending \in NoteRow \cup {NoNote}
    /\ removals \subseteq [note : NoteRow, at : {"out", "done", "refused"}]

\* Something was written whose answer has not come yet.
Underway == write.at = "done" \/ \E d \in removals : d.at = "done"

\* What was read is what is stored.
AsStored(r) ==
    /\ resource[r].got => resource[r].answer = Read(r)
    /\ resource[r].at = "ready" => resource[r].value = Read(r)

ReadAsStored == \A r \in Resources : r \in behind \/ Underway \/ AsStored(r)

NotesInv == NotesStored /\ NotesPageOK /\ NotesWrite /\ ReadAsStored

LEMMA CreateStored ==
    ASSUME NotesStored, NEW p \in Persons, NEW a \in Others \cup {Me}, NEW body \in Texts,
           MayCreate(p, a), Create(p, a, body)
    PROVE  NotesStored'
<1> DEFINE new == [id |-> created + 1, author |-> a, body |-> body]
<1>1. created' = created + 1 /\ created \in Nat /\ noted' = [noted EXCEPT ![p] = noted[p] \cup {new}]
    BY DEF Create, NotesStored
<1>2. new \in NoteRow /\ new.id = created + 1 /\ new.author = a
    BY <1>1 DEF NoteRow
<1>. HIDE DEF new
<1>3. \A q \in Persons : noted'[q] = IF q = p THEN noted[p] \cup {new} ELSE noted[q]
    BY <1>1 DEF NotesStored
<1>4. \A q \in Persons : \A n \in noted[q] : n.id \in Nat /\ n.id <= created
    BY DEF NotesStored, NoteRow
<1>5. \A n \in noted[p] : n.author # a /\ n.id # created + 1
    BY <1>1, <1>4 DEF MayCreate, NotesBy
<1>6. OnePerAuthor(noted[p] \cup {new})
    BY <1>2, <1>5 DEF OnePerAuthor, NotesStored
<1>7. noted' \in [Persons -> SUBSET NoteRow]
    BY <1>1, <1>2 DEF NotesStored
<1>8. ASSUME NEW q \in Persons PROVE OnePerAuthor(noted'[q])
    BY <1>3, <1>6 DEF NotesStored
<1>9. ASSUME NEW q \in Persons, NEW n \in noted'[q] PROVE n.id <= created'
    BY <1>1, <1>2, <1>3, <1>4
<1>. QED
    BY <1>1, <1>7, <1>8, <1>9 DEF NotesStored

LEMMA UpdateStored ==
    ASSUME NotesStored, NEW p \in Persons, NEW id, NEW body \in Texts, Update(p, id, body), created' = created
    PROVE  NotesStored'
<1> DEFINE said(n) == IF n.id = id THEN [n EXCEPT !.body = body] ELSE n
           written == {said(n) : n \in noted[p]}
<1>1. noted' = [noted EXCEPT ![p] = written]
    BY DEF Update
<1>2. \A n \in NoteRow : said(n) \in NoteRow /\ said(n).id = n.id /\ said(n).author = n.author
    BY DEF NoteRow
<1>3. noted[p] \subseteq NoteRow
    BY DEF NotesStored
<1>. HIDE DEF said
<1>4. written \subseteq NoteRow /\ \A n \in written : \E m \in noted[p] : n = said(m)
    BY <1>2, <1>3
<1>5. OnePerAuthor(written) /\ \A n \in written : n.id <= created
    BY <1>2, <1>3, <1>4 DEF OnePerAuthor, NotesStored
<1>. HIDE DEF written
<1>. QED
    BY <1>1, <1>4, <1>5 DEF NotesStored

LEMMA DeleteStored ==
    ASSUME NotesStored, NEW p \in Persons, NEW id, Delete(p, id), created' = created
    PROVE  NotesStored'
    BY DEF NotesStored, Delete, OnePerAuthor

\* What the service answers.
LEMMA ReadTyped ==
    ASSUME NotesStored, onPage \in Persons, NEW r \in Resources
    PROVE  Read(r) \in SUBSET NoteRow /\ (r = "own" => OneOfMine(Read(r)))
    BY DEF NotesStored, Read, ListByPlayer, NotesBy, OneOfMine, OnePerAuthor

LEMMA ReadStays == ASSUME UNCHANGED <<noted, onPage>>, NEW r PROVE Read(r)' = Read(r)
    BY DEF Read, ListByPlayer, NotesBy

LEMMA StoredStays == ASSUME NotesStored, UNCHANGED <<noted, created>> PROVE NotesStored'
    BY DEF NotesStored

\* A reload starts over, unless it is dropped.
LEMMA RefreshOK ==
    ASSUME NotesPageOK, Refresh, behind' = behind \cup Dropped, UNCHANGED <<onPage, member>>
    PROVE  NotesPageOK' /\ ReadAsStored'
<1>1. resource' \in [Resources -> NotesResource]
    BY DEF NotesPageOK, Refresh, Reloaded, NotesResource
<1>2. \A r \in Resources : resource'[r] = Reloaded(r)
    BY DEF Refresh
<1>3. \A r \in Resources : resource[r] \in NotesResource
    BY DEF NotesPageOK
<1>4. ASSUME NEW r \in Resources
      PROVE  /\ resource'[r].got => resource'[r].at \in {"loading", "reloading"} /\ r \in Dropped
             /\ resource'[r].at # "ready"
             /\ resource'[r].value = resource[r].value /\ resource'[r].answer \in {resource[r].answer, {}}
             /\ resource'[r].at = "idle" => resource[r].at = "idle"
    <2>1. resource[r].got => resource[r].at \in {"loading", "reloading"}
        BY DEF NotesPageOK, isLoading
    <2>2. CASE resource[r].at \in {"idle", "loading"}
        BY <1>2, <2>1, <2>2 DEF Reloaded, Dropped
    <2>3. CASE resource[r].at \notin {"idle", "loading"}
        BY <1>2, <1>3, <2>3 DEF Reloaded, NotesResource
    <2>. QED
        BY <2>2, <2>3
<1>5. ReadAsStored'
    BY <1>4 DEF ReadAsStored, AsStored
<1>6. "own" \in Resources /\ OneOfMine({})
    BY DEF Resources, OneOfMine, OnePerAuthor
<1>7. OneOfMine(resource'["own"].answer) /\ OneOfMine(resource'["own"].value)
      /\ (resource'["own"].at = "idle" => resource'["own"].value = {})
    BY <1>4, <1>6 DEF NotesPageOK
<1>8. behind' \subseteq Resources
    BY DEF NotesPageOK, Dropped
<1>. QED
    BY <1>1, <1>4, <1>5, <1>7, <1>8 DEF NotesPageOK, isLoading

\* Everything is stale, or something is under way.
LEMMA StaleOK == ASSUME behind' = Resources \/ Underway' PROVE ReadAsStored'
    BY DEF ReadAsStored

LEMMA ReadAsStoredStays ==
    ASSUME ReadAsStored, UNCHANGED <<noted, onPage, resource, behind>>, Underway => Underway'
    PROVE  ReadAsStored'
    BY ReadStays DEF ReadAsStored, AsStored

LEMMA PageStays ==
    ASSUME NotesPageOK, UNCHANGED <<resource, onPage, member>>, behind' \in {behind, Resources}
    PROVE  NotesPageOK'
    BY DEF NotesPageOK, isLoading

LEMMA OnScreenTyped == ASSUME NotesPageOK PROVE OnScreen \subseteq NoteRow
<1>1. \A r \in Resources : resource[r].value \subseteq NoteRow
    BY DEF NotesPageOK, NotesResource
<1>. QED
    BY <1>1 DEF OnScreen, ordered, mine, Resources

\* Nobody writes while nothing is pressed.
LEMMA WriteStays == ASSUME NotesWrite, UNCHANGED <<write, pending, removals>> PROVE NotesWrite'
    BY DEF NotesWrite

LEMMA NotesInitially == NotesInit => NotesInv
<1> SUFFICES ASSUME NotesInit PROVE NotesInv
    OBVIOUS
<1>1. PICK p \in Persons, notes \in Earlier : noted = [[q \in Persons |-> {}] EXCEPT ![p] = notes]
    BY DEF NotesInit
<1>2. PICK a \in Others, text \in Texts :
         notes \subseteq {[id |-> 1, author |-> Me, body |-> text], [id |-> 2, author |-> a, body |-> text]}
    BY DEF Earlier
<1>3. notes \subseteq NoteRow /\ \A n \in notes : n.id <= 2
    BY <1>2 DEF NoteRow
<1>4. a # Me
    BY NotesAssumption
<1>5. OnePerAuthor(notes) /\ OnePerAuthor({}) /\ OneOfMine({})
    BY <1>2, <1>3, <1>4 DEF OnePerAuthor, OneOfMine
<1>6. created = 2
    BY DEF NotesInit
<1>7. NotesStored
    BY <1>1, <1>3, <1>5, <1>6 DEF NotesStored
<1>8. \A r \in Resources : resource[r] \in NotesResource /\ ~resource[r].got /\ resource[r].at # "ready"
                           /\ resource[r].answer = {} /\ resource[r].value = {}
    BY DEF NotesInit, Unread, FirstRead, NotesResource
<1>9. resource \in [Resources -> NotesResource]
    BY <1>8 DEF NotesInit
<1>10. NotesPageOK /\ ReadAsStored
    BY <1>5, <1>8, <1>9 DEF NotesInit, NotesPageOK, ReadAsStored, AsStored, Resources
<1>11. NotesWrite
    BY DEF NotesInit, NotesWrite, NoWrite, NoNote
<1>. QED
    BY <1>7, <1>10, <1>11 DEF NotesInv

LEMMA NotesStep == NotesInv /\ [NotesNext]_noteVars => NotesInv'
<1> SUFFICES ASSUME NotesStored, NotesPageOK, NotesWrite, ReadAsStored, [NotesNext]_noteVars
             PROVE  NotesStored' /\ NotesPageOK' /\ NotesWrite' /\ ReadAsStored'
    BY DEF NotesInv
<1> USE DEF NotesInv
<1>1. ASSUME NEW r \in Resources, ServeRead(r) PROVE NotesInv'
    <2>1. Read(r)' = Read(r) /\ NotesStored'
        BY <1>1, ReadStays, StoredStays DEF ServeRead
    <2>2. Read(r) \in SUBSET NoteRow /\ (r = "own" => OneOfMine(Read(r)))
        BY ReadTyped DEF NotesPageOK
    <2>3. /\ resource'[r].answer = Read(r) /\ resource'[r].value = resource[r].value
          /\ resource'[r].at = resource[r].at /\ resource[r].at \in {"loading", "reloading"}
          /\ \A q \in Resources \ {r} : resource'[q] = resource[q]
        BY <1>1 DEF ServeRead, isLoading, NotesPageOK, NotesResource
    <2>4. resource' \in [Resources -> NotesResource]
        BY <1>1, <2>2 DEF ServeRead, NotesPageOK, NotesResource
    <2>5. NotesPageOK'
        BY <1>1, <2>2, <2>3, <2>4 DEF ServeRead, NotesPageOK, isLoading, Resources
    <2>6. ASSUME NEW q \in Resources PROVE q \in behind' \/ Underway' \/ AsStored(q)'
        <3>1. Read(q)' = Read(q) /\ (Underway => Underway')
            BY <1>1, ReadStays DEF ServeRead, Underway
        <3>. QED
            BY <1>1, <2>1, <2>3, <3>1 DEF ServeRead, ReadAsStored, AsStored
    <2>7. NotesWrite'
        BY <1>1 DEF ServeRead, NotesWrite
    <2>. QED
        BY <2>1, <2>5, <2>6, <2>7 DEF ReadAsStored
<1>2. ASSUME NEW r \in Resources, ReadArrives(r) PROVE NotesInv'
    <2>1. NotesStored' /\ NotesWrite' /\ OneOfMine({})
        BY <1>2, StoredStays DEF ReadArrives, NotesWrite, OneOfMine, OnePerAuthor
    <2>2. /\ resource'[r] = [at |-> "ready", got |-> FALSE, answer |-> {}, value |-> resource[r].answer]
          /\ \A q \in Resources \ {r} : resource'[q] = resource[q]
          /\ resource' \in [Resources -> NotesResource]
        BY <1>2 DEF ReadArrives, NotesPageOK, NotesResource, Unread
    <2>3. OneOfMine(resource'["own"].answer) /\ OneOfMine(resource'["own"].value)
          /\ (resource'["own"].at = "idle" => resource'["own"].value = {})
        BY <2>1, <2>2 DEF NotesPageOK, Resources
    <2>4. \A q \in Resources : resource'[q].got => resource'[q].at \in {"loading", "reloading"}
        BY <2>2 DEF NotesPageOK, isLoading
    <2>5. NotesPageOK'
        BY <1>2, <2>2, <2>3, <2>4 DEF ReadArrives, NotesPageOK, isLoading
    <2>6. ASSUME NEW q \in Resources PROVE q \in behind' \/ Underway' \/ AsStored(q)'
        <3>1. Read(q)' = Read(q) /\ (Underway => Underway')
            BY <1>2, ReadStays DEF ReadArrives, Underway
        <3>. QED
            BY <1>2, <2>2, <3>1 DEF ReadArrives, ReadAsStored, AsStored
    <2>. QED
        BY <2>1, <2>5, <2>6 DEF ReadAsStored
<1>3. CASE ListFails
    <2>1. NotesStored' /\ NotesWrite'
        BY <1>3, StoredStays DEF ListFails, NotesWrite
    <2>2. /\ resource'["list"].at = "failed" /\ ~resource'["list"].got
          /\ \A q \in Resources \ {"list"} : resource'[q] = resource[q]
          /\ resource' \in [Resources -> NotesResource]
        BY <1>3 DEF ListFails, NotesPageOK, NotesResource, Unread, Resources
    <2>3. NotesPageOK'
        BY <1>3, <2>2 DEF ListFails, NotesPageOK, isLoading, Resources
    <2>4. ASSUME NEW q \in Resources PROVE q \in behind' \/ Underway' \/ AsStored(q)'
        <3>1. Read(q)' = Read(q) /\ (Underway => Underway')
            BY <1>3, ReadStays DEF ListFails, Underway
        <3>. QED
            BY <1>3, <2>2, <3>1 DEF ListFails, ReadAsStored, AsStored
    <2>. QED
        BY <2>1, <2>3, <2>4 DEF ReadAsStored
<1>4. CASE \/ \E n \in OnScreen : startEdit(n) \/ askDelete(n)
           \/ LeaveEdit \/ UNCHANGED noteVars
    <2>1. UNCHANGED <<noted, created, resource, onPage, member, behind, write, removals>>
        BY <1>4 DEF startEdit, askDelete, LeaveEdit, noteVars
    <2>2. pending' \in NoteRow \cup {NoNote}
        BY <1>4, OnScreenTyped DEF startEdit, askDelete, LeaveEdit, noteVars, NotesWrite
    <2>3. NotesWrite'
        BY <2>1, <2>2 DEF NotesWrite
    <2>. QED
        BY <2>1, <2>3, StoredStays, PageStays, ReadAsStoredStays DEF Underway
<1>5. CASE post \/ saveEdit \/ \E confirmed \in BOOLEAN : CloseDialog(confirmed)
    <2>1. /\ UNCHANGED <<noted, created, resource, onPage, member, behind>>
          /\ Underway => Underway'
        BY <1>5 DEF post, saveEdit, Press, CloseDialog, writing, Underway
    <2>2. NotesWrite'
        <3>1. ASSUME NEW text \in Texts, NEW kind \in {"post", "edit"}, NEW id \in Nat,
                     Press([at |-> "out", kind |-> kind, player |-> onPage, id |-> id, body |-> text]),
                     UNCHANGED <<pending, removals>>
              PROVE  NotesWrite'
            BY <3>1 DEF Press, NotesWrite, NotesPageOK
        <3>2. CASE post
            BY <1>5, <3>1, <3>2 DEF post, Press
        <3>3. CASE saveEdit
            <4>1. editing \in Nat
                BY <3>3, OnScreenTyped DEF saveEdit, NoteRow
            <4>. QED
                BY <3>1, <3>3, <4>1 DEF saveEdit, Press
        <3>4. CASE \E confirmed \in BOOLEAN : CloseDialog(confirmed)
            BY <3>4 DEF CloseDialog, NotesWrite
        <3>. QED
            BY <1>5, <3>2, <3>3, <3>4
    <2>. QED
        BY <2>1, <2>2, StoredStays, PageStays, ReadAsStoredStays
<1>6. CASE ServeWrite
    <2>1. write.player \in Persons /\ write.body \in Texts
        BY <1>6 DEF ServeWrite, NotesWrite
    <2>2. NotesStored'
        BY <1>6, <2>1, CreateStored, UpdateStored, StoredStays DEF ServeWrite
    <2>3. NotesPageOK'
        BY <1>6, PageStays DEF ServeWrite
    <2>4. NotesWrite' /\ (write'.at = "done" \/ UNCHANGED noted)
        BY <1>6 DEF ServeWrite, NotesWrite
    <2>5. UNCHANGED <<onPage, resource, behind, removals>> /\ write.at = "out"
        BY <1>6 DEF ServeWrite
    <2>6. ReadAsStored'
        BY <2>4, <2>5, StaleOK, ReadAsStoredStays DEF Underway
    <2>. QED
        BY <2>2, <2>3, <2>4, <2>6
<1>7. CASE WriteSucceeds
    BY <1>7, StoredStays, RefreshOK DEF WriteSucceeds, NotesWrite, NoWrite
<1>8. CASE WriteFails
    <2>1. NotesStored' /\ NotesPageOK' /\ NotesWrite'
        BY <1>8, StoredStays, PageStays DEF WriteFails, NotesWrite, NoWrite
    <2>2. behind' = Resources \/ (UNCHANGED behind /\ write.at # "done")
        BY <1>8 DEF WriteFails
    <2>3. UNCHANGED <<noted, onPage, resource, removals>>
        BY <1>8 DEF WriteFails
    <2>4. ReadAsStored'
        BY <2>2, <2>3, StaleOK, ReadAsStoredStays DEF Underway
    <2>. QED
        BY <2>1, <2>4
<1>9. ASSUME NEW d \in removals, ServeRemoval(d) PROVE NotesInv'
    <2>1. NotesStored'
        BY <1>9, DeleteStored, StoredStays DEF ServeRemoval
    <2>2. NotesPageOK' /\ NotesWrite'
        BY <1>9, PageStays DEF ServeRemoval, NotesWrite
    <2>3. Underway' \/ (UNCHANGED noted /\ (Underway => Underway'))
        <3>1. d.at = "out" /\ [d EXCEPT !.at = "done"].at = "done" /\ UNCHANGED write
            BY <1>9 DEF ServeRemoval, NotesWrite
        <3>2. \/ removals' = (removals \ {d}) \cup {[d EXCEPT !.at = "done"]}
              \/ removals' = (removals \ {d}) \cup {[d EXCEPT !.at = "refused"]} /\ UNCHANGED noted
            BY <1>9 DEF ServeRemoval
        <3>3. CASE removals' = (removals \ {d}) \cup {[d EXCEPT !.at = "done"]}
            BY <3>1, <3>3 DEF Underway
        <3>4. CASE removals' = (removals \ {d}) \cup {[d EXCEPT !.at = "refused"]} /\ UNCHANGED noted
            BY <3>1, <3>4 DEF Underway
        <3>. QED
            BY <3>2, <3>3, <3>4
    <2>4. UNCHANGED <<onPage, resource, behind>>
        BY <1>9 DEF ServeRemoval
    <2>5. ReadAsStored'
        BY <2>3, <2>4, StaleOK, ReadAsStoredStays
    <2>. QED
        BY <2>1, <2>2, <2>5
<1>10. ASSUME NEW d \in removals, RemovalSucceeds(d) PROVE NotesInv'
    BY <1>10, StoredStays, RefreshOK DEF RemovalSucceeds, NotesWrite
<1>11. ASSUME NEW d \in removals, RemovalFails(d) PROVE NotesInv'
    <2>1. NotesStored' /\ NotesPageOK' /\ NotesWrite'
        BY <1>11, StoredStays, PageStays DEF RemovalFails, NotesWrite
    <2>2. behind' = Resources \/ (UNCHANGED behind /\ (Underway => Underway'))
        BY <1>11 DEF RemovalFails, Underway
    <2>3. UNCHANGED <<noted, onPage, resource>>
        BY <1>11 DEF RemovalFails
    <2>4. ReadAsStored'
        BY <2>2, <2>3, StaleOK, ReadAsStoredStays
    <2>. QED
        BY <2>1, <2>4
<1>12. ASSUME NEW p \in Persons, Visit(p) PROVE NotesInv'
    <2>1. NotesStored' /\ NotesWrite'
        BY <1>12, StoredStays DEF Visit, NotesWrite
    <2>2. \A r \in Resources : /\ resource'[r] \in NotesResource /\ ~resource'[r].got /\ resource'[r].at # "ready"
                               /\ resource'[r].answer = {} /\ resource'[r].value = {}
        BY <1>12 DEF Visit, Unread, FirstRead, NotesResource
    <2>3. resource' \in [Resources -> NotesResource] /\ OneOfMine({}) /\ "own" \in Resources
        BY <1>12, <2>2 DEF Visit, OneOfMine, OnePerAuthor, Resources
    <2>4. NotesPageOK' /\ ReadAsStored'
        BY <1>12, <2>2, <2>3 DEF Visit, NotesPageOK, ReadAsStored, AsStored
    <2>. QED
        BY <2>1, <2>4
<1>13. CASE SessionChanges
    <2>1. NotesStored' /\ NotesWrite'
        BY <1>13, StoredStays DEF SessionChanges, NotesWrite
    <2>2. /\ resource'["own"] \in NotesResource /\ ~resource'["own"].got /\ resource'["own"].at # "ready"
          /\ resource'["own"].answer = {} /\ resource'["own"].value = {}
          /\ \A q \in Resources \ {"own"} : resource'[q] = resource[q]
        BY <1>13 DEF SessionChanges, Unread, FirstRead, NotesResource, NotesPageOK, Resources
    <2>3. resource' \in [Resources -> NotesResource] /\ OneOfMine({}) /\ "own" \in Resources
        BY <1>13, <2>2 DEF SessionChanges, NotesPageOK, OneOfMine, OnePerAuthor, Resources
    <2>4. NotesPageOK'
        BY <1>13, <2>2, <2>3 DEF SessionChanges, NotesPageOK, isLoading
    <2>5. ASSUME NEW q \in Resources PROVE q \in behind' \/ Underway' \/ AsStored(q)'
        <3>1. Read(q)' = Read(q) /\ (Underway => Underway')
            BY <1>13, ReadStays DEF SessionChanges, Underway
        <3>. QED
            BY <1>13, <2>2, <3>1 DEF SessionChanges, ReadAsStored, AsStored
    <2>. QED
        BY <2>1, <2>4, <2>5 DEF ReadAsStored
<1>14. CASE Elsewhere
    <2>1. onPage \in Persons
        BY DEF NotesPageOK
    <2>2. NotesStored'
        BY <1>14, <2>1, CreateStored, UpdateStored, DeleteStored DEF Elsewhere
    <2>3. NotesPageOK' /\ NotesWrite'
        BY <1>14, PageStays DEF Elsewhere, NotesWrite
    <2>4. ReadAsStored'
        BY <1>14, StaleOK DEF Elsewhere
    <2>. QED
        BY <2>2, <2>3, <2>4
<1>. QED
    BY <1>1, <1>2, <1>3, <1>4, <1>5, <1>6, <1>7, <1>8, <1>9, <1>10, <1>11, <1>12, <1>13, <1>14 DEF NotesNext

\* What the page shows when it has come to rest is what the service stores
\* (player-notes.ts, ordered, mine and refresh).
THEOREM NotesCorrect == NotesSpec => []NotesAreCurrent
<1>1. ASSUME NotesInv PROVE NotesAreCurrent
    <2> SUFFICES ASSUME ~writing, removals = {}, behind = {}, resource["list"].at = "ready",
                        resource["own"].at = (IF member THEN "ready" ELSE "idle")
                 PROVE  LET own == IF member THEN NotesBy(onPage, Me) ELSE {}
                        IN  /\ ordered = [first |-> own,
                                          rest |-> {n \in ListByPlayer(onPage) : own = {} \/ n.author # Me}]
                            /\ composer <=> member /\ own = {}
        BY DEF NotesAreCurrent
    <2>1. PICK own : own = IF member THEN NotesBy(onPage, Me) ELSE {}
        OBVIOUS
    <2>2. "own" \in Resources /\ "list" \in Resources /\ ~Underway
        BY DEF Resources, Underway, writing
    <2>3. resource["list"].value = ListByPlayer(onPage)
        BY <1>1, <2>2 DEF NotesInv, ReadAsStored, AsStored, Read
    <2>4. mine = own
        BY <1>1, <2>1, <2>2 DEF NotesInv, NotesPageOK, ReadAsStored, AsStored, Read, mine
    <2>5. OnePerAuthor(noted[onPage])
        BY <1>1 DEF NotesInv, NotesStored, NotesPageOK
    <2>6. ASSUME NEW n \in ListByPlayer(onPage)
          PROVE  (\A o \in own : n.id # o.id) <=> (own = {} \/ n.author # Me)
        <3>1. n \in noted[onPage] /\ \A o \in own : o \in noted[onPage] /\ o.author = Me
            BY <2>1, <2>6 DEF ListByPlayer, NotesBy
        <3>. QED
            BY <2>5, <3>1 DEF OnePerAuthor
    <2>7. composer <=> member /\ own = {}
        BY <2>4 DEF composer, isLoading
    <2>8. {n \in ListByPlayer(onPage) : \A o \in own : n.id # o.id}
          = {n \in ListByPlayer(onPage) : own = {} \/ n.author # Me}
        BY <2>6
    <2>9. ordered = [first |-> own, rest |-> {n \in ListByPlayer(onPage) : own = {} \/ n.author # Me}]
        BY <2>3, <2>4, <2>8 DEF ordered
    <2>. QED
        BY <2>1, <2>7, <2>9
<1>. QED
    BY <1>1, NotesInitially, NotesStep, PTL DEF NotesSpec

\* Every value of the page and of the service has its type, and nobody has two
\* notes on one player.
THEOREM NotesTypeCorrect == NotesSpec => []NotesTypeOK
<1>1. ASSUME NotesInv PROVE NotesTypeOK
    <2>1. \A p \in Persons : \A n, m \in noted[p] : n.author = m.author => n = m
        BY <1>1 DEF NotesInv, NotesStored, OnePerAuthor
    <2>2. \A r \in Resources : resource[r].at \in {"idle", "loading", "reloading", "ready", "failed"}
        BY <1>1 DEF NotesInv, NotesPageOK, NotesResource
    <2>3. \A n, m \in mine : n = m
        BY <1>1 DEF NotesInv, NotesPageOK, OneOfMine, OnePerAuthor, mine
    <2>4. mine = {} \/ \E n : mine = {n}
        BY <2>3
    <2>5. Cardinality(mine) \in {0, 1}
        BY <2>4, FS_EmptySet, FS_Singleton
    <2>. QED
        BY <1>1, <2>1, <2>2, <2>5 DEF NotesInv, NotesPageOK, NotesWrite, NotesTypeOK
<1>. QED
    BY <1>1, NotesInitially, NotesStep, PTL DEF NotesSpec
===============================================================================
