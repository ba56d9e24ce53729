---------------------------- MODULE RecordsProofs ----------------------------
(***************************************************************************)
(* Proofs about the three record-keeping modules, Transfers, Valuations    *)
(* and CoachSpells, and about the accounts, for any number of players,     *)
(* coaches, clubs, accounts, requests and rows, any figures and any days.  *)
(*                                                                         *)
(* SquadFollowsRecord is not inductive.  The strengthening says who holds  *)
(* which lock (PlayerLocks, TeamLocks) and, of each request, what it has   *)
(* seen and may still rely on because of its locks: the player is where    *)
(* the move starts (Placed), the UPDATE's verdict still stands (Judged),   *)
(* and the cascade has every player of its club in hand (Cascading).       *)
(*                                                                         *)
(* Valuations and appointments lock neither the player nor the coach       *)
(* before they read: their strengthenings say, of each request in flight   *)
(* that no commit has overtaken, that what it read still stands.           *)
(*                                                                         *)
(* LinkPolicy is decided two statements before the INSERT it is about, so  *)
(* the invariant carries the decision in the request (Known); likewise the *)
(* links an Issue has picked exist, whatever became of them since, and     *)
(* those it has locked are its own and still outstanding (Locking).        *)
(***************************************************************************)
EXTENDS MCServices, TLAPS

-----------------------------------------------------------------------------
(* Transfers.                                                              *)

(* The locks of a request in state r.                                      *)
RLocks(r, x) ==
    \/ r.pc \in {"insert", "update", "commit"} /\ r.move.player = x
    \/ r.pc = "cascade" /\ x \in r.held

RShares(r, t) == r.pc \in {"update", "commit"} /\ t \in {r.move.from, r.move.to}

RDeletes(r, t) == r.pc = "cascade" /\ r.team = t

(* What a request in state r may rely on.                                  *)
Dated(r) ==
    r.pc \in {"lock", "insert", "update", "commit"}
      => r.move.player \in Players /\ r.move.date \in Days

Placed(r) ==
    r.pc \in {"insert", "update", "commit"}
      => status[r.move.player] = "here" /\ club[r.move.player] = r.move.from

LaterOnRecord(m) ==
    \E i \in MoveIds : moves[i].player = m.player /\ moves[i].date > m.date

Judged(r) ==
    r.pc = "commit"
      => /\ r.latest => IsLatest(r.move)
         /\ ~r.latest => r.move.player \in adrift \/ LaterOnRecord(r.move)

Cascading(r) ==
    r.pc = "cascade"
      => /\ r.team \in Teams
         /\ \A x \in Players : /\ club[x] = r.team => x \in r.todo \cup r.held
                               /\ x \in r.held => club[x] = r.team

Sound(r) == r \in Job /\ Dated(r) /\ Placed(r) /\ Judged(r) /\ Cascading(r)

PlayerLocks ==
    \A p, q \in Procs, x \in Players :
       RLocks(job[p], x) /\ RLocks(job[q], x) => p = q

TeamLocks ==
    \A p, q \in Procs, t \in Teams :
       RDeletes(job[p], t) /\ (RDeletes(job[q], t) \/ RShares(job[q], t)) => p = q

Unplaced == \A x \in Players : status[x] # "here" => club[x] = NoTeam

TransferInv ==
    /\ TransferTypeOK
    /\ \A p \in Procs : Sound(job[p])
    /\ PlayerLocks
    /\ TeamLocks
    /\ Unplaced
    /\ SquadFollowsRecord

-----------------------------------------------------------------------------
LEMMA NoMoveIsMove == NoMove \in Move
  BY DEF NoMove, Move, OptTeam

LEMMA NoJobIsSound == Sound(NoJob)
  BY NoMoveIsMove DEF Sound, NoJob, Job, Dated, Placed, Judged, Cascading, OptTeam

LEMMA NoJobLocksNothing ==
    /\ \A x : ~RLocks(NoJob, x)
    /\ \A t : ~RShares(NoJob, t) /\ ~RDeletes(NoJob, t)
  BY DEF NoJob, RLocks, RShares, RDeletes

LEMMA LocksOfJobs ==
    ASSUME NEW p \in Procs
    PROVE  /\ \A x : LocksPlayer(p, x) <=> RLocks(job[p], x)
           /\ \A t : SharesTeam(p, t) <=> RShares(job[p], t)
           /\ \A t : DeletesTeam(p, t) <=> RDeletes(job[p], t)
  BY DEF LocksPlayer, SharesTeam, DeletesTeam, RLocks, RShares, RDeletes

LEMMA TransferInvInit == TransferInit => TransferInv
<1> SUFFICES ASSUME TransferInit PROVE TransferInv
  OBVIOUS
<1>1. \A p \in Procs : job[p] = NoJob
  BY DEF TransferInit
<1>2. \A i \in MoveIds : moves[i] = NoMove /\ ~OnRecord(i)
  BY DEF TransferInit, NoMove, OnRecord
<1>3. NoJob \in Job
  BY NoJobIsSound DEF Sound
<1>4. TransferTypeOK
  <2>1. job \in [Procs -> Job] /\ moves \in [MoveIds -> Move]
    BY <1>3, NoMoveIsMove DEF TransferInit
  <2>2. \A p \in Procs : job[p].pc = "idle"
    BY <1>1 DEF NoJob
  <2>3. QED
    BY <1>2, <2>1, <2>2 DEF TransferTypeOK, TransferInit, OptTeam
<1>5. \A p \in Procs : Sound(job[p])
  BY <1>1, NoJobIsSound
<1>6. PlayerLocks /\ TeamLocks
  BY <1>1, NoJobLocksNothing DEF PlayerLocks, TeamLocks
<1>7. Unplaced /\ SquadFollowsRecord
  BY DEF TransferInit, Unplaced, SquadFollowsRecord
<1>8. QED
  BY <1>4, <1>5, <1>6, <1>7 DEF TransferInv

-----------------------------------------------------------------------------
(***************************************************************************)
(* A step that writes no table: request p goes from job[p] to r.           *)
(***************************************************************************)
LEMMA JobStep ==
    ASSUME TransferInv, NEW p \in Procs, NEW r, Sound(r),
           job' = [job EXCEPT ![p] = r],
           UNCHANGED <<status, club, clubs, moves, adrift>>,
           \A q \in Procs \ {p}, x \in Players : ~(RLocks(r, x) /\ RLocks(job[q], x)),
           \A q \in Procs \ {p}, t \in Teams :
              /\ ~(RDeletes(r, t) /\ (RDeletes(job[q], t) \/ RShares(job[q], t)))
              /\ ~(RShares(r, t) /\ RDeletes(job[q], t))
    PROVE  TransferInv'
<1>1. job \in [Procs -> Job] /\ r \in Job
  BY DEF TransferInv, TransferTypeOK, Sound
<1>2. job'[p] = r /\ \A q \in Procs \ {p} : job'[q] = job[q]
  BY <1>1
<1>3. \A q \in Procs : Sound(job'[q])
  BY <1>2 DEF TransferInv
<1>4. \A q \in Procs : Sound(job[q])'
  BY <1>3 DEF Sound, Dated, Placed, Judged, Cascading, IsLatest, LaterOnRecord
<1>5. TransferTypeOK'
  <2>1. job' \in [Procs -> Job]
    BY <1>1
  <2>2. \A q \in Procs : Dated(job'[q])
    BY <1>3 DEF Sound
  <2>3. QED
    BY <2>1, <2>2 DEF TransferInv, TransferTypeOK, Dated, OnRecord
<1>6. PlayerLocks'
  BY <1>2 DEF TransferInv, PlayerLocks, RLocks
<1>7. TeamLocks'
  BY <1>2 DEF TransferInv, TeamLocks, RDeletes, RShares
<1>8. Unplaced' /\ SquadFollowsRecord'
  BY DEF TransferInv, Unplaced, SquadFollowsRecord, FollowsRecord, LatestOf
<1>9. QED
  BY <1>4, <1>5, <1>6, <1>7, <1>8 DEF TransferInv

-----------------------------------------------------------------------------
(***************************************************************************)
(* The steps of one request.                                               *)
(***************************************************************************)
LEMMA RecordTransferStep ==
    ASSUME TransferInv, NEW p \in Procs, NEW x \in Players, NEW to \in OptTeam, NEW d \in Days,
           RecordTransfer(p, x, to, d)
    PROVE  TransferInv'
<1> DEFINE m == [player |-> x, from |-> club[x], to |-> to, date |-> d]
           r == [NoJob EXCEPT !.pc = "lock", !.move = m]
<1>1. m \in Move
  BY DEF TransferInv, TransferTypeOK, Move
<1>2. r \in Job /\ r.pc = "lock" /\ r.move = m
  BY <1>1, NoMoveIsMove DEF NoJob, Job, OptTeam
<1>3. Sound(r)
  BY <1>2 DEF Sound, Dated, Placed, Judged, Cascading
<1>4. /\ \A y : ~RLocks(r, y)
      /\ \A t : ~RShares(r, t) /\ ~RDeletes(r, t)
  BY <1>2 DEF RLocks, RShares, RDeletes
<1>5. job' = [job EXCEPT ![p] = r] /\ UNCHANGED <<status, club, clubs, moves, adrift>>
  BY DEF RecordTransfer
<1> HIDE DEF r
<1>6. QED
  BY <1>3, <1>4, <1>5, JobStep

(* A request that gives up, for whatever reason.                           *)
LEMMA DoneStep ==
    ASSUME TransferInv, NEW p \in Procs, Done(p),
           UNCHANGED <<status, club, clubs, moves, adrift>>
    PROVE  TransferInv'
  BY JobStep, NoJobIsSound, NoJobLocksNothing DEF Done

LEMMA LockPlayerStep ==
    ASSUME TransferInv, NEW p \in Procs, LockPlayer(p)
    PROVE  TransferInv'
<1> DEFINE m == job[p].move
           r == [job[p] EXCEPT !.pc = "insert"]
<1>1. CASE ~(status[m.player] = "here" /\ SameTeam(m.player, m.from))
  BY <1>1, DoneStep DEF LockPlayer
<1>2. CASE status[m.player] = "here" /\ SameTeam(m.player, m.from)
  <2>1. job[p] \in Job /\ job \in [Procs -> Job] /\ Dated(job[p]) /\ job[p].pc = "lock"
    BY DEF TransferInv, TransferTypeOK, Sound, LockPlayer
  <2>2. r \in Job /\ r.pc = "insert" /\ r.move = m
    BY <2>1 DEF Job
  <2>3. Sound(r)
    BY <1>2, <2>1, <2>2 DEF Sound, Dated, Placed, Judged, Cascading, SameTeam
  <2>4. /\ \A q \in Procs \ {p}, y \in Players : ~(RLocks(r, y) /\ RLocks(job[q], y))
        /\ \A t : ~RShares(r, t) /\ ~RDeletes(r, t)
    BY <2>2, LocksOfJobs DEF RLocks, RShares, RDeletes, LockPlayer, PlayerFree
  <2>5. job' = [job EXCEPT ![p] = r] /\ UNCHANGED <<status, club, clubs, moves, adrift>>
    BY <1>2, <2>1 DEF LockPlayer
  <2> HIDE DEF r
  <2>6. QED
    BY <2>3, <2>4, <2>5, JobStep
<1>3. QED
  BY <1>1, <1>2

LEMMA InsertMoveStep ==
    ASSUME TransferInv, NEW p \in Procs, InsertMove(p)
    PROVE  TransferInv'
<1> DEFINE m == job[p].move
           r == [job[p] EXCEPT !.pc = "update"]
<1>1. CASE ~({m.from, m.to} \subseteq clubs \cup {NoTeam})
  BY <1>1, DoneStep DEF InsertMove
<1>2. CASE {m.from, m.to} \subseteq clubs \cup {NoTeam}
  <2>1. job[p] \in Job /\ job \in [Procs -> Job] /\ Sound(job[p]) /\ job[p].pc = "insert"
    BY DEF TransferInv, TransferTypeOK, InsertMove
  <2>2. r \in Job /\ r.pc = "update" /\ r.move = m
    BY <2>1 DEF Job
  <2>3. Sound(r)
    BY <2>1, <2>2 DEF Sound, Dated, Placed, Judged, Cascading
  <2>4. \A y : RLocks(r, y) <=> RLocks(job[p], y)
    BY <2>1, <2>2 DEF RLocks
  <2>5. \A q \in Procs \ {p}, y \in Players : ~(RLocks(r, y) /\ RLocks(job[q], y))
    BY <2>4 DEF TransferInv, PlayerLocks
  <2>6. \A q \in Procs, t \in Teams : /\ ~RDeletes(r, t)
                                      /\ ~(RShares(r, t) /\ RDeletes(job[q], t))
    BY <2>2, LocksOfJobs, TransfersAssumption DEF InsertMove, Checkable, RShares, RDeletes
  <2>7. job' = [job EXCEPT ![p] = r] /\ UNCHANGED <<status, club, clubs, moves, adrift>>
    BY <1>2, <2>1 DEF InsertMove
  <2> HIDE DEF r
  <2>8. QED
    BY <2>3, <2>5, <2>6, <2>7, JobStep
<1>3. QED
  BY <1>1, <1>2

LEMMA UpdatePlayerTeamStep ==
    ASSUME TransferInv, NEW p \in Procs, UpdatePlayerTeam(p)
    PROVE  TransferInv'
<1> DEFINE m == job[p].move
           r == [job[p] EXCEPT !.pc = "commit", !.latest = IsLatest(m)]
<1>1. job[p] \in Job /\ job \in [Procs -> Job] /\ Sound(job[p]) /\ job[p].pc = "update"
  BY DEF TransferInv, TransferTypeOK, UpdatePlayerTeam
<1>2. IsLatest(m) \in BOOLEAN
  BY DEF IsLatest
<1>3. r \in Job /\ r.pc = "commit" /\ r.move = m /\ r.latest = IsLatest(m)
  BY <1>1, <1>2 DEF Job
<1>4. ~IsLatest(m) => LaterOnRecord(m)
  <2>1. m.date \in Int /\ \A i \in MoveIds : moves[i].date \in Int
    BY <1>1 DEF TransferInv, TransferTypeOK, Sound, Dated, Move, Days, NoDay
  <2>2. QED
    BY <2>1 DEF IsLatest, LaterOnRecord
<1>5. Sound(r)
  BY <1>1, <1>3, <1>4 DEF Sound, Dated, Placed, Judged, Cascading
<1>6. /\ \A y : RLocks(r, y) <=> RLocks(job[p], y)
      /\ \A t : RShares(r, t) <=> RShares(job[p], t)
      /\ \A t : ~RDeletes(r, t)
  BY <1>1, <1>3 DEF RLocks, RShares, RDeletes
<1>7. \A q \in Procs \ {p}, y \in Players : ~(RLocks(r, y) /\ RLocks(job[q], y))
  BY <1>6 DEF TransferInv, PlayerLocks
<1>8. \A q \in Procs \ {p}, t \in Teams : ~(RShares(r, t) /\ RDeletes(job[q], t))
  BY <1>6 DEF TransferInv, TeamLocks
<1>9. job' = [job EXCEPT ![p] = r] /\ UNCHANGED <<status, club, clubs, moves, adrift>>
  BY <1>1 DEF UpdatePlayerTeam
<1> HIDE DEF r
<1>10. QED
  BY <1>5, <1>6, <1>7, <1>8, <1>9, JobStep

LEMMA DeleteTeamStep ==
    ASSUME TransferInv, NEW p \in Procs, NEW t \in Teams, DeleteTeam(p, t)
    PROVE  TransferInv'
<1> DEFINE S == {x \in Players : club[x] = t}
           r == [NoJob EXCEPT !.pc = "cascade", !.team = t, !.todo = S]
<1>1. /\ r \in Job
      /\ r.pc = "cascade" /\ r.team = t /\ r.todo = S /\ r.held = {}
  BY NoMoveIsMove DEF NoJob, Job, OptTeam
<1>2. Sound(r)
  BY <1>1 DEF Sound, Dated, Placed, Judged, Cascading
<1>3. \A y : ~RLocks(r, y)
  BY <1>1 DEF RLocks
<1>4. \A q \in Procs, u \in Teams :
         /\ ~(RDeletes(r, u) /\ (RDeletes(job[q], u) \/ RShares(job[q], u)))
         /\ ~RShares(r, u)
  BY <1>1, LocksOfJobs DEF DeleteTeam, RDeletes, RShares
<1>5. job' = [job EXCEPT ![p] = r] /\ UNCHANGED <<status, club, clubs, moves, adrift>>
  BY DEF DeleteTeam
<1> HIDE DEF r
<1>6. QED
  BY <1>2, <1>3, <1>4, <1>5, JobStep

LEMMA CascadePlayerStep ==
    ASSUME TransferInv, NEW p \in Procs, NEW x \in Players, CascadePlayer(p, x)
    PROVE  TransferInv'
<1> DEFINE r0 == job[p]
           H == IF club[x] = r0.team THEN r0.held \cup {x} ELSE r0.held
           r == [r0 EXCEPT !.todo = r0.todo \ {x}, !.held = H]
<1>1. r0 \in Job /\ job \in [Procs -> Job] /\ Sound(r0) /\ r0.pc = "cascade"
  BY DEF TransferInv, TransferTypeOK, CascadePlayer
<1>2. /\ r \in Job
      /\ r.pc = "cascade" /\ r.team = r0.team /\ r.todo = r0.todo \ {x} /\ r.held = H
  <2>1. H \in SUBSET Players /\ r0.todo \ {x} \in SUBSET Players
    BY <1>1 DEF Job
  <2>2. QED
    BY <1>1, <2>1 DEF Job
<1>3. Cascading(r)
  BY <1>1, <1>2 DEF Sound, Cascading
<1>4. Sound(r)
  BY <1>2, <1>3 DEF Sound, Dated, Placed, Judged
<1>5. \A q \in Procs \ {p}, y \in Players : ~(RLocks(r, y) /\ RLocks(job[q], y))
  <2> SUFFICES ASSUME NEW q \in Procs \ {p}, NEW y \in Players, RLocks(r, y), RLocks(job[q], y)
               PROVE  FALSE
    OBVIOUS
  <2>1. y = x \/ y \in r0.held
    BY <1>2 DEF RLocks
  <2>2. CASE y = x
    BY <2>2, LocksOfJobs DEF CascadePlayer, PlayerFree
  <2>3. CASE y \in r0.held
    BY <1>1, <2>3 DEF TransferInv, PlayerLocks, RLocks
  <2>4. QED
    BY <2>1, <2>2, <2>3
<1>6. \A q \in Procs \ {p}, u \in Teams :
         /\ ~(RDeletes(r, u) /\ (RDeletes(job[q], u) \/ RShares(job[q], u)))
         /\ ~RShares(r, u)
  BY <1>1, <1>2 DEF TransferInv, TeamLocks, RDeletes, RShares
<1>7. job' = [job EXCEPT ![p] = r] /\ UNCHANGED <<status, club, clubs, moves, adrift>>
  BY <1>1 DEF CascadePlayer
<1> HIDE DEF r
<1>8. QED
  BY <1>4, <1>5, <1>6, <1>7, JobStep

-----------------------------------------------------------------------------
(***************************************************************************)
(* The steps that write the tables.                                        *)
(***************************************************************************)
(* What a finished request leaves of the locks.                            *)
LEMMA LocksAfter ==
    ASSUME TransferInv, NEW p \in Procs, Done(p)
    PROVE  /\ job' \in [Procs -> Job]
           /\ job'[p] = NoJob
           /\ \A q \in Procs \ {p} : job'[q] = job[q]
           /\ PlayerLocks' /\ TeamLocks'
<1>1. job \in [Procs -> Job] /\ NoJob \in Job
  BY NoJobIsSound DEF TransferInv, TransferTypeOK, Sound
<1>2. /\ job' \in [Procs -> Job]
      /\ job'[p] = NoJob
      /\ \A q \in Procs \ {p} : job'[q] = job[q]
  BY <1>1 DEF Done
<1>3. PlayerLocks'
  BY <1>2, NoJobLocksNothing DEF TransferInv, PlayerLocks, RLocks
<1>4. TeamLocks'
  BY <1>2, NoJobLocksNothing DEF TransferInv, TeamLocks, RDeletes, RShares
<1>5. QED
  BY <1>2, <1>3, <1>4

LEMMA CommitMoveStep ==
    ASSUME TransferInv, NEW p \in Procs, NEW i \in MoveIds, CommitMove(p, i)
    PROVE  TransferInv'
<1> PICK m : m = job[p].move
  OBVIOUS
<1> PICK x : x = m.player
  OBVIOUS
<1>1. /\ job[p] \in Job /\ job[p].pc = "commit" /\ Sound(job[p])
      /\ m \in Move /\ x \in Players /\ m.date \in Days /\ m.to \in OptTeam
      /\ status[x] = "here" /\ club[x] = m.from
  BY DEF TransferInv, TransferTypeOK, CommitMove, Sound, Dated, Placed, Job, Move
<1>2. /\ Done(p) /\ UNCHANGED <<status, clubs>>
      /\ moves' = [moves EXCEPT ![i] = m]
      /\ ~OnRecord(i)
  BY DEF CommitMove
<1>3. /\ moves \in [MoveIds -> Move] /\ moves' \in [MoveIds -> Move]
      /\ moves'[i] = m
      /\ \A j \in MoveIds \ {i} : moves'[j] = moves[j]
      /\ moves[i].player = NoPlayer
  BY <1>1, <1>2 DEF TransferInv, TransferTypeOK, OnRecord
<1>4. /\ club \in [Players -> OptTeam] /\ club' \in [Players -> OptTeam]
      /\ adrift \subseteq Players /\ adrift' \subseteq Players
      /\ \A y \in Players \ {x} : club'[y] = club[y] /\ (y \in adrift' <=> y \in adrift)
      /\ job[p].latest => club'[x] = m.to /\ x \notin adrift'
      /\ ~job[p].latest => club' = club /\ adrift' = adrift
  BY <1>1 DEF TransferInv, TransferTypeOK, CommitMove
<1>5. \A q \in Procs \ {p} : ~RLocks(job[q], x)
  BY <1>1 DEF TransferInv, PlayerLocks, RLocks
<1>6. \A q \in Procs \ {p} : job[q].pc = "cascade" => m.to # job[q].team
  <2> SUFFICES ASSUME NEW q \in Procs \ {p}, job[q].pc = "cascade", m.to = job[q].team
               PROVE  FALSE
    OBVIOUS
  <2>1. Sound(job[q])
    BY DEF TransferInv
  <2>2. job[q].team \in Teams
    BY <2>1 DEF Sound, Cascading
  <2>3. RShares(job[p], job[q].team) /\ RDeletes(job[q], job[q].team)
    BY <1>1 DEF RShares, RDeletes
  <2>4. QED
    BY <2>2, <2>3 DEF TransferInv, TeamLocks
<1>7. TransferTypeOK'
  <2>1. \A j \in MoveIds : OnRecord(j)' =>
           status'[moves'[j].player] = "here" /\ moves'[j].date \in Days
    <3> SUFFICES ASSUME NEW j \in MoveIds, OnRecord(j)'
                 PROVE  status'[moves'[j].player] = "here" /\ moves'[j].date \in Days
      OBVIOUS
    <3>1. CASE j = i
      BY <1>1, <1>2, <1>3, <3>1
    <3>2. CASE j # i
      BY <1>2, <1>3, <3>2 DEF TransferInv, TransferTypeOK, OnRecord
    <3>3. QED
      BY <3>1, <3>2
  <2>2. \A q \in Procs : Dated(job'[q])
    BY <1>2, LocksAfter, NoJobIsSound DEF TransferInv, Sound
  <2>3. job' \in [Procs -> Job]
    BY <1>2, LocksAfter
  <2>4. QED
    BY <1>2, <1>3, <1>4, <2>1, <2>2, <2>3 DEF TransferInv, TransferTypeOK, Dated
<1>8. \A q \in Procs : Sound(job[q])'
  <2> SUFFICES ASSUME NEW q \in Procs PROVE Sound(job[q])'
    OBVIOUS
  <2>1. CASE q = p
    <3>1. Sound(NoJob)'
      BY NoMoveIsMove DEF Sound, NoJob, Job, Dated, Placed, Judged, Cascading, OptTeam
    <3>2. job'[q] = NoJob
      BY <1>2, <2>1, LocksAfter
    <3>3. QED
      BY <3>1, <3>2 DEF Sound, Dated, Placed, Judged, Cascading, IsLatest, LaterOnRecord
  <2>2. CASE q # p
    <3> PICK r : r = job[q]
      OBVIOUS
    <3>1. job'[q] = r /\ Sound(r) /\ ~RLocks(r, x)
      BY <1>2, <1>5, <2>2, LocksAfter DEF TransferInv
    <3>2. r \in Job /\ Dated(r)
      BY <3>1 DEF Sound
    <3>3. r.pc \in {"insert", "update", "commit"} => r.move.player \in Players \ {x}
      BY <3>1, <3>2 DEF RLocks, Dated
    <3>4. Placed(r)'
      BY <1>2, <1>4, <3>1, <3>3 DEF Sound, Placed
    <3>5. Judged(r)'
      <4> SUFFICES ASSUME r.pc = "commit"
                   PROVE  /\ r.latest => IsLatest(r.move)'
                          /\ ~r.latest => r.move.player \in adrift' \/ LaterOnRecord(r.move)'
        BY <3>1 DEF Judged
      <4>1. r.move.player \in Players \ {x}
        BY <3>3
      <4>2. r.latest => IsLatest(r.move)'
        BY <1>3, <3>1, <4>1 DEF Sound, Judged, IsLatest
      <4>3. r.move.player \in adrift => r.move.player \in adrift'
        BY <1>4, <4>1
      <4>4. LaterOnRecord(r.move) => LaterOnRecord(r.move)'
        <5>1. r.move.player # NoPlayer
          BY <4>1, RegistryAssumption
        <5>2. QED
          BY <1>3, <3>1, <5>1 DEF LaterOnRecord
      <4>5. QED
        BY <3>1, <4>2, <4>3, <4>4 DEF Sound, Judged
    <3>6. Cascading(r)'
      <4> SUFFICES ASSUME r.pc = "cascade", NEW y \in Players
                   PROVE  /\ r.team \in Teams
                          /\ club'[y] = r.team => y \in r.todo \cup r.held
                          /\ y \in r.held => club'[y] = r.team
        BY <1>1, <3>1 DEF Cascading
      <4>1. r.team \in Teams /\ Cascading(r)
        BY <3>1 DEF Sound, Cascading
      <4>2. CASE y # x
        BY <1>4, <4>1, <4>2 DEF Cascading
      <4>3. CASE y = x
        <5>1. y \notin r.held
          BY <3>1, <4>3 DEF RLocks
        <5>2. m.to # r.team
          BY <1>6, <2>2
        <5>3. club'[x] = m.to \/ club'[x] = club[x]
          BY <1>4
        <5>4. QED
          BY <4>1, <4>3, <5>1, <5>2, <5>3 DEF Cascading
      <4>4. QED
        BY <4>2, <4>3
    <3>7. QED
      BY <3>1, <3>2, <3>4, <3>5, <3>6 DEF Sound, Dated, Placed, Judged, Cascading, IsLatest, LaterOnRecord
  <2>3. QED
    BY <2>1, <2>2
<1>9. Unplaced'
  BY <1>1, <1>2, <1>4 DEF TransferInv, Unplaced
<1>10. SquadFollowsRecord'
  <2> SUFFICES ASSUME NEW y \in Players, status[y] = "here", y \notin adrift'
               PROVE  FollowsRecord(y)'
    BY <1>2 DEF SquadFollowsRecord
  <2>0. \A j \in MoveIds : moves[j].date \in Int /\ moves'[j].date \in Int
    BY <1>3 DEF Move, Days, NoDay
  <2>1. CASE y = x /\ job[p].latest
    <3>1. IsLatest(m)
      BY <1>1, <2>1 DEF Sound, Judged
    <3>2. \A j \in MoveIds : moves'[j].player = x => moves'[j].date <= m.date
      BY <1>3, <2>0, <3>1 DEF IsLatest
    <3>3. i \in LatestOf(x)' /\ moves'[i].to = club'[x]
      BY <1>3, <1>4, <2>1, <3>2 DEF LatestOf
    <3>4. QED
      BY <2>1, <3>3 DEF FollowsRecord
  <2>2. CASE y = x /\ ~job[p].latest
    <3>1. club' = club /\ y \notin adrift /\ FollowsRecord(y)
      BY <1>4, <2>2 DEF TransferInv, SquadFollowsRecord
    <3>2. PICK k \in MoveIds : moves[k].player = x /\ moves[k].date > m.date
      BY <1>1, <2>2, <3>1 DEF Sound, Judged, LaterOnRecord
    <3>3. PICK j \in LatestOf(x) : moves[j].to = club[x]
      BY <2>2, <3>1, <3>2 DEF FollowsRecord
    <3>4. j \in MoveIds /\ j # i /\ moves[j].player = x /\ moves[j].date >= moves[k].date
      BY <1>1, <1>3, <2>0, <3>2, <3>3, RegistryAssumption DEF LatestOf
    <3>5. moves[j].date > m.date
      BY <1>3, <2>0, <3>2, <3>4
    <3>6. \A l \in MoveIds : moves'[l].player = x => moves'[l].date <= moves[j].date
      <4> SUFFICES ASSUME NEW l \in MoveIds, moves'[l].player = x
                   PROVE  moves'[l].date <= moves[j].date
        OBVIOUS
      <4>1. CASE l = i
        BY <1>3, <2>0, <3>4, <3>5, <4>1
      <4>2. CASE l # i
        BY <1>3, <3>3, <4>2 DEF LatestOf
      <4>3. QED
        BY <4>1, <4>2
    <3>7. j \in LatestOf(x)'
      BY <1>3, <3>4, <3>6 DEF LatestOf
    <3>8. QED
      BY <1>3, <2>2, <3>1, <3>3, <3>4, <3>7 DEF FollowsRecord
  <2>3. CASE y # x
    <3>1. club'[y] = club[y] /\ FollowsRecord(y) /\ y # NoPlayer
      BY <1>4, <2>3, RegistryAssumption DEF TransferInv, SquadFollowsRecord
    <3>2. \A j \in MoveIds : /\ moves'[j].player = y <=> moves[j].player = y
                             /\ moves[j].player = y => moves'[j] = moves[j]
      BY <1>3, <2>3, <3>1
    <3>3. \A j \in LatestOf(y) : j \in LatestOf(y)' /\ moves'[j] = moves[j]
      BY <3>2 DEF LatestOf
    <3>4. QED
      BY <3>1, <3>2, <3>3 DEF FollowsRecord
  <2>4. QED
    BY <2>1, <2>2, <2>3
<1>11. QED
  BY <1>2, <1>7, <1>8, <1>9, <1>10, LocksAfter DEF TransferInv

LEMMA CommitDeleteTeamStep ==
    ASSUME TransferInv, NEW p \in Procs, CommitDeleteTeam(p)
    PROVE  TransferInv'
<1> PICK t : t = job[p].team
  OBVIOUS
<1> PICK H : H = job[p].held
  OBVIOUS
<1>1. /\ job[p].pc = "cascade" /\ t \in Teams /\ H \subseteq Players
      /\ \A x \in Players : x \in H <=> club[x] = t
  <2>1. job[p].pc = "cascade" /\ job[p].todo = {} /\ Sound(job[p])
    BY DEF TransferInv, CommitDeleteTeam
  <2>2. QED
    BY <2>1 DEF Sound, Cascading, Job
<1>2. Done(p) /\ clubs' = clubs \ {t} /\ UNCHANGED <<status, adrift>>
  BY DEF CommitDeleteTeam
<1>3. /\ club \in [Players -> OptTeam] /\ club' \in [Players -> OptTeam]
      /\ \A x \in Players : club'[x] = IF x \in H THEN NoTeam ELSE club[x]
  <2>1. club \in [Players -> OptTeam]
    BY DEF TransferInv, TransferTypeOK
  <2>2. club' = [x \in Players |-> IF x \in H THEN NoTeam ELSE club[x]]
    BY DEF CommitDeleteTeam
  <2>3. QED
    BY <2>1, <2>2 DEF OptTeam
<1>4. /\ moves' \in [MoveIds -> Move]
      /\ \A j \in MoveIds :
            /\ moves'[j].player = moves[j].player
            /\ moves'[j].date = moves[j].date
            /\ moves'[j].to = IF moves[j].to = t THEN NoTeam ELSE moves[j].to
  <2> DEFINE N(u) == IF u = t THEN NoTeam ELSE u
  <2>1. moves' = [j \in MoveIds |-> [moves[j] EXCEPT !.from = N(moves[j].from), !.to = N(moves[j].to)]]
    BY DEF CommitDeleteTeam
  <2>2. \A u \in OptTeam : N(u) \in OptTeam
    BY DEF OptTeam
  <2>3. ASSUME NEW j \in MoveIds
        PROVE  /\ moves[j] \in Move /\ moves'[j] \in Move
               /\ moves'[j].player = moves[j].player
               /\ moves'[j].date = moves[j].date
               /\ moves'[j].to = N(moves[j].to)
    <3>1. moves[j] \in Move
      BY DEF TransferInv, TransferTypeOK
    <3>2. N(moves[j].from) \in OptTeam /\ N(moves[j].to) \in OptTeam
      BY <2>2, <3>1 DEF Move
    <3> HIDE DEF N
    <3>3. moves'[j] = [moves[j] EXCEPT !.from = N(moves[j].from), !.to = N(moves[j].to)]
      BY <2>1
    <3>4. QED
      BY <3>1, <3>2, <3>3 DEF Move
  <2>4. QED
    BY <2>1, <2>3
<1>5. \A q \in Procs \ {p} :
         /\ \A x \in H : ~RLocks(job[q], x)
         /\ ~RDeletes(job[q], t)
  BY <1>1 DEF TransferInv, PlayerLocks, TeamLocks, RLocks, RDeletes
<1>6. TransferTypeOK'
  <2>1. \A q \in Procs : Dated(job'[q])
    BY <1>2, LocksAfter, NoJobIsSound DEF TransferInv, Sound
  <2>2. \A j \in MoveIds : OnRecord(j)' =>
           status'[moves'[j].player] = "here" /\ moves'[j].date \in Days
    BY <1>2, <1>4 DEF TransferInv, TransferTypeOK, OnRecord
  <2>3. QED
    BY <1>2, <1>3, <1>4, <2>1, <2>2, LocksAfter DEF TransferInv, TransferTypeOK, Dated
<1>7. \A q \in Procs : Sound(job[q])'
  <2> SUFFICES ASSUME NEW q \in Procs PROVE Sound(job[q])'
    OBVIOUS
  <2>1. CASE q = p
    <3>1. Sound(NoJob)'
      BY NoMoveIsMove DEF Sound, NoJob, Job, Dated, Placed, Judged, Cascading, OptTeam
    <3>2. job'[q] = NoJob
      BY <1>2, <2>1, LocksAfter
    <3>3. QED
      BY <3>1, <3>2 DEF Sound, Dated, Placed, Judged, Cascading, IsLatest, LaterOnRecord
  <2>2. CASE q # p
    <3> PICK r : r = job[q]
      OBVIOUS
    <3>1. /\ job'[q] = r /\ Sound(r) /\ ~RDeletes(r, t)
          /\ \A x \in H : ~RLocks(r, x)
      BY <1>2, <1>5, <2>2, LocksAfter DEF TransferInv
    <3>2. r \in Job /\ Dated(r)
      BY <3>1 DEF Sound
    <3>3. Placed(r)'
      BY <1>2, <1>3, <3>1, <3>2 DEF Sound, Placed, RLocks, Dated
    <3>4. Judged(r)'
      <4>1. IsLatest(r.move)' <=> IsLatest(r.move)
        BY <1>4 DEF IsLatest
      <4>2. LaterOnRecord(r.move)' <=> LaterOnRecord(r.move)
        BY <1>4 DEF LaterOnRecord
      <4>3. QED
        BY <1>2, <3>1, <4>1, <4>2 DEF Sound, Judged
    <3>5. Cascading(r)'
      BY <1>3, <3>1, TransfersAssumption DEF Sound, Cascading, RLocks, RDeletes
    <3>6. QED
      BY <3>1, <3>2, <3>3, <3>4, <3>5 DEF Sound, Dated, Placed, Judged, Cascading, IsLatest, LaterOnRecord
  <2>3. QED
    BY <2>1, <2>2
<1>8. Unplaced'
  BY <1>2, <1>3 DEF TransferInv, Unplaced
<1>9. SquadFollowsRecord'
  <2> SUFFICES ASSUME NEW y \in Players, status[y] = "here", y \notin adrift
               PROVE  FollowsRecord(y)'
    BY <1>2 DEF SquadFollowsRecord
  <2>1. \A j \in MoveIds : j \in LatestOf(y) => j \in LatestOf(y)'
    BY <1>4 DEF LatestOf
  <2>2. FollowsRecord(y)
    BY DEF TransferInv, SquadFollowsRecord
  <2>3. CASE (\A j \in MoveIds : moves[j].player # y) /\ club[y] = NoTeam
    BY <1>3, <1>4, <2>3 DEF FollowsRecord
  <2>4. CASE \E j \in LatestOf(y) : moves[j].to = club[y]
    <3>1. PICK j \in MoveIds : j \in LatestOf(y) /\ moves[j].to = club[y]
      BY <2>4 DEF LatestOf
    <3>2. moves'[j].to = club'[y]
      BY <1>1, <1>3, <1>4, <3>1
    <3>3. QED
      BY <2>1, <3>1, <3>2 DEF FollowsRecord
  <2>5. QED
    BY <2>2, <2>3, <2>4 DEF FollowsRecord
<1>10. QED
  BY <1>2, <1>6, <1>7, <1>8, <1>9, LocksAfter DEF TransferInv

LEMMA DeleteTransferStep ==
    ASSUME TransferInv, NEW i \in MoveIds, DeleteTransfer(i)
    PROVE  TransferInv'
<1> PICK x : x = moves[i].player
  OBVIOUS
<1>1. /\ x \in Players /\ moves \in [MoveIds -> Move]
      /\ adrift' = IF i \in LatestOf(x) THEN adrift \cup {x} ELSE adrift
      /\ UNCHANGED <<status, club, clubs, job>>
  BY DEF TransferInv, TransferTypeOK, DeleteTransfer, OnRecord, Move
<1>2. /\ moves' \in [MoveIds -> Move]
      /\ moves'[i] = NoMove
      /\ \A j \in MoveIds \ {i} : moves'[j] = moves[j]
  BY <1>1, NoMoveIsMove DEF DeleteTransfer
<1>3. moves'[i].player = NoPlayer /\ \A y \in Players : y # NoPlayer
  BY <1>2, RegistryAssumption DEF NoMove
<1>4. \A j \in MoveIds : moves[j].date \in Int
  BY <1>1 DEF Move, Days, NoDay
<1>5. TransferTypeOK'
  BY <1>1, <1>2, <1>3 DEF TransferInv, TransferTypeOK, OnRecord
<1>6. \A q \in Procs : Sound(job[q])'
  <2> SUFFICES ASSUME NEW q \in Procs PROVE Sound(job[q])'
    OBVIOUS
  <2> PICK r : r = job[q]
    OBVIOUS
  <2>1. job'[q] = r /\ Sound(r)
    BY <1>1 DEF TransferInv
  <2>2. Judged(r)'
    <3> SUFFICES ASSUME r.pc = "commit"
                 PROVE  /\ r.latest => IsLatest(r.move)'
                        /\ ~r.latest => r.move.player \in adrift' \/ LaterOnRecord(r.move)'
      BY <2>1 DEF Judged
    <3>1. r.move.player \in Players /\ r.move.date \in Int
      BY <2>1 DEF Sound, Dated, Days
    <3>2. r.latest => IsLatest(r.move)'
      BY <1>2, <1>3, <2>1, <3>1 DEF Sound, Judged, IsLatest
    <3>3. CASE r.move.player \in adrift
      BY <1>1, <2>1, <3>2, <3>3
    <3>4. CASE ~r.latest /\ LaterOnRecord(r.move)
      <4>1. PICK k \in MoveIds : moves[k].player = r.move.player /\ moves[k].date > r.move.date
        BY <3>4 DEF LaterOnRecord
      <4>2. CASE k # i
        BY <1>2, <3>2, <3>4, <4>1, <4>2 DEF LaterOnRecord
      <4>3. CASE k = i /\ i \in LatestOf(x)
        BY <1>1, <3>2, <3>4, <4>1, <4>3
      <4>4. CASE k = i /\ i \notin LatestOf(x)
        <5>1. PICK j \in MoveIds : moves[j].player = x /\ ~(moves[j].date <= moves[i].date)
          BY <4>4 DEF LatestOf
        <5>2. j # i /\ moves'[j].player = r.move.player /\ moves'[j].date > r.move.date
          BY <1>2, <1>4, <3>1, <4>1, <4>4, <5>1
        <5>3. QED
          BY <3>2, <3>4, <5>2 DEF LaterOnRecord
      <4>5. QED
        BY <4>2, <4>3, <4>4
    <3>5. QED
      BY <2>1, <3>2, <3>3, <3>4 DEF Sound, Judged
  <2>3. QED
    BY <1>1, <2>1, <2>2 DEF Sound, Dated, Placed, Judged, Cascading, IsLatest, LaterOnRecord
<1>7. PlayerLocks' /\ TeamLocks' /\ Unplaced'
  BY <1>1 DEF TransferInv, PlayerLocks, TeamLocks, Unplaced, RLocks, RShares, RDeletes
<1>8. SquadFollowsRecord'
  <2> SUFFICES ASSUME NEW y \in Players, status[y] = "here", y \notin adrift'
               PROVE  FollowsRecord(y)'
    BY <1>1 DEF SquadFollowsRecord
  <2>1. FollowsRecord(y) /\ y # NoPlayer
    BY <1>1, <1>3 DEF TransferInv, SquadFollowsRecord
  <2>2. \A j \in LatestOf(y) : j # i
    BY <1>1 DEF LatestOf
  <2>3. \A j \in LatestOf(y) : j \in LatestOf(y)' /\ moves'[j] = moves[j]
    BY <1>2, <1>3, <2>1, <2>2 DEF LatestOf
  <2>4. CASE \A j \in MoveIds : moves[j].player # y
    BY <1>1, <1>2, <1>3, <2>1, <2>4 DEF FollowsRecord, LatestOf
  <2>5. CASE \E j \in LatestOf(y) : moves[j].to = club[y]
    BY <1>1, <2>3, <2>5 DEF FollowsRecord
  <2>6. QED
    BY <2>1, <2>4, <2>5 DEF FollowsRecord
<1>9. QED
  BY <1>5, <1>6, <1>7, <1>8 DEF TransferInv

(* A new player, or a deleted one, is nobody a request relies on.          *)
LEMMA OthersSound ==
    ASSUME TransferInv, NEW q \in Procs, NEW x \in Players, UNCHANGED <<job, adrift>>,
           ~RLocks(job[q], x),
           \A y \in Players \ {x} : status'[y] = status[y] /\ club'[y] = club[y],
           job[q].pc = "cascade" => club'[x] # job[q].team,
           \A y \in Players \ {x}, j \in MoveIds :
              /\ moves'[j].player = y <=> moves[j].player = y
              /\ moves[j].player = y => moves'[j] = moves[j]
    PROVE  Sound(job[q])'
<1> PICK r : r = job[q]
  OBVIOUS
<1>1. job'[q] = r /\ Sound(r) /\ r \in Job /\ Dated(r)
  BY DEF TransferInv, Sound
<1>2. r.pc \in {"insert", "update", "commit"} => r.move.player \in Players \ {x}
  BY <1>1 DEF RLocks, Dated
<1>3. Placed(r)'
  BY <1>1, <1>2 DEF Sound, Placed
<1>4. Judged(r)'
  <2>1. CASE r.pc = "commit"
    <3>1. IsLatest(r.move) => IsLatest(r.move)'
      BY <1>2, <2>1 DEF IsLatest
    <3>2. LaterOnRecord(r.move) => LaterOnRecord(r.move)'
      BY <1>2, <2>1 DEF LaterOnRecord
    <3>3. QED
      BY <1>1, <3>1, <3>2 DEF Sound, Judged
  <2>2. CASE r.pc # "commit"
    BY <2>2 DEF Judged
  <2>3. QED
    BY <2>1, <2>2
<1>5. Cascading(r)'
  BY <1>1 DEF Sound, Cascading, RLocks
<1>6. QED
  BY <1>1, <1>3, <1>4, <1>5 DEF Sound, Dated, Placed, Judged, Cascading, IsLatest, LaterOnRecord

(* Nor does it disturb the club of anyone else.                            *)
LEMMA OthersFollow ==
    ASSUME NEW y \in Players, FollowsRecord(y), club'[y] = club[y],
           \A j \in MoveIds : /\ moves'[j].player = y <=> moves[j].player = y
                              /\ moves[j].player = y => moves'[j] = moves[j]
    PROVE  FollowsRecord(y)'
<1>1. \A j \in LatestOf(y) : j \in LatestOf(y)' /\ moves'[j] = moves[j]
  BY DEF LatestOf
<1>2. QED
  BY <1>1 DEF FollowsRecord

LEMMA CreatePlayerStep ==
    ASSUME TransferInv, NEW x \in Players, NEW t \in OptTeam, NEW d \in Days, NEW i \in MoveIds,
           CreatePlayer(x, t, d, i)
    PROVE  TransferInv'
<1>1. /\ status[x] = "unborn" /\ club[x] = NoTeam
      /\ ~OnRecord(i) /\ moves \in [MoveIds -> Move]
      /\ \A j \in MoveIds : moves[j].player # x
  BY RegistryAssumption DEF TransferInv, TransferTypeOK, Unplaced, OnRecord, CreatePlayer
<1>2. /\ status' = [status EXCEPT ![x] = "here"]
      /\ club' = [club EXCEPT ![x] = t]
      /\ UNCHANGED <<clubs, job, adrift>>
  BY DEF CreatePlayer
<1>3. /\ status \in [Players -> {"unborn", "here", "gone"}]
      /\ club \in [Players -> OptTeam]
      /\ status'[x] = "here" /\ club'[x] = t
      /\ \A y \in Players \ {x} : status'[y] = status[y] /\ club'[y] = club[y]
  BY <1>2 DEF TransferInv, TransferTypeOK
<1> PICK m : m = [player |-> x, from |-> NoTeam, to |-> t, date |-> d]
  OBVIOUS
<1>4. m \in Move /\ m.player = x /\ m.to = t /\ m.date = d /\ d \in Int
  BY DEF Move, OptTeam, Days
<1>5. /\ moves' \in [MoveIds -> Move]
      /\ moves'[i] = IF t = NoTeam THEN moves[i] ELSE m
      /\ \A j \in MoveIds \ {i} : moves'[j] = moves[j]
  BY <1>1, <1>4 DEF CreatePlayer
<1>6. \A y \in Players \ {x}, j \in MoveIds :
         /\ moves'[j].player = y <=> moves[j].player = y
         /\ moves[j].player = y => moves'[j] = moves[j]
  BY <1>1, <1>4, <1>5, RegistryAssumption DEF OnRecord
<1>7. TransferTypeOK'
  <2>1. \A j \in MoveIds : OnRecord(j)' =>
           status'[moves'[j].player] = "here" /\ moves'[j].date \in Days
    BY <1>1, <1>3, <1>4, <1>5 DEF TransferInv, TransferTypeOK, OnRecord, Move
  <2>2. QED
    BY <1>2, <1>5, <2>1 DEF TransferInv, TransferTypeOK
<1>8. \A q \in Procs : Sound(job[q])'
  <2> SUFFICES ASSUME NEW q \in Procs PROVE Sound(job[q])'
    OBVIOUS
  <2>1. Sound(job[q])
    BY DEF TransferInv
  <2>2. job[q].pc = "cascade" => job[q].team \in Teams /\ job[q].team # NoTeam
    BY <2>1, TransfersAssumption DEF Sound, Cascading
  <2>3. ~RLocks(job[q], x)
    BY <1>1, <2>1, <2>2 DEF Sound, Placed, Cascading, RLocks
  <2>4. job[q].pc = "cascade" => club'[x] # job[q].team
    BY <1>3, <2>2 DEF CreatePlayer, Checkable, DeletesTeam
  <2>5. QED
    BY <1>2, <1>3, <1>6, <2>3, <2>4, OthersSound
<1>9. PlayerLocks' /\ TeamLocks' /\ Unplaced'
  BY <1>2, <1>3 DEF TransferInv, PlayerLocks, TeamLocks, Unplaced, RLocks, RShares, RDeletes
<1>10. SquadFollowsRecord'
  <2> SUFFICES ASSUME NEW y \in Players, status'[y] = "here", y \notin adrift
               PROVE  FollowsRecord(y)'
    BY <1>2 DEF SquadFollowsRecord
  <2>1. CASE y = x /\ t = NoTeam
    BY <1>1, <1>3, <1>5, <2>1 DEF FollowsRecord
  <2>2. CASE y = x /\ t # NoTeam
    <3>1. \A j \in MoveIds : moves'[j].player = y => j = i
      BY <1>1, <1>5, <2>2
    <3>2. i \in LatestOf(y)'
      BY <1>4, <1>5, <2>2, <3>1 DEF LatestOf
    <3>3. moves'[i].to = club'[y]
      BY <1>3, <1>4, <1>5, <2>2
    <3>4. QED
      BY <3>2, <3>3 DEF FollowsRecord
  <2>3. CASE y # x
    BY <1>3, <1>6, <2>3, OthersFollow DEF TransferInv, SquadFollowsRecord
  <2>4. QED
    BY <2>1, <2>2, <2>3
<1>11. QED
  BY <1>7, <1>8, <1>9, <1>10 DEF TransferInv

LEMMA DeletePlayerStep ==
    ASSUME TransferInv, NEW x \in Players, DeletePlayer(x)
    PROVE  TransferInv'
<1>1. /\ status' = [status EXCEPT ![x] = "gone"]
      /\ club' = [club EXCEPT ![x] = NoTeam]
      /\ UNCHANGED <<clubs, job, adrift>>
      /\ \A q \in Procs : ~RLocks(job[q], x)
  BY LocksOfJobs DEF DeletePlayer
<1>2. /\ status \in [Players -> {"unborn", "here", "gone"}]
      /\ club \in [Players -> OptTeam]
      /\ status'[x] = "gone" /\ club'[x] = NoTeam
      /\ \A y \in Players \ {x} : status'[y] = status[y] /\ club'[y] = club[y]
  BY <1>1 DEF TransferInv, TransferTypeOK
<1>3. /\ moves' \in [MoveIds -> Move]
      /\ \A j \in MoveIds : moves'[j] = IF moves[j].player = x THEN NoMove ELSE moves[j]
  BY NoMoveIsMove DEF TransferInv, TransferTypeOK, DeletePlayer, CascadedMoves
<1>4. NoMove.player = NoPlayer /\ \A y \in Players : y # NoPlayer
  BY RegistryAssumption DEF NoMove
<1>5. \A y \in Players \ {x}, j \in MoveIds :
         /\ moves'[j].player = y <=> moves[j].player = y
         /\ moves[j].player = y => moves'[j] = moves[j]
  BY <1>3, <1>4
<1>6. TransferTypeOK'
  <2>1. \A j \in MoveIds : OnRecord(j)' =>
           status'[moves'[j].player] = "here" /\ moves'[j].date \in Days
    BY <1>2, <1>3, <1>4 DEF TransferInv, TransferTypeOK, OnRecord, Move
  <2>2. QED
    BY <1>1, <1>3, <2>1 DEF TransferInv, TransferTypeOK, OptTeam
<1>7. \A q \in Procs : Sound(job[q])'
  <2> SUFFICES ASSUME NEW q \in Procs PROVE Sound(job[q])'
    OBVIOUS
  <2>1. job[q].pc = "cascade" => club'[x] # job[q].team
    BY <1>2, TransfersAssumption DEF TransferInv, Sound, Cascading
  <2>2. QED
    BY <1>1, <1>2, <1>5, <2>1, OthersSound
<1>8. PlayerLocks' /\ TeamLocks' /\ Unplaced'
  BY <1>1, <1>2 DEF TransferInv, PlayerLocks, TeamLocks, Unplaced, RLocks, RShares, RDeletes
<1>9. SquadFollowsRecord'
  <2> SUFFICES ASSUME NEW y \in Players, status'[y] = "here", y \notin adrift
               PROVE  FollowsRecord(y)'
    BY <1>1 DEF SquadFollowsRecord
  <2>1. y # x
    BY <1>2
  <2>2. QED
    BY <1>2, <1>5, <2>1, OthersFollow DEF TransferInv, SquadFollowsRecord
<1>10. QED
  BY <1>6, <1>7, <1>8, <1>9 DEF TransferInv

-----------------------------------------------------------------------------
LEMMA TransferInvStep == TransferInv /\ [TransferNext]_transferVars => TransferInv'
<1> SUFFICES ASSUME TransferInv, [TransferNext]_transferVars PROVE TransferInv'
  OBVIOUS
<1>1. ASSUME NEW p \in Procs,
             \/ \E x \in Players, to \in OptTeam, d \in Days : RecordTransfer(p, x, to, d)
             \/ LockPlayer(p) \/ InsertMove(p) \/ UpdatePlayerTeam(p)
             \/ \E i \in MoveIds : CommitMove(p, i)
      PROVE  TransferInv'
  BY <1>1, RecordTransferStep, LockPlayerStep, InsertMoveStep, UpdatePlayerTeamStep, CommitMoveStep
<1>2. ASSUME NEW p \in Procs, Abort(p) PROVE TransferInv'
  BY <1>2, DoneStep DEF Abort
<1>3. ASSUME NEW p \in Procs,
             \/ \E t \in Teams : DeleteTeam(p, t)
             \/ \E x \in Players : CascadePlayer(p, x)
             \/ CommitDeleteTeam(p)
      PROVE  TransferInv'
  BY <1>3, DeleteTeamStep, CascadePlayerStep, CommitDeleteTeamStep
<1>4. ASSUME NEW i \in MoveIds, DeleteTransfer(i) PROVE TransferInv'
  BY <1>4, DeleteTransferStep
<1>5. ASSUME NEW x \in Players, NEW t \in OptTeam, NEW d \in Days, NEW i \in MoveIds,
             CreatePlayer(x, t, d, i)
      PROVE  TransferInv'
  BY <1>5, CreatePlayerStep
<1>6. ASSUME NEW x \in Players, DeletePlayer(x) PROVE TransferInv'
  BY <1>6, DeletePlayerStep
<1>7. CASE UNCHANGED transferVars
  BY <1>7 DEF transferVars, TransferInv, TransferTypeOK, OnRecord, Sound, Dated, Placed, Judged, Cascading,
              IsLatest, LaterOnRecord, PlayerLocks, TeamLocks, RLocks, RShares, RDeletes,
              Unplaced, SquadFollowsRecord, FollowsRecord, LatestOf
<1>8. QED
  BY <1>1, <1>2, <1>3, <1>4, <1>5, <1>6, <1>7 DEF TransferNext

LEMMA TransferInductive == TransferSpec => []TransferInv
  BY TransferInvInit, TransferInvStep, PTL DEF TransferSpec

(* The tables and the requests keep their shape; in particular a recorded  *)
(* move is dated and its player exists (transfers.player_id is NOT NULL    *)
(* and cascades).                                                          *)
THEOREM TransferTypeCorrect == TransferSpec => []TransferTypeOK
<1>1. TransferInv => TransferTypeOK
  BY DEF TransferInv
<1>2. QED
  BY <1>1, TransferInductive, PTL

(* players.team_id is where a latest-dated move took the player, through   *)
(* every interleaving of recordings, deletions of clubs, players and       *)
(* moves, and rollbacks; only the deletion of a latest move, which leaves  *)
(* the club alone, suspends it until the next latest move.                 *)
THEOREM SquadCorrect == TransferSpec => []SquadFollowsRecord
<1>1. TransferInv => SquadFollowsRecord
  BY DEF TransferInv
<1>2. QED
  BY <1>1, TransferInductive, PTL

LEMMA MoveStep ==
    ASSUME TransferInv, TransferNext, NEW i \in MoveIds,
           ~OnRecord(i), OnRecord(i)', status[moves'[i].player] = "here"
    PROVE  moves'[i].from = club[moves'[i].player]
<1>1. ASSUME NEW p \in Procs, NEW k \in MoveIds, CommitMove(p, k)
      PROVE  moves'[i].from = club[moves'[i].player]
  <2>1. k = i /\ moves'[i] = job[p].move
    BY <1>1 DEF TransferInv, TransferTypeOK, CommitMove, OnRecord
  <2>2. club[job[p].move.player] = job[p].move.from
    BY <1>1 DEF TransferInv, Sound, Placed, CommitMove
  <2>3. QED
    BY <2>1, <2>2
<1>2. ASSUME NEW p \in Procs, CommitDeleteTeam(p) PROVE FALSE
  <2>1. moves[i] \in Move
    BY DEF TransferInv, TransferTypeOK
  <2>2. moves'[i].player = moves[i].player
    BY <1>2, <2>1 DEF CommitDeleteTeam, Move
  <2>3. QED
    BY <2>2 DEF OnRecord
<1>3. ASSUME NEW k \in MoveIds, DeleteTransfer(k) PROVE FALSE
  BY <1>3 DEF TransferInv, TransferTypeOK, DeleteTransfer, OnRecord, NoMove
<1>4. ASSUME NEW x \in Players, NEW t \in OptTeam, NEW d \in Days, NEW k \in MoveIds,
             CreatePlayer(x, t, d, k)
      PROVE  FALSE
  BY <1>4 DEF TransferInv, TransferTypeOK, CreatePlayer, OnRecord
<1>5. ASSUME NEW x \in Players, DeletePlayer(x) PROVE FALSE
  BY <1>5 DEF DeletePlayer, CascadedMoves, OnRecord, NoMove
<1>6. ASSUME UNCHANGED moves PROVE FALSE
  BY <1>6 DEF OnRecord
<1>7. QED
  BY <1>1, <1>2, <1>3, <1>4, <1>5, <1>6
     DEF TransferNext, RecordTransfer, LockPlayer, InsertMove, UpdatePlayerTeam, Abort,
         DeleteTeam, CascadePlayer

(* A transfer enters the record only from the club its player is at when   *)
(* the transaction commits: the lock and the second check in Record see    *)
(* to it, for any number of requests.                                      *)
THEOREM MovesCorrect == TransferSpec => MovesStartWherePlayerIs
<1>1. TransferInv /\ [TransferNext]_transferVars
        => [\A i \in MoveIds :
              ~OnRecord(i) /\ OnRecord(i)' /\ status[moves'[i].player] = "here"
                 => moves'[i].from = club[moves'[i].player]]_transferVars
  BY MoveStep
<1>2. QED
  BY <1>1, TransferInductive, PTL DEF TransferSpec, MovesStartWherePlayerIs

-----------------------------------------------------------------------------
(* Valuations.  e is the state of a request.                               *)

HistoryWith(e) == [history[e.player] EXCEPT ![e.day] = e.amount]

(* A write that nobody overtook leaves the latest valuation behind; a      *)
(* request that leaves the figure alone has a later valuation on record.   *)
VerdictStands(e) ==
    ~e.behind /\ e.pc \in {"write", "commit"}
      => IF e.writes THEN e.figure = Latest(HistoryWith(e))
         ELSE \E d \in Days : d > e.day /\ history[e.player][d] # NoAmount

EntrySound(e) ==
    e.pc # "idle"
      => e.player \in valued /\ e.player \in Players /\ e.day \in Days /\ VerdictStands(e)

EntriesSound == \A p \in Procs : EntrySound(entry[p])

ValuationInv == ValuationTypeOK /\ EntriesSound /\ ValueFollowsHistory

(* The latest day is unique, so Latest reads the figure of any member.     *)
LEMMA LatestAt ==
    ASSUME NEW h, NEW d \in LastDay(h)
    PROVE  Latest(h) = h[d] /\ d \in Days /\ h[d] # NoAmount
  <1>1. \A e \in LastDay(h) : e = d
    BY RegistryAssumption DEF LastDay, Days
  <1>2. (CHOOSE e \in LastDay(h) : TRUE) = d
    BY <1>1
  <1> QED
    BY <1>2 DEF Latest, LastDay

(* Latest returns a figure that was recorded, or zero.                     *)
LEMMA LatestType ==
    ASSUME NEW h \in [Days -> OptAmount]
    PROVE  Latest(h) \in Amounts \cup {0}
  <1>1. CASE LastDay(h) = {}
    BY <1>1 DEF Latest
  <1>2. CASE LastDay(h) # {}
    <2>1. PICK d \in LastDay(h) : TRUE
      BY <1>2
    <2>2. Latest(h) = h[d] /\ d \in Days /\ h[d] # NoAmount
      BY <2>1, LatestAt
    <2> QED
      BY <2>2 DEF OptAmount
  <1> QED
    BY <1>1, <1>2

(* A row behind a later one decides nothing.                               *)
LEMMA LatestUnmoved ==
    ASSUME NEW h \in [Days -> OptAmount], NEW d \in Days, NEW a \in OptAmount,
           NEW later \in Days, later > d, h[later] # NoAmount
    PROVE  Latest([h EXCEPT ![d] = a]) = Latest(h)
  <1> DEFINE g == [h EXCEPT ![d] = a]
  <1>1. \A e \in Days : e # d => g[e] = h[e]
    OBVIOUS
  <1> HIDE DEF g
  <1>2. later # d
    BY RegistryAssumption DEF Days
  <1>3. \A e \in LastDay(h) : e \in LastDay(g)
    BY <1>1, <1>2, RegistryAssumption DEF LastDay, Days
  <1>4. \A e \in LastDay(g) : e \in LastDay(h)
    BY <1>1, <1>2, RegistryAssumption DEF LastDay, Days
  <1>5. \A e \in LastDay(h) : g[e] = h[e]
    BY <1>1, RegistryAssumption DEF LastDay, Days
  <1>6. CASE LastDay(h) = {}
    <2>1. LastDay(g) = {}
      BY <1>6, <1>4
    <2> QED
      BY <1>6, <2>1 DEF Latest, g
  <1>7. CASE LastDay(h) # {}
    <2>1. PICK e \in LastDay(h) : TRUE
      BY <1>7
    <2>2. Latest(h) = h[e]
      BY <2>1, LatestAt
    <2>3. Latest(g) = g[e]
      BY <2>1, <1>3, LatestAt
    <2> QED
      BY <2>1, <2>2, <2>3, <1>5 DEF g
  <1> QED
    BY <1>6, <1>7

-----------------------------------------------------------------------------
LEMMA ValuationInvInit == ValuationInit => ValuationInv
  <1> SUFFICES ASSUME ValuationInit PROVE ValuationInv
    OBVIOUS
  <1>1. NoEntryJob \in EntryJob
    BY DEF NoEntryJob, EntryJob, OptAmount
  <1>2. ValuationTypeOK
    BY <1>1 DEF ValuationInit, ValuationTypeOK, OptAmount
  <1>3. EntriesSound
    BY DEF ValuationInit, EntriesSound, EntrySound, NoEntryJob
  <1>4. ValueFollowsHistory
    BY DEF ValuationInit, ValueFollowsHistory
  <1> QED
    BY <1>2, <1>3, <1>4 DEF ValuationInv

(* Steps that move one request only: nothing is read, nothing committed.   *)
LEMMA EntryStep ==
    ASSUME ValuationInv, NEW p \in Procs, NEW e \in EntryJob, EntrySound(e),
           entry' = [entry EXCEPT ![p] = e], UNCHANGED <<valued, value, history, raced>>
    PROVE  ValuationInv'
  <1>1. ValuationTypeOK'
    BY DEF ValuationInv, ValuationTypeOK
  <1>2. EntriesSound'
    <2> SUFFICES ASSUME NEW q \in Procs PROVE EntrySound(entry[q])'
      BY DEF EntriesSound
    <2>1. EntrySound(entry[q]) /\ entry'[q] = IF q = p THEN e ELSE entry[q]
      BY DEF ValuationInv, ValuationTypeOK, EntriesSound
    <2> QED
      BY <2>1 DEF EntrySound, VerdictStands, HistoryWith
  <1>3. ValueFollowsHistory'
    BY DEF ValuationInv, ValueFollowsHistory
  <1> QED
    BY <1>1, <1>2, <1>3 DEF ValuationInv

LEMMA IdleEntry == NoEntryJob \in EntryJob /\ EntrySound(NoEntryJob)
  BY DEF NoEntryJob, EntryJob, OptAmount, EntrySound

LEMMA BeginEntrySafe ==
    ASSUME ValuationInv, NEW p \in Procs, NEW x \in Players, NEW d \in Days,
           NEW a \in OptAmount, BeginEntry(p, x, d, a)
    PROVE  ValuationInv'
  <1> DEFINE e == [NoEntryJob EXCEPT !.pc = "update", !.player = x, !.day = d, !.amount = a]
  <1>1. e \in EntryJob /\ e.pc = "update" /\ e.player = x /\ e.day = d
    BY DEF NoEntryJob, EntryJob
  <1>2. x \in valued /\ entry' = [entry EXCEPT ![p] = e]
        /\ UNCHANGED <<valued, value, history, raced>>
    BY DEF BeginEntry
  <1> HIDE DEF e
  <1>3. EntrySound(e)
    BY <1>1, <1>2 DEF EntrySound, VerdictStands
  <1> QED
    BY <1>1, <1>2, <1>3, EntryStep

(* What the UPDATE read is what it will write, or why it writes nothing.   *)
LEMMA SetCurrentSafe ==
    ASSUME ValuationInv, NEW p \in Procs, SetCurrent(p)
    PROVE  ValuationInv'
  <1> DEFINE o == entry[p]
             deleting == o.amount = NoAmount
             writes == deleting \/ NoLater(p)
             figure == IF deleting THEN Latest(Seen(p)) ELSE o.amount
             e == [o EXCEPT !.pc = IF writes THEN "write" ELSE "commit",
                            !.writes = writes, !.figure = figure]
  <1>1. o \in EntryJob /\ o.pc = "update" /\ entry \in [Procs -> EntryJob]
        /\ history \in [Players -> [Days -> OptAmount]]
    BY DEF ValuationInv, ValuationTypeOK, SetCurrent
  <1>2. o.player \in valued /\ o.player \in Players /\ o.day \in Days
    BY <1>1 DEF ValuationInv, EntriesSound, EntrySound
  <1>3. o.amount \in OptAmount
    BY <1>1 DEF EntryJob
  <1>4. Seen(p) \in [Days -> OptAmount] /\ Seen(p) = HistoryWith(o)
        /\ Seen(p) = [history[o.player] EXCEPT ![o.day] = o.amount]
    BY <1>1, <1>2, <1>3 DEF Seen, HistoryWith
  <1>5. figure \in Amounts \cup {0} /\ writes \in BOOLEAN
    BY <1>3, <1>4, LatestType DEF OptAmount
  <1>6. writes => figure = Latest(HistoryWith(o))
    <2>1. SUFFICES ASSUME ~deleting, NoLater(p) PROVE o.amount = Latest(Seen(p))
      BY <1>4
    <2>2. Seen(p)[o.day] = o.amount
      BY <1>1, <1>2, <1>4
    <2>3. o.day \in LastDay(Seen(p))
      BY <1>2, <2>1, <2>2 DEF LastDay, NoLater
    <2> QED
      BY <2>2, <2>3, LatestAt
  <1>7. ~writes => \E d \in Days : d > o.day /\ history[o.player][d] # NoAmount
    <2>1. SUFFICES ASSUME ~NoLater(p)
                   PROVE  \E d \in Days : d > o.day /\ history[o.player][d] # NoAmount
      OBVIOUS
    <2>2. PICK d \in Days : Seen(p)[d] # NoAmount /\ ~(d <= o.day)
      BY <2>1 DEF NoLater
    <2>3. d > o.day /\ d # o.day
      BY <1>2, <2>2, RegistryAssumption DEF Days
    <2>4. Seen(p)[d] = history[o.player][d]
      BY <1>1, <1>2, <1>4, <2>3
    <2> QED
      BY <2>2, <2>3, <2>4
  <1>8. entry' = [entry EXCEPT ![p] = e] /\ UNCHANGED <<valued, value, history, raced>>
    BY <1>1 DEF SetCurrent
  <1> HIDE DEF writes, figure
  <1>9. /\ e \in EntryJob /\ e.player = o.player /\ e.day = o.day /\ e.amount = o.amount
        /\ e.behind = o.behind /\ e.writes = writes /\ e.figure = figure
    BY <1>1, <1>5 DEF EntryJob
  <1> HIDE DEF e
  <1>10. EntrySound(e)
    BY <1>2, <1>6, <1>7, <1>9 DEF EntrySound, VerdictStands, HistoryWith
  <1> QED
    BY <1>8, <1>9, <1>10, EntryStep

LEMMA LockCurrentSafe ==
    ASSUME ValuationInv, NEW p \in Procs, LockCurrent(p)
    PROVE  ValuationInv'
  <1> DEFINE o == entry[p]
             e == [o EXCEPT !.pc = "commit"]
  <1>1. o \in EntryJob /\ o.pc = "write" /\ EntrySound(o)
    BY DEF ValuationInv, ValuationTypeOK, EntriesSound, LockCurrent
  <1>2. entry' = [entry EXCEPT ![p] = e] /\ UNCHANGED <<valued, value, history, raced>>
    BY DEF LockCurrent
  <1>3. /\ e \in EntryJob /\ e.player = o.player /\ e.day = o.day /\ e.amount = o.amount
        /\ e.behind = o.behind /\ e.writes = o.writes /\ e.figure = o.figure
    BY <1>1 DEF EntryJob
  <1> HIDE DEF e
  <1>4. EntrySound(e)
    BY <1>1, <1>3 DEF EntrySound, VerdictStands, HistoryWith
  <1> QED
    BY <1>2, <1>3, <1>4, EntryStep

(* A commit no other overtook leaves the player at the latest valuation,   *)
(* if the player was there before or the commit sets the figure.           *)
LEMMA CommitEntrySafe ==
    ASSUME ValuationInv, NEW p \in Procs, CommitEntry(p)
    PROVE  ValuationInv'
  <1> DEFINE o == entry[p]
             x == o.player
             h == HistoryWith(o)
  <1>1. /\ valued \subseteq Players /\ raced \subseteq Players
        /\ value \in [Players -> Amounts \cup {0}]
        /\ history \in [Players -> [Days -> OptAmount]]
        /\ entry \in [Procs -> EntryJob]
    BY DEF ValuationInv, ValuationTypeOK
  <1>2. o \in EntryJob /\ o.pc = "commit" /\ EntrySound(o)
    BY <1>1 DEF ValuationInv, EntriesSound, CommitEntry
  <1>3. x \in valued /\ x \in Players /\ o.day \in Days /\ VerdictStands(o)
    BY <1>2 DEF EntrySound
  <1>4. o.amount \in OptAmount /\ o.figure \in Amounts \cup {0}
    BY <1>2 DEF EntryJob
  <1>5. h = [history[x] EXCEPT ![o.day] = o.amount] /\ h \in [Days -> OptAmount]
    BY <1>1, <1>3, <1>4 DEF HistoryWith
  <1>6. /\ history' = [history EXCEPT ![x] = h]
        /\ value' = IF o.writes THEN [value EXCEPT ![x] = o.figure] ELSE value
        /\ raced' = IF o.behind THEN raced \cup {x}
                    ELSE IF o.writes THEN raced \ {x} ELSE raced
        /\ valued' = valued
    <2>1. history' = [history EXCEPT ![x][o.day] = o.amount]
      BY DEF CommitEntry
    <2> QED
      BY <1>1, <1>3, <1>5, <2>1 DEF CommitEntry
  <1>7. \A q \in Procs :
          LET b == q # p /\ InFlight(q, x) /\ entry[q].pc \in {"write", "commit"}
          IN entry'[q] = IF q = p THEN NoEntryJob ELSE [entry[q] EXCEPT !.behind = b \/ @]
    <2> SUFFICES ASSUME NEW q \in Procs, q # p
                 PROVE  LET b == InFlight(q, x) /\ entry[q].pc \in {"write", "commit"}
                        IN entry'[q] = [entry[q] EXCEPT !.behind = b \/ @]
      BY DEF CommitEntry
    <2>1. \A e \in EntryJob : e = [e EXCEPT !.behind = FALSE \/ @]
      BY DEF EntryJob
    <2>2. entry[q] \in EntryJob
      BY <1>1
    <2> QED
      BY <2>1, <2>2 DEF CommitEntry
  <1> HIDE DEF h
  <1>8. ValuationTypeOK'
    <2>1. entry' \in [Procs -> EntryJob]
      <3>1. \A e \in EntryJob, b \in BOOLEAN : [e EXCEPT !.behind = b \/ @] \in EntryJob
        BY DEF EntryJob
      <3>2. ASSUME NEW q \in Procs, q # p PROVE entry'[q] \in EntryJob
        <4> DEFINE b == InFlight(q, x) /\ entry[q].pc \in {"write", "commit"}
        <4>1. entry'[q] = [entry[q] EXCEPT !.behind = b \/ @]
          BY <1>7, <3>2
        <4>2. b \in BOOLEAN /\ entry[q] \in EntryJob
          BY <1>1 DEF InFlight
        <4> HIDE DEF b
        <4> QED
          BY <3>1, <4>1, <4>2
      <3>3. entry'[p] \in EntryJob
        BY <1>7, IdleEntry
      <3> QED
        BY <3>2, <3>3 DEF CommitEntry
    <2>2. history' \in [Players -> [Days -> OptAmount]]
      BY <1>1, <1>3, <1>5, <1>6
    <2>3. value' \in [Players -> Amounts \cup {0}] /\ raced' \subseteq Players
      BY <1>1, <1>3, <1>4, <1>6
    <2>4. \A y \in Players \ valued', d \in Days : history'[y][d] = NoAmount
      BY <1>1, <1>3, <1>6 DEF ValuationInv, ValuationTypeOK
    <2> QED
      BY <1>1, <1>6, <2>1, <2>2, <2>3, <2>4 DEF ValuationTypeOK
  <1>9. EntriesSound'
    <2>0. SUFFICES ASSUME NEW q \in Procs, q # p PROVE EntrySound(entry[q])'
      <3>1. entry'[p] = NoEntryJob
        BY DEF CommitEntry
      <3>2. EntrySound(entry[p])'
        BY <3>1 DEF EntrySound, NoEntryJob
      <3> QED
        BY <3>2 DEF EntriesSound
    <2> DEFINE e == entry[q]
    <2>1. e \in EntryJob /\ EntrySound(e)
      BY <1>1 DEF ValuationInv, EntriesSound
    <2>2. entry'[q] = [e EXCEPT !.behind = (InFlight(q, x) /\ e.pc \in {"write", "commit"}) \/ @]
      BY <1>7, <2>0
    <2>3. /\ entry'[q].pc = e.pc /\ entry'[q].player = e.player /\ entry'[q].day = e.day
          /\ entry'[q].amount = e.amount /\ entry'[q].figure = e.figure
          /\ entry'[q].writes = e.writes
          /\ ~entry'[q].behind => ~e.behind /\ ~(InFlight(q, x) /\ e.pc \in {"write", "commit"})
      BY <2>1, <2>2 DEF EntryJob
    <2>4. e.player # x => history'[e.player] = history[e.player]
      BY <1>1, <1>6
    <2> HIDE DEF e
    <2> QED
      BY <1>6, <2>1, <2>3, <2>4 DEF EntrySound, VerdictStands, HistoryWith, InFlight, e
  <1>10. ValueFollowsHistory'
    <2> SUFFICES ASSUME NEW y \in valued', y \notin raced'
                 PROVE  value'[y] = Latest(history'[y])
      BY DEF ValueFollowsHistory, Latest, LastDay
    <2>1. CASE y # x
      <3>1. y \in valued \ raced /\ value'[y] = value[y] /\ history'[y] = history[y]
        BY <1>1, <1>3, <1>6, <2>1
      <3> QED
        BY <3>1 DEF ValuationInv, ValueFollowsHistory
    <2>2. CASE y = x
      <3>1. history'[x] = h /\ ~o.behind
        BY <1>1, <1>3, <1>6, <2>2
      <3>2. CASE o.writes
        <4>1. value'[x] = o.figure
          BY <1>1, <1>3, <1>6, <3>2
        <4> QED
          BY <1>2, <1>3, <2>2, <3>1, <3>2, <4>1 DEF VerdictStands, h
      <3>3. CASE ~o.writes
        <4>1. PICK d \in Days : d > o.day /\ history[x][d] # NoAmount
          BY <1>2, <1>3, <3>1, <3>3 DEF VerdictStands
        <4>2. history[x] \in [Days -> OptAmount]
          BY <1>1, <1>3
        <4>3. Latest(h) = Latest(history[x])
          BY <1>3, <1>4, <1>5, <4>1, <4>2, LatestUnmoved
        <4>4. x \in valued \ raced /\ value'[x] = value[x]
          BY <1>3, <1>6, <2>2, <3>1, <3>3
        <4> QED
          BY <2>2, <3>1, <4>3, <4>4 DEF ValuationInv, ValueFollowsHistory
      <3> QED
        BY <3>2, <3>3
    <2> QED
      BY <2>1, <2>2
  <1> QED
    BY <1>8, <1>9, <1>10 DEF ValuationInv

(* A player is created with the one valuation that agrees with the figure. *)
LEMMA CreateValuedSafe ==
    ASSUME ValuationInv, NEW x \in Players, NEW d \in Days, NEW a \in Amounts,
           CreateValued(x, d, a)
    PROVE  ValuationInv'
  <1> DEFINE v == IF a > 0 THEN a ELSE NoAmount
             h == [history[x] EXCEPT ![d] = v]
  <1>1. /\ valued \subseteq Players /\ raced \subseteq Players
        /\ value \in [Players -> Amounts \cup {0}]
        /\ history \in [Players -> [Days -> OptAmount]]
        /\ entry \in [Procs -> EntryJob]
        /\ \A y \in Players \ valued, e \in Days : history[y][e] = NoAmount
    BY DEF ValuationInv, ValuationTypeOK
  <1>2. /\ x \notin valued /\ valued' = valued \cup {x}
        /\ value' = [value EXCEPT ![x] = a]
        /\ history' = [history EXCEPT ![x] = h]
        /\ entry' = entry /\ raced' = raced
    BY <1>1 DEF CreateValued
  <1>3. v \in OptAmount /\ h \in [Days -> OptAmount]
    BY <1>1 DEF OptAmount
  <1>4. Latest(h) = a
    <2>1. h[d] = v /\ \A e \in Days : e # d => h[e] = NoAmount
      BY <1>1, <1>2
    <2> HIDE DEF h
    <2>2. CASE a > 0
      <3>1. h[d] # NoAmount
        BY <2>1, <2>2, ValuationsAssumption DEF NoAmount
      <3>2. d \in LastDay(h)
        BY <2>1, <3>1, RegistryAssumption DEF LastDay, Days
      <3> QED
        BY <2>1, <2>2, <3>2, LatestAt
    <2>3. CASE ~(a > 0)
      <3>1. LastDay(h) = {}
        BY <2>1, <2>3 DEF LastDay
      <3> QED
        BY <2>3, <3>1, ValuationsAssumption DEF Latest
    <2> QED
      BY <2>2, <2>3
  <1> HIDE DEF v, h
  <1>5. ValuationTypeOK'
    <2>1. history' \in [Players -> [Days -> OptAmount]] /\ value' \in [Players -> Amounts \cup {0}]
      BY <1>1, <1>2, <1>3
    <2>2. \A y \in Players \ valued', e \in Days : history'[y][e] = NoAmount
      BY <1>1, <1>2
    <2> QED
      BY <1>1, <1>2, <2>1, <2>2 DEF ValuationTypeOK
  <1>6. EntriesSound'
    <2> SUFFICES ASSUME NEW q \in Procs PROVE EntrySound(entry[q])'
      BY DEF EntriesSound
    <2>1. EntrySound(entry[q]) /\ entry'[q] = entry[q]
      BY <1>2 DEF ValuationInv, EntriesSound
    <2>2. \A y \in valued : y \in valued' /\ history'[y] = history[y]
      BY <1>1, <1>2
    <2> QED
      BY <2>1, <2>2 DEF EntrySound, VerdictStands, HistoryWith
  <1>7. ValueFollowsHistory'
    <2> SUFFICES ASSUME NEW y \in valued', y \notin raced'
                 PROVE  value'[y] = Latest(history'[y])
      BY DEF ValueFollowsHistory, Latest, LastDay
    <2>1. CASE y = x
      BY <1>1, <1>2, <1>4, <2>1
    <2>2. CASE y # x
      <3>1. y \in valued \ raced /\ value'[y] = value[y] /\ history'[y] = history[y]
        BY <1>1, <1>2, <2>2
      <3> QED
        BY <3>1 DEF ValuationInv, ValueFollowsHistory
    <2> QED
      BY <2>1, <2>2
  <1> QED
    BY <1>5, <1>6, <1>7 DEF ValuationInv

LEMMA DeleteValuedSafe ==
    ASSUME ValuationInv, NEW x \in Players, DeleteValued(x)
    PROVE  ValuationInv'
  <1>1. /\ valued \subseteq Players /\ raced \subseteq Players
        /\ value \in [Players -> Amounts \cup {0}]
        /\ history \in [Players -> [Days -> OptAmount]]
        /\ entry \in [Procs -> EntryJob]
        /\ \A y \in Players \ valued, e \in Days : history[y][e] = NoAmount
    BY DEF ValuationInv, ValuationTypeOK
  <1>2. /\ valued' = valued \ {x} /\ raced' = raced \ {x} /\ entry' = entry
        /\ value' = [value EXCEPT ![x] = 0]
        /\ history' = [history EXCEPT ![x] = [e \in Days |-> NoAmount]]
        /\ \A q \in Procs : entry[q].pc # "idle" => entry[q].player # x
    BY DEF DeleteValued, ClearedHistory, InFlight
  <1>3. \A y \in Players \ {x} : value'[y] = value[y] /\ history'[y] = history[y]
    BY <1>1, <1>2
  <1>4. ValuationTypeOK'
    <2>1. [e \in Days |-> NoAmount] \in [Days -> OptAmount]
      BY DEF OptAmount
    <2>2. history' \in [Players -> [Days -> OptAmount]] /\ value' \in [Players -> Amounts \cup {0}]
      BY <1>1, <1>2, <2>1
    <2>3. \A y \in Players \ valued', e \in Days : history'[y][e] = NoAmount
      BY <1>1, <1>2
    <2> QED
      BY <1>1, <1>2, <2>2, <2>3 DEF ValuationTypeOK
  <1>5. EntriesSound'
    <2> SUFFICES ASSUME NEW q \in Procs PROVE EntrySound(entry[q])'
      BY DEF EntriesSound
    <2>1. EntrySound(entry[q]) /\ entry'[q] = entry[q]
      BY <1>2 DEF ValuationInv, EntriesSound
    <2> QED
      BY <1>2, <1>3, <2>1 DEF EntrySound, VerdictStands, HistoryWith
  <1>6. ValueFollowsHistory'
    <2> SUFFICES ASSUME NEW y \in valued', y \notin raced'
                 PROVE  value'[y] = Latest(history'[y])
      BY DEF ValueFollowsHistory, Latest, LastDay
    <2>1. y \in valued \ raced /\ value'[y] = value[y] /\ history'[y] = history[y]
      BY <1>1, <1>2, <1>3
    <2> QED
      BY <2>1 DEF ValuationInv, ValueFollowsHistory
  <1> QED
    BY <1>4, <1>5, <1>6 DEF ValuationInv

LEMMA ValuationInvStep ==
    ASSUME ValuationInv, [ValuationNext]_valuationVars
    PROVE  ValuationInv'
  <1>1. ASSUME NEW p \in Procs, NEW x \in Players, NEW d \in Days, DeleteValue(p, x, d)
        PROVE  ValuationInv'
    BY <1>1, BeginEntrySafe DEF DeleteValue, OptAmount
  <1>2. ASSUME NEW p \in Procs, NEW x \in Players, NEW d \in Days, NEW a \in Amounts,
               RecordValue(p, x, d, a)
        PROVE  ValuationInv'
    BY <1>2, BeginEntrySafe DEF RecordValue, OptAmount
  <1>3. ASSUME NEW p \in Procs, AbortEntry(p) PROVE ValuationInv'
    BY <1>3, IdleEntry, EntryStep DEF AbortEntry, EndEntry
  <1>4. CASE UNCHANGED valuationVars
    <2>1. UNCHANGED <<valued, value, history, entry, raced>>
      BY <1>4 DEF valuationVars
    <2>2. ValuationTypeOK' /\ ValueFollowsHistory'
      BY <2>1 DEF ValuationInv, ValuationTypeOK, ValueFollowsHistory
    <2>3. EntriesSound'
      BY <2>1 DEF ValuationInv, EntriesSound, EntrySound, VerdictStands, HistoryWith
    <2> QED
      BY <2>2, <2>3 DEF ValuationInv
  <1> QED
    BY <1>1, <1>2, <1>3, <1>4, SetCurrentSafe, LockCurrentSafe, CommitEntrySafe,
       CreateValuedSafe, DeleteValuedSafe DEF ValuationNext

LEMMA ValuationInductive == ValuationSpec => []ValuationInv
  BY ValuationInvInit, ValuationInvStep, PTL DEF ValuationSpec

(* Every reachable state of Valuations is well typed, and a player that    *)
(* does not exist has no valuation on record.                              *)
THEOREM ValuationTypeCorrect == ValuationSpec => []ValuationTypeOK
  <1>1. ValuationInv => ValuationTypeOK
    BY DEF ValuationInv
  <1> QED
    BY <1>1, ValuationInductive, PTL

(* Recording, correcting, backfilling and deleting leave a player at the   *)
(* latest valuation on record, or zero, unless the last transaction that   *)
(* set the figure was overtaken by another on the same player.             *)
THEOREM ValueCorrect == ValuationSpec => []ValueFollowsHistory
  <1>1. ValuationInv => ValueFollowsHistory
    BY DEF ValuationInv
  <1> QED
    BY <1>1, ValuationInductive, PTL

-----------------------------------------------------------------------------
(* Coach spells.  f is the state of a recording.                           *)

(* The rows whose end a recording is about to set are locked by it.        *)
Holding(f) == f.pc \in {"insert", "commit"}

HeldRowsOpen(f) ==
    Holding(f)
      => \A j \in f.closes : /\ Open(j)
                             /\ spells[j].coach = f.spell.coach
                             /\ spells[j].start <= f.spell.start

(* What the EXISTS and the UPDATE read still holds while nobody overtakes: *)
(* without a later spell, none has come and every open one is in hand;     *)
(* with a later one, no open spell begins before this one, unless an       *)
(* earlier race on the coach left it so.                                   *)
ReadingStands(f) ==
    ~f.behind
      => IF f.later
         THEN f.spell.coach \notin crossed
                => \A k \in OpenOf(f.spell.coach) : f.spell.start <= spells[k].start
         ELSE /\ \A j \in SpellIds : spells[j].coach = f.spell.coach
                                       => spells[j].start <= f.spell.start
              /\ f.pc # "close" => OpenOf(f.spell.coach) \subseteq f.closes

FilingSound(f) ==
    f.pc # "idle"
      => /\ f.spell.coach \in Coaches /\ f.spell.start \in Days
         /\ f.spell.end # NoDay => f.spell.start <= f.spell.end
         /\ f.pc = "commit" => f.spell.coach \in employed
         /\ f.later => f.closes = {} /\ f.spell.end # NoDay /\ Holding(f)
         /\ HeldRowsOpen(f)
         /\ ReadingStands(f)

FilingsSound == \A p \in Procs : FilingSound(filing[p])

RowsHeldOnce ==
    \A p, q \in Procs, i \in SpellIds : HoldsSpell(p, i) /\ HoldsSpell(q, i) => p = q

SpellsOfCoaches == \A i \in SpellIds : Recorded(i) => spells[i].coach \in employed

SpellInv ==
    /\ SpellTypeOK
    /\ FilingsSound
    /\ RowsHeldOnce
    /\ SpellsOfCoaches
    /\ OpenSpellIsCurrent

LEMMA IdleFiling == NoFiling \in Filing /\ FilingSound(NoFiling) /\ NoSpell \in Spell
  BY DEF NoFiling, Filing, NoSpell, Spell, OptEmployer, FilingSound

LEMMA SpellInvInit == SpellInit => SpellInv
  <1> SUFFICES ASSUME SpellInit PROVE SpellInv
    OBVIOUS
  <1>1. SpellTypeOK
    BY IdleFiling DEF SpellInit, SpellTypeOK, NoSpell, NoFiling, OptEmployer
  <1>2. FilingsSound
    BY IdleFiling DEF SpellInit, FilingsSound
  <1>3. RowsHeldOnce
    BY DEF SpellInit, RowsHeldOnce, HoldsSpell, NoFiling
  <1>4. SpellsOfCoaches
    BY DEF SpellInit, SpellsOfCoaches, Recorded, NoSpell
  <1>5. OpenSpellIsCurrent
    BY DEF SpellInit, OpenSpellIsCurrent
  <1> QED
    BY <1>1, <1>2, <1>3, <1>4, <1>5 DEF SpellInv

(* Steps that move one recording and touch no row.                         *)
LEMMA FilingStep ==
    ASSUME SpellInv, NEW p \in Procs, NEW f \in Filing, FilingSound(f),
           filing' = [filing EXCEPT ![p] = f],
           UNCHANGED <<employed, jobOf, teamsHere, spells, crossed>>,
           \A i \in f.closes, q \in Procs \ {p} : Holding(f) => ~HoldsSpell(q, i)
    PROVE  SpellInv'
  <1>0. filing \in [Procs -> Filing] /\ f.closes \subseteq SpellIds
    BY DEF SpellInv, SpellTypeOK, Filing
  <1>1. SpellTypeOK'
    <2>1. f.pc # "idle" => f.spell.coach \in Coaches
      BY DEF FilingSound
    <2> QED
      BY <1>0, <2>1 DEF SpellInv, SpellTypeOK
  <1>2. FilingsSound'
    <2> SUFFICES ASSUME NEW q \in Procs PROVE FilingSound(filing[q])'
      BY DEF FilingsSound
    <2>1. FilingSound(filing[q]) /\ filing'[q] = IF q = p THEN f ELSE filing[q]
      BY <1>0 DEF SpellInv, FilingsSound
    <2> QED
      BY <2>1 DEF FilingSound, HeldRowsOpen, ReadingStands, Holding, OpenOf, Open, Recorded
  <1>3. RowsHeldOnce'
    <2>1. \A q \in Procs : filing'[q] = IF q = p THEN f ELSE filing[q]
      BY <1>0
    <2> QED
      BY <2>1 DEF SpellInv, RowsHeldOnce, HoldsSpell, Holding
  <1>4. SpellsOfCoaches' /\ OpenSpellIsCurrent'
    BY DEF SpellInv, SpellsOfCoaches, OpenSpellIsCurrent, OpenOf, Open, Recorded
  <1> QED
    BY <1>1, <1>2, <1>3, <1>4 DEF SpellInv

LEMMA RecordSpellSafe ==
    ASSUME SpellInv, NEW p \in Procs, NEW c \in Coaches, NEW t \in OptEmployer,
           NEW start \in Days, NEW end \in Days \cup {NoDay},
           RecordSpell(p, c, t, start, end)
    PROVE  SpellInv'
  <1> DEFINE later == \E i \in SpellIds : spells[i].coach = c /\ spells[i].start > start
             s == [coach |-> c, team |-> t, start |-> start, end |-> end]
             f == [NoFiling EXCEPT !.pc = IF later THEN "insert" ELSE "close",
                                   !.later = later, !.spell = s]
  <1>1. /\ c \in employed /\ (end # NoDay => start <= end) /\ (later => end # NoDay)
        /\ filing' = [filing EXCEPT ![p] = f]
        /\ UNCHANGED <<employed, jobOf, teamsHere, spells, crossed>>
    BY DEF RecordSpell
  <1>2. later \in BOOLEAN
    OBVIOUS
  <1>3. later => (c \notin crossed => \A k \in OpenOf(c) : start <= spells[k].start)
    <2> SUFFICES ASSUME c \notin crossed, NEW i \in SpellIds, spells[i].coach = c,
                        spells[i].start > start, NEW k \in OpenOf(c)
                 PROVE  start <= spells[k].start
      OBVIOUS
    <2>1. spells[i].start <= spells[k].start
      BY <1>1 DEF SpellInv, OpenSpellIsCurrent
    <2>2. spells[i].start \in Int /\ spells[k].start \in Int
      BY RegistryAssumption DEF SpellInv, SpellTypeOK, Spell, OpenOf, Days, NoDay
    <2> QED
      BY <2>1, <2>2, RegistryAssumption DEF Days
  <1>4. ~later => \A j \in SpellIds : spells[j].coach = c => spells[j].start <= start
    <2>1. \A j \in SpellIds : spells[j].start \in Int
      BY RegistryAssumption DEF SpellInv, SpellTypeOK, Spell, Days, NoDay
    <2> QED
      BY <2>1, RegistryAssumption DEF Days
  <1> HIDE DEF later
  <1>5. s \in Spell /\ s.coach = c /\ s.start = start /\ s.end = end
    BY DEF Spell
  <1> HIDE DEF s
  <1>6. /\ f \in Filing /\ f.pc = (IF later THEN "insert" ELSE "close")
        /\ f.later = later /\ f.spell = s /\ f.closes = {}
    BY <1>2, <1>5 DEF NoFiling, Filing
  <1> HIDE DEF f
  <1>7. FilingSound(f)
    BY <1>1, <1>3, <1>4, <1>5, <1>6 DEF FilingSound, HeldRowsOpen, ReadingStands, Holding
  <1> QED
    BY <1>1, <1>6, <1>7, FilingStep

(* Without a later spell, unovertaken, the UPDATE chooses every open row.  *)
LEMMA ClosableIsAll ==
    ASSUME SpellInv, NEW p \in Procs, filing[p].pc \in {"close", "lock"}
    PROVE  /\ ~filing[p].later
           /\ ~filing[p].behind => Closable(p) = OpenOf(filing[p].spell.coach)
  <1> DEFINE f == filing[p]
  <1>1. FilingSound(f) /\ f \in Filing
    BY DEF SpellInv, SpellTypeOK, FilingsSound
  <1>2. ~f.later
    BY <1>1 DEF FilingSound, Holding
  <1>3. ~f.behind => \A j \in SpellIds : spells[j].coach = f.spell.coach
                                           => spells[j].start <= f.spell.start
    BY <1>1, <1>2 DEF FilingSound, ReadingStands
  <1> HIDE DEF f
  <1>4. ~f.behind => Closable(p) = OpenOf(f.spell.coach)
    BY <1>3 DEF Closable, OpenOf, f
  <1> QED
    BY <1>2, <1>4 DEF f

LEMMA CloseStartSafe ==
    ASSUME SpellInv, NEW p \in Procs, CloseStart(p)
    PROVE  SpellInv'
  <1> DEFINE o == filing[p]
             f == [o EXCEPT !.pc = "lock", !.closes = Closable(p)]
  <1>1. o \in Filing /\ o.pc = "close" /\ FilingSound(o)
    BY DEF SpellInv, SpellTypeOK, FilingsSound, CloseStart
  <1>2. filing' = [filing EXCEPT ![p] = f]
        /\ UNCHANGED <<employed, jobOf, teamsHere, spells, crossed>>
    BY DEF CloseStart
  <1>3. ~o.later /\ (~o.behind => Closable(p) = OpenOf(o.spell.coach))
    BY <1>1, ClosableIsAll
  <1>4. Closable(p) \subseteq SpellIds
    BY DEF Closable, OpenOf
  <1>5. /\ f \in Filing /\ f.pc = "lock" /\ f.closes = Closable(p)
        /\ f.spell = o.spell /\ f.later = o.later /\ f.behind = o.behind
    BY <1>1, <1>4 DEF Filing
  <1> HIDE DEF f
  <1>6. FilingSound(f)
    BY <1>1, <1>3, <1>5 DEF FilingSound, HeldRowsOpen, ReadingStands, Holding
  <1> QED
    BY <1>2, <1>5, <1>6, FilingStep DEF Holding

(* The rows are looked at again under their locks, which no other holds.   *)
LEMMA CloseLockSafe ==
    ASSUME SpellInv, NEW p \in Procs, CloseLock(p)
    PROVE  SpellInv'
  <1> DEFINE o == filing[p]
             S == o.closes \cap Closable(p)
             f == [o EXCEPT !.pc = "insert", !.closes = S]
  <1>1. o \in Filing /\ o.pc = "lock" /\ FilingSound(o)
    BY DEF SpellInv, SpellTypeOK, FilingsSound, CloseLock
  <1>2. filing' = [filing EXCEPT ![p] = f]
        /\ UNCHANGED <<employed, jobOf, teamsHere, spells, crossed>>
        /\ \A i \in S, q \in Procs : ~HoldsSpell(q, i)
    <2>1. filing \in [Procs -> Filing]
      BY DEF SpellInv, SpellTypeOK
    <2> QED
      BY <2>1 DEF CloseLock
  <1>3. ~o.later /\ (~o.behind => Closable(p) = OpenOf(o.spell.coach))
    BY <1>1, ClosableIsAll
  <1>4. S \subseteq SpellIds
    BY DEF Closable, OpenOf
  <1>5. \A j \in S : Open(j) /\ spells[j].coach = o.spell.coach
                     /\ spells[j].start <= o.spell.start
    BY DEF Closable, OpenOf
  <1>6. ~o.behind => OpenOf(o.spell.coach) \subseteq S
    BY <1>1, <1>3 DEF FilingSound, ReadingStands
  <1> HIDE DEF S
  <1>7. /\ f \in Filing /\ f.pc = "insert" /\ f.closes = S
        /\ f.spell = o.spell /\ f.later = o.later /\ f.behind = o.behind
    BY <1>1, <1>4 DEF Filing
  <1> HIDE DEF f
  <1>8. FilingSound(f)
    BY <1>1, <1>3, <1>5, <1>6, <1>7 DEF FilingSound, HeldRowsOpen, ReadingStands
  <1> QED
    BY <1>2, <1>7, <1>8, FilingStep

LEMMA InsertSpellSafe ==
    ASSUME SpellInv, NEW p \in Procs, InsertSpell(p)
    PROVE  SpellInv'
  <1> DEFINE o == filing[p]
             f == [o EXCEPT !.pc = "commit"]
  <1>1. o \in Filing /\ o.pc = "insert" /\ FilingSound(o)
    BY DEF SpellInv, SpellTypeOK, FilingsSound, InsertSpell
  <1>2. CASE filing' = [filing EXCEPT ![p] = f] /\ o.spell.coach \in employed
    <2>1. UNCHANGED <<employed, jobOf, teamsHere, spells, crossed>>
      BY DEF InsertSpell
    <2>2. /\ f \in Filing /\ f.pc = "commit" /\ f.closes = o.closes
          /\ f.spell = o.spell /\ f.later = o.later /\ f.behind = o.behind
      BY <1>1 DEF Filing
    <2> HIDE DEF f
    <2>3. FilingSound(f)
      BY <1>1, <1>2, <2>2 DEF FilingSound, HeldRowsOpen, ReadingStands, Holding
    <2>4. \A i \in f.closes, q \in Procs \ {p} : ~HoldsSpell(q, i)
      <3>1. \A i \in f.closes : i \in SpellIds /\ HoldsSpell(p, i)
        BY <1>1, <2>2 DEF HoldsSpell, Filing
      <3> QED
        BY <3>1 DEF SpellInv, RowsHeldOnce
    <2> QED
      BY <1>2, <2>1, <2>2, <2>3, <2>4, FilingStep
  <1>3. CASE EndFiling(p)
    BY <1>3, IdleFiling, FilingStep DEF EndFiling, InsertSpell, NoFiling, Holding
  <1> QED
    BY <1>2, <1>3 DEF InsertSpell

(* Steps that delete rows or clear their club, and move no recording: the  *)
(* rows a recording holds keep their coach and their dates.                *)
LEMMA RowsGoStep ==
    ASSUME SpellInv, filing' = filing, SpellTypeOK',
           \A i \in SpellIds :
              \/ spells'[i] = NoSpell
              \/ /\ spells'[i].coach = spells[i].coach
                 /\ spells'[i].start = spells[i].start
                 /\ spells'[i].end = spells[i].end,
           \A q \in Procs, i \in SpellIds :
              HoldsSpell(q, i) => /\ spells'[i].coach = spells[i].coach
                                  /\ spells'[i].start = spells[i].start
                                  /\ spells'[i].end = spells[i].end,
           \A q \in Procs : filing[q].pc = "commit" /\ filing[q].spell.coach \in employed
                              => filing[q].spell.coach \in employed',
           \A c \in Coaches \ crossed' :
              c \notin crossed \/ \A i \in SpellIds : spells'[i].coach # c
    PROVE  FilingsSound' /\ RowsHeldOnce'
  <1>1. FilingsSound'
    <2> SUFFICES ASSUME NEW q \in Procs, filing[q].pc # "idle" PROVE FilingSound(filing[q])'
      BY DEF FilingsSound, FilingSound
    <2> DEFINE f == filing[q]
    <2>1. FilingSound(f) /\ filing'[q] = f /\ f \in Filing
      BY DEF SpellInv, SpellTypeOK, FilingsSound
    <2>2. f.spell.coach \in Coaches /\ f.spell.coach # NoCoach
      BY <2>1, CoachSpellsAssumption DEF FilingSound
    <2>3. \A i \in OpenOf(f.spell.coach)' :
             i \in OpenOf(f.spell.coach) /\ spells'[i].start = spells[i].start
      BY <2>2 DEF OpenOf, Open, Recorded, NoSpell
    <2>4. HeldRowsOpen(f)'
      <3>1. Holding(f) => \A j \in f.closes : HoldsSpell(q, j) /\ j \in SpellIds
        BY <2>1 DEF Holding, HoldsSpell, Filing
      <3> QED
        BY <2>1, <3>1 DEF FilingSound, HeldRowsOpen, Holding, Open, Recorded
    <2>5. ReadingStands(f)'
      <3>1. SUFFICES ASSUME ~f.behind PROVE ReadingStands(f)'
        BY DEF ReadingStands
      <3>2. CASE f.later
        BY <2>1, <2>2, <2>3, <3>1, <3>2 DEF FilingSound, ReadingStands, OpenOf
      <3>3. CASE ~f.later
        BY <2>1, <2>2, <2>3, <3>1, <3>3 DEF FilingSound, ReadingStands, NoSpell
      <3> QED
        BY <3>2, <3>3
    <2> HIDE DEF f
    <2> QED
      BY <2>1, <2>4, <2>5 DEF FilingSound, Holding, f
  <1>2. RowsHeldOnce'
    BY DEF SpellInv, RowsHeldOnce, HoldsSpell
  <1> QED
    BY <1>1, <1>2

LEMMA SpellTypeFacts ==
    ASSUME SpellInv
    PROVE  /\ employed \subseteq Coaches /\ crossed \subseteq Coaches
           /\ teamsHere \subseteq Employers
           /\ jobOf \in [Coaches -> OptEmployer]
           /\ spells \in [SpellIds -> Spell]
           /\ filing \in [Procs -> Filing]
           /\ \A i \in SpellIds : spells[i].end # NoDay => spells[i].start <= spells[i].end
           /\ \A p \in Procs : filing[p].pc # "idle" => filing[p].spell.coach \in Coaches
  BY DEF SpellInv, SpellTypeOK

LEMMA DeleteSpellSafe ==
    ASSUME SpellInv, NEW i \in SpellIds, DeleteSpell(i)
    PROVE  SpellInv'
  <1>1. /\ spells' = [spells EXCEPT ![i] = NoSpell]
        /\ UNCHANGED <<employed, jobOf, teamsHere, filing, crossed>>
        /\ \A q \in Procs : ~HoldsSpell(q, i)
    BY DEF DeleteSpell
  <1>2. \A j \in SpellIds : spells'[j] = IF j = i THEN NoSpell ELSE spells[j]
    BY <1>1, SpellTypeFacts
  <1>3. SpellTypeOK'
    <2>1. spells' \in [SpellIds -> Spell]
      BY <1>1, SpellTypeFacts, IdleFiling
    <2>2. \A j \in SpellIds : spells'[j].end # NoDay => spells'[j].start <= spells'[j].end
      BY <1>2, SpellTypeFacts DEF NoSpell
    <2> QED
      BY <1>1, <2>1, <2>2, SpellTypeFacts DEF SpellTypeOK
  <1>4. FilingsSound' /\ RowsHeldOnce'
    BY <1>1, <1>2, <1>3, RowsGoStep
  <1>5. SpellsOfCoaches'
    BY <1>1, <1>2 DEF SpellInv, SpellsOfCoaches, Recorded, NoSpell
  <1>6. OpenSpellIsCurrent'
    <2> SUFFICES ASSUME NEW c \in employed \ crossed, NEW k \in OpenOf(c)'
                 PROVE  /\ OpenOf(c)' = {k}
                        /\ \A j \in SpellIds : spells'[j].coach = c
                                                 => spells'[j].start <= spells'[k].start
                        /\ jobOf'[c] = spells'[k].team
      BY <1>1 DEF OpenSpellIsCurrent
    <2>1. c \in Coaches /\ c # NoCoach
      BY SpellTypeFacts, CoachSpellsAssumption
    <2>2. \A j \in OpenOf(c)' : j \in OpenOf(c) /\ spells'[j] = spells[j]
      BY <1>2, <2>1 DEF OpenOf, Open, Recorded, NoSpell
    <2>3. \A j \in SpellIds : spells'[j].coach = c => spells[j].coach = c /\ spells'[j] = spells[j]
      BY <1>2, <2>1 DEF NoSpell
    <2> QED
      BY <1>1, <2>2, <2>3 DEF SpellInv, OpenSpellIsCurrent
  <1> QED
    BY <1>3, <1>4, <1>5, <1>6 DEF SpellInv

(* A coach that is created has no row from an earlier life.                *)
LEMMA CreateCoachSafe ==
    ASSUME SpellInv, NEW c \in Coaches, NEW t \in OptEmployer, CreateCoach(c, t)
    PROVE  SpellInv'
  <1>1. /\ c \notin employed /\ employed' = employed \cup {c}
        /\ jobOf' = [jobOf EXCEPT ![c] = t]
        /\ UNCHANGED <<teamsHere, spells, filing, crossed>>
    BY DEF CreateCoach
  <1>2. SpellTypeOK'
    BY <1>1, SpellTypeFacts DEF SpellTypeOK
  <1>3. FilingsSound' /\ RowsHeldOnce'
    BY <1>1, <1>2, RowsGoStep
  <1>4. SpellsOfCoaches'
    BY <1>1 DEF SpellInv, SpellsOfCoaches, Recorded
  <1>5. OpenSpellIsCurrent'
    <2>1. \A k \in SpellIds : ~(k \in OpenOf(c))
      BY <1>1 DEF SpellInv, SpellsOfCoaches, OpenOf, Open
    <2>2. \A d \in employed' : d # c => d \in employed /\ jobOf'[d] = jobOf[d]
      BY <1>1, SpellTypeFacts
    <2>3. \A d : OpenOf(d)' = OpenOf(d)
      BY <1>1 DEF OpenOf, Open, Recorded
    <2> SUFFICES ASSUME NEW d \in employed' \ crossed, NEW k \in OpenOf(d)
                 PROVE  /\ OpenOf(d) = {k}
                        /\ \A j \in SpellIds : spells[j].coach = d
                                                 => spells[j].start <= spells[k].start
                        /\ jobOf'[d] = spells[k].team
      BY <1>1, <2>3 DEF OpenSpellIsCurrent
    <2>4. d # c /\ d \in employed \ crossed /\ jobOf'[d] = jobOf[d]
      BY <2>1, <2>2 DEF OpenOf
    <2> QED
      BY <2>4 DEF SpellInv, OpenSpellIsCurrent
  <1> QED
    BY <1>2, <1>3, <1>4, <1>5 DEF SpellInv

LEMMA DeleteCoachSafe ==
    ASSUME SpellInv, NEW c \in Coaches, DeleteCoach(c)
    PROVE  SpellInv'
  <1>1. /\ employed' = employed \ {c} /\ crossed' = crossed \ {c}
        /\ jobOf' = [jobOf EXCEPT ![c] = NoTeam]
        /\ spells' = [j \in SpellIds |-> IF spells[j].coach = c THEN NoSpell ELSE spells[j]]
        /\ teamsHere' = teamsHere /\ filing' = filing
        /\ \A q \in Procs : /\ ~(filing[q].pc = "commit" /\ filing[q].spell.coach = c)
                            /\ \A j \in SpellIds : spells[j].coach = c => ~HoldsSpell(q, j)
    BY DEF DeleteCoach, Referencing
  <1>2. \A j \in SpellIds : spells'[j] = IF spells[j].coach = c THEN NoSpell ELSE spells[j]
    BY <1>1
  <1>3. SpellTypeOK'
    <2>1. spells' \in [SpellIds -> Spell]
      BY <1>1, SpellTypeFacts, IdleFiling
    <2>2. \A j \in SpellIds : spells'[j].end # NoDay => spells'[j].start <= spells'[j].end
      BY <1>2, SpellTypeFacts DEF NoSpell
    <2>3. jobOf' \in [Coaches -> OptEmployer]
      BY <1>1, SpellTypeFacts DEF OptEmployer
    <2> QED
      BY <1>1, <2>1, <2>2, <2>3, SpellTypeFacts DEF SpellTypeOK
  <1>4. \A j \in SpellIds : spells'[j].coach # c
    BY <1>2, CoachSpellsAssumption DEF NoSpell
  <1>5. FilingsSound' /\ RowsHeldOnce'
    BY <1>1, <1>2, <1>3, <1>4, RowsGoStep
  <1>6. SpellsOfCoaches'
    BY <1>1, <1>2 DEF SpellInv, SpellsOfCoaches, Recorded, NoSpell
  <1>7. OpenSpellIsCurrent'
    <2> SUFFICES ASSUME NEW d \in employed' \ crossed', NEW k \in OpenOf(d)'
                 PROVE  /\ OpenOf(d)' = {k}
                        /\ \A j \in SpellIds : spells'[j].coach = d
                                                 => spells'[j].start <= spells'[k].start
                        /\ jobOf'[d] = spells'[k].team
      BY DEF OpenSpellIsCurrent
    <2>1. d \in Coaches /\ d # NoCoach /\ d # c /\ d \in employed \ crossed /\ jobOf'[d] = jobOf[d]
      BY <1>1, SpellTypeFacts, CoachSpellsAssumption
    <2>2. \A j \in SpellIds : (spells'[j].coach = d <=> spells[j].coach = d)
                              /\ (spells[j].coach = d => spells'[j] = spells[j])
      BY <1>2, <2>1 DEF NoSpell
    <2>3. OpenOf(d)' = OpenOf(d)
      BY <2>1, <2>2 DEF OpenOf, Open, Recorded
    <2>4. k \in SpellIds /\ spells'[k] = spells[k]
      BY <2>2, <2>3 DEF OpenOf
    <2> QED
      BY <2>1, <2>2, <2>3, <2>4 DEF SpellInv, OpenSpellIsCurrent
  <1> QED
    BY <1>3, <1>5, <1>6, <1>7 DEF SpellInv

LEMMA DeleteSpellTeamSafe ==
    ASSUME SpellInv, NEW t \in Employers, DeleteSpellTeam(t)
    PROVE  SpellInv'
  <1>1. /\ teamsHere' = teamsHere \ {t}
        /\ jobOf' = [c \in Coaches |-> IF jobOf[c] = t THEN NoTeam ELSE jobOf[c]]
        /\ spells' = [i \in SpellIds |-> IF spells[i].team = t
                                         THEN [spells[i] EXCEPT !.team = NoTeam] ELSE spells[i]]
        /\ UNCHANGED <<employed, filing, crossed>>
    BY DEF DeleteSpellTeam
  <1>2. \A j \in SpellIds : /\ spells'[j] \in Spell
                            /\ spells'[j].coach = spells[j].coach
                            /\ spells'[j].start = spells[j].start
                            /\ spells'[j].end = spells[j].end
                            /\ spells'[j].team = IF spells[j].team = t THEN NoTeam
                                                 ELSE spells[j].team
    <2>1. \A s \in Spell : /\ [s EXCEPT !.team = NoTeam] \in Spell
                           /\ [s EXCEPT !.team = NoTeam].coach = s.coach
                           /\ [s EXCEPT !.team = NoTeam].start = s.start
                           /\ [s EXCEPT !.team = NoTeam].end = s.end
                           /\ [s EXCEPT !.team = NoTeam].team = NoTeam
      BY DEF Spell, OptEmployer
    <2> QED
      BY <1>1, <2>1, SpellTypeFacts
  <1>3. SpellTypeOK'
    <2>1. spells' \in [SpellIds -> Spell]
      BY <1>1, <1>2
    <2>2. jobOf' \in [Coaches -> OptEmployer]
      BY <1>1, SpellTypeFacts DEF OptEmployer
    <2> QED
      BY <1>1, <1>2, <2>1, <2>2, SpellTypeFacts DEF SpellTypeOK
  <1>4. FilingsSound' /\ RowsHeldOnce'
    BY <1>1, <1>2, <1>3, RowsGoStep
  <1>5. SpellsOfCoaches'
    BY <1>1, <1>2 DEF SpellInv, SpellsOfCoaches, Recorded
  <1>6. OpenSpellIsCurrent'
    <2>1. \A d : OpenOf(d)' = OpenOf(d)
      BY <1>2 DEF OpenOf, Open, Recorded
    <2>0. employed' = employed /\ crossed' = crossed
      BY <1>1
    <2> SUFFICES ASSUME NEW d \in employed \ crossed, NEW k \in OpenOf(d)
                 PROVE  /\ OpenOf(d) = {k}
                        /\ \A j \in SpellIds : spells'[j].coach = d
                                                 => spells'[j].start <= spells'[k].start
                        /\ jobOf'[d] = spells'[k].team
      BY <2>0, <2>1 DEF OpenSpellIsCurrent
    <2>2. k \in SpellIds /\ d \in Coaches
      BY SpellTypeFacts DEF OpenOf
    <2> QED
      BY <1>1, <1>2, <2>2 DEF SpellInv, OpenSpellIsCurrent
  <1> QED
    BY <1>3, <1>4, <1>5, <1>6 DEF SpellInv

(* The commit of a recording that nobody overtook leaves the coach with    *)
(* its spell as the one open spell, or with the open spell it had.         *)
LEMMA CommitSpellSafe ==
    ASSUME SpellInv, NEW p \in Procs, NEW i \in SpellIds, CommitSpell(p, i)
    PROVE  SpellInv'
  <1> DEFINE o == filing[p]
             s == o.spell
             c == s.coach
  <1>1. o \in Filing /\ o.pc = "commit" /\ FilingSound(o)
    BY SpellTypeFacts DEF SpellInv, FilingsSound, CommitSpell
  <1>2. s \in Spell /\ o.closes \subseteq SpellIds /\ o.later \in BOOLEAN /\ o.behind \in BOOLEAN
    BY <1>1 DEF Filing
  <1>3. /\ c \in Coaches /\ c \in employed /\ c # NoCoach /\ s.start \in Days
        /\ s.end # NoDay => s.start <= s.end
        /\ o.later => o.closes = {} /\ s.end # NoDay
        /\ ReadingStands(o)
    BY <1>1, CoachSpellsAssumption DEF FilingSound
  <1>4. \A j \in o.closes : /\ Open(j) /\ spells[j].coach = c /\ spells[j].start <= s.start
                            /\ HoldsSpell(p, j)
    BY <1>1 DEF FilingSound, HeldRowsOpen, Holding, HoldsSpell
  <1>5. /\ spells' = [j \in SpellIds |->
                        IF j = i THEN s
                        ELSE IF j \in o.closes THEN [spells[j] EXCEPT !.end = s.start]
                        ELSE spells[j]]
        /\ jobOf' = IF s.end = NoDay /\ ~o.later THEN [jobOf EXCEPT ![c] = s.team] ELSE jobOf
        /\ crossed' = IF o.behind THEN crossed \cup {c}
                      ELSE IF ~o.later THEN crossed \ {c} ELSE crossed
        /\ ~Recorded(i) /\ \A q \in Procs : i \notin filing[q].closes
        /\ employed' = employed /\ teamsHere' = teamsHere
    BY DEF CommitSpell
  <1>6. filing' = [q \in Procs |->
                     IF q = p THEN NoFiling
                     ELSE IF filing[q].spell.coach = c THEN [filing[q] EXCEPT !.behind = TRUE]
                     ELSE filing[q]]
    BY DEF CommitSpell
  <1>7. \A j \in SpellIds :
          /\ j = i => spells'[j] = s
          /\ j # i /\ j \in o.closes => /\ spells'[j] \in Spell
                                        /\ spells'[j].coach = c
                                        /\ spells'[j].start = spells[j].start
                                        /\ spells'[j].end = s.start
          /\ j # i /\ j \notin o.closes => spells'[j] = spells[j]
    <2>1. \A r \in Spell : /\ [r EXCEPT !.end = s.start] \in Spell
                           /\ [r EXCEPT !.end = s.start].coach = r.coach
                           /\ [r EXCEPT !.end = s.start].start = r.start
                           /\ [r EXCEPT !.end = s.start].end = s.start
      BY <1>3 DEF Spell
    <2>2. \A j \in o.closes : spells[j] \in Spell /\ spells[j].coach = c
      BY <1>2, <1>4, SpellTypeFacts
    <2> HIDE DEF s, c
    <2> QED
      BY <1>5, <2>1, <2>2
  <1>8. \A q \in Procs \ {p} :
          /\ filing'[q] \in Filing
          /\ filing'[q].pc = filing[q].pc /\ filing'[q].spell = filing[q].spell
          /\ filing'[q].later = filing[q].later /\ filing'[q].closes = filing[q].closes
          /\ ~filing'[q].behind => ~filing[q].behind /\ filing[q].spell.coach # c
    <2>1. \A r \in Filing : /\ [r EXCEPT !.behind = TRUE] \in Filing
                            /\ [r EXCEPT !.behind = TRUE].pc = r.pc
                            /\ [r EXCEPT !.behind = TRUE].spell = r.spell
                            /\ [r EXCEPT !.behind = TRUE].later = r.later
                            /\ [r EXCEPT !.behind = TRUE].closes = r.closes
                            /\ [r EXCEPT !.behind = TRUE].behind = TRUE
      BY DEF Filing
    <2> HIDE DEF c
    <2> QED
      BY <1>6, <2>1, SpellTypeFacts
  <1>9. filing'[p] = NoFiling
    BY <1>6
  <1>10. \A j \in SpellIds : spells'[j].coach # c => spells'[j] = spells[j]
    BY <1>7
  <1>11. \A j \in SpellIds : spells[j].coach # c /\ j # i => spells'[j] = spells[j]
    BY <1>4, <1>7
  <1>12. SpellTypeOK'
    <2>1. spells' \in [SpellIds -> Spell]
      <3>1. \A j \in SpellIds : spells'[j] \in Spell
        BY <1>2, <1>7, SpellTypeFacts
      <3> QED
        BY <1>5, <3>1
    <2>2. filing' \in [Procs -> Filing]
      <3>1. \A q \in Procs : filing'[q] \in Filing
        BY <1>8, <1>9, IdleFiling
      <3> QED
        BY <1>6, <3>1
    <2>3. jobOf' \in [Coaches -> OptEmployer]
      <3>1. s.team \in OptEmployer
        BY <1>2 DEF Spell
      <3> QED
        BY <1>3, <1>5, <3>1, SpellTypeFacts
    <2>4. crossed' \subseteq Coaches
      BY <1>3, <1>5, SpellTypeFacts
    <2>5. \A j \in SpellIds : spells'[j].end # NoDay => spells'[j].start <= spells'[j].end
      BY <1>3, <1>4, <1>7, SpellTypeFacts
    <2>6. \A q \in Procs : filing'[q].pc # "idle" => filing'[q].spell.coach \in Coaches
      BY <1>8, <1>9, SpellTypeFacts DEF NoFiling
    <2> QED
      BY <1>5, <2>1, <2>2, <2>3, <2>4, <2>5, <2>6, SpellTypeFacts DEF SpellTypeOK
  <1> HIDE DEF c, s
  <1>13. FilingsSound'
    <2>0. SUFFICES ASSUME NEW q \in Procs, q # p, filing[q].pc # "idle"
                   PROVE  FilingSound(filing[q])'
      BY <1>8, <1>9 DEF FilingsSound, FilingSound, NoFiling
    <2> DEFINE f == filing[q]
               g == filing'[q]
    <2>1. /\ g.pc = f.pc /\ g.spell = f.spell /\ g.later = f.later /\ g.closes = f.closes
          /\ ~g.behind => ~f.behind /\ f.spell.coach # c
      BY <1>8, <2>0
    <2>2. FilingSound(f) /\ f \in Filing /\ f.spell.coach \in Coaches
      BY <2>0, SpellTypeFacts DEF SpellInv, FilingsSound
    <2> HIDE DEF g
    <2>. PICK d \in Coaches : d = f.spell.coach
      BY <2>2
    <2>3. Holding(f) => \A j \in f.closes : /\ Open(j)' /\ spells'[j].coach = f.spell.coach
                                            /\ spells'[j].start <= f.spell.start
      <3> SUFFICES ASSUME Holding(f), NEW j \in f.closes
                   PROVE  /\ Open(j)' /\ spells'[j].coach = f.spell.coach
                          /\ spells'[j].start <= f.spell.start
        OBVIOUS
      <3>1. j \in SpellIds /\ HoldsSpell(q, j) /\ j # i
        BY <1>5, <2>2 DEF Filing, Holding, HoldsSpell
      <3>2. j \notin o.closes
        BY <1>4, <2>0, <3>1 DEF SpellInv, RowsHeldOnce
      <3>3. spells'[j] = spells[j]
        BY <1>7, <3>1, <3>2
      <3> QED
        BY <2>0, <2>2, <3>3 DEF FilingSound, HeldRowsOpen, Open, Recorded
    <2>4. ASSUME ~g.behind
          PROVE  /\ \A j \in SpellIds : spells'[j].coach = d => spells'[j] = spells[j]
                 /\ OpenOf(d)' = OpenOf(d)
                 /\ d \notin crossed' => d \notin crossed
      <3>1. d # c /\ d # NoCoach
        BY <2>1, <2>4, CoachSpellsAssumption
      <3>2. \A j \in SpellIds : spells'[j].coach = d => spells'[j] = spells[j]
        BY <1>10, <3>1
      <3>3. \A j \in SpellIds : spells[j].coach = d => spells'[j] = spells[j]
        BY <1>5, <1>11, <3>1 DEF Recorded
      <3>4. OpenOf(d)' = OpenOf(d)
        BY <3>2, <3>3 DEF OpenOf, Open, Recorded
      <3>5. d \notin crossed' => d \notin crossed
        BY <1>5, <3>1
      <3> QED
        BY <3>2, <3>4, <3>5
    <2>5. ReadingStands(filing[q])'
      <3>1. SUFFICES ASSUME ~g.behind PROVE ReadingStands(filing[q])'
        BY DEF ReadingStands, g
      <3>2. ReadingStands(f) /\ ~f.behind
        BY <2>1, <2>2, <3>1, <2>0 DEF FilingSound
      <3>3. \A j \in OpenOf(d) : j \in SpellIds /\ spells[j].coach = d
        BY DEF OpenOf
      <3>4. \A j \in SpellIds : spells[j].coach = d => spells'[j] = spells[j]
        BY <1>5, <1>11, <2>1, <3>1, CoachSpellsAssumption DEF Recorded
      <3> HIDE DEF f
      <3> QED
        BY <2>1, <2>4, <3>1, <3>2, <3>3, <3>4 DEF ReadingStands, g
    <2> HIDE DEF f
    <2> QED
      BY <1>5, <2>1, <2>2, <2>3, <2>5 DEF FilingSound, HeldRowsOpen, Holding, f, g
  <1>14. RowsHeldOnce'
    <2>1. \A q \in Procs, j \in SpellIds : HoldsSpell(q, j)' => HoldsSpell(q, j)
      BY <1>8, <1>9 DEF HoldsSpell, NoFiling
    <2> QED
      BY <2>1 DEF SpellInv, RowsHeldOnce
  <1>15. SpellsOfCoaches'
    <2> SUFFICES ASSUME NEW j \in SpellIds, Recorded(j)' PROVE spells'[j].coach \in employed
      BY <1>5 DEF SpellsOfCoaches
    <2>1. CASE spells'[j].coach = c
      BY <1>3, <2>1
    <2>2. CASE spells'[j].coach # c
      BY <1>10, <2>2 DEF SpellInv, SpellsOfCoaches, Recorded
    <2> QED
      BY <2>1, <2>2
  <1>16. OpenSpellIsCurrent'
    <2> SUFFICES ASSUME NEW d \in employed, d \notin crossed', NEW k \in OpenOf(d)'
                 PROVE  /\ OpenOf(d)' = {k}
                        /\ \A j \in SpellIds : spells'[j].coach = d
                                                 => spells'[j].start <= spells'[k].start
                        /\ jobOf'[d] = spells'[k].team
      BY <1>5 DEF OpenSpellIsCurrent
    <2>0. d \in Coaches /\ d # NoCoach /\ k \in SpellIds /\ spells'[k].coach = d
          /\ spells'[k].end = NoDay
      BY SpellTypeFacts, CoachSpellsAssumption DEF OpenOf, Open
    <2>1. CASE d # c
      <3>1. \A j \in SpellIds : spells'[j].coach = d => spells'[j] = spells[j]
        BY <1>10, <2>1
      <3>2. \A j \in SpellIds : spells[j].coach = d => spells'[j] = spells[j]
        BY <1>5, <1>11, <2>0, <2>1 DEF Recorded
      <3>3. OpenOf(d)' = OpenOf(d)
        BY <3>1, <3>2 DEF OpenOf, Open, Recorded
      <3>4. d \notin crossed /\ jobOf'[d] = jobOf[d]
        BY <1>3, <1>5, <2>0, <2>1, SpellTypeFacts
      <3> QED
        BY <2>0, <3>1, <3>3, <3>4 DEF SpellInv, OpenSpellIsCurrent
    <2>2. CASE d = c /\ ~o.later
      <3>1. ~o.behind
        BY <1>5, <2>2
      <3>2. /\ \A j \in SpellIds : spells[j].coach = d => spells[j].start <= s.start
            /\ OpenOf(d) \subseteq o.closes
        BY <1>1, <1>3, <2>2, <3>1 DEF ReadingStands, s, c
      <3>3. \A j \in SpellIds : spells'[j].coach = d => spells'[j].start <= s.start
        BY <1>3, <1>4, <1>7, <2>2, <3>2, RegistryAssumption DEF Days
      <3>4. \A j \in SpellIds : j # i => ~(j \in OpenOf(d)')
        <4> SUFFICES ASSUME NEW j \in SpellIds, j # i, j \in OpenOf(d)' PROVE FALSE
          OBVIOUS
        <4>1. CASE j \in o.closes
          BY <1>3, <1>7, <4>1, RegistryAssumption DEF OpenOf, Open, Days, NoDay
        <4>2. CASE j \notin o.closes
          <5>1. spells'[j] = spells[j]
            BY <1>7, <4>2
          <5>2. j \in OpenOf(d)
            BY <5>1 DEF OpenOf, Open, Recorded
          <5> QED
            BY <3>2, <4>2, <5>2
        <4> QED
          BY <4>1, <4>2
      <3>5. k = i
        BY <2>0, <3>4
      <3>6. spells'[k] = s /\ s.end = NoDay
        BY <1>7, <2>0, <3>5
      <3>7. OpenOf(d)' = {k}
        BY <2>2, <3>4, <3>5 DEF OpenOf
      <3>8. jobOf'[d] = s.team
        BY <1>5, <2>0, <2>2, <3>6, SpellTypeFacts
      <3> QED
        BY <2>2, <3>3, <3>6, <3>7, <3>8
    <2>3. CASE d = c /\ o.later
      <3>1. ~o.behind /\ c \notin crossed
        BY <1>2, <1>5, <2>3
      <3>2. o.closes = {} /\ s.end # NoDay
        BY <1>3, <2>3
      <3>3. \A j \in SpellIds : j # i => spells'[j] = spells[j]
        BY <1>7, <3>2
      <3>4. spells'[i] = s /\ ~Recorded(i)
        BY <1>5, <1>7
      <3>5. OpenOf(d)' = OpenOf(d)
        BY <3>2, <3>3, <3>4 DEF OpenOf, Open, Recorded
      <3>6. k # i /\ k \in OpenOf(d) /\ spells'[k] = spells[k]
        BY <2>0, <2>3, <3>2, <3>3, <3>4, <3>5
      <3>7. /\ OpenOf(d) = {k}
            /\ \A j \in SpellIds : spells[j].coach = d => spells[j].start <= spells[k].start
            /\ jobOf[d] = spells[k].team
        BY <2>3, <3>1, <3>6 DEF SpellInv, OpenSpellIsCurrent
      <3>8. s.start <= spells[k].start
        BY <1>1, <1>3, <2>3, <3>1, <3>6 DEF ReadingStands, s, c
      <3>9. jobOf' = jobOf
        BY <1>5, <3>2
      <3> QED
        BY <2>3, <3>3, <3>4, <3>5, <3>6, <3>7, <3>8, <3>9
    <2> QED
      BY <1>2, <2>1, <2>2, <2>3
  <1> QED
    BY <1>12, <1>13, <1>14, <1>15, <1>16 DEF SpellInv

LEMMA SpellInvStep ==
    ASSUME SpellInv, [SpellNext]_spellVars
    PROVE  SpellInv'
  <1>1. ASSUME NEW p \in Procs, AbortFiling(p) PROVE SpellInv'
    BY <1>1, IdleFiling, FilingStep DEF AbortFiling, EndFiling, NoFiling, Holding
  <1>2. CASE UNCHANGED spellVars
    <2>1. UNCHANGED <<employed, jobOf, teamsHere, spells, filing, crossed>>
      BY <1>2 DEF spellVars
    <2>2. SpellTypeOK'
      BY <2>1 DEF SpellInv, SpellTypeOK
    <2>3. FilingsSound' /\ RowsHeldOnce'
      BY <2>1, <2>2, RowsGoStep
    <2>4. SpellsOfCoaches' /\ OpenSpellIsCurrent'
      BY <2>1 DEF SpellInv, SpellsOfCoaches, OpenSpellIsCurrent, OpenOf, Open, Recorded
    <2> QED
      BY <2>2, <2>3, <2>4 DEF SpellInv
  <1> QED
    BY <1>1, <1>2, RecordSpellSafe, CloseStartSafe, CloseLockSafe, InsertSpellSafe,
       CommitSpellSafe, DeleteSpellSafe, DeleteCoachSafe, CreateCoachSafe,
       DeleteSpellTeamSafe DEF SpellNext

LEMMA SpellInductive == SpellSpec => []SpellInv
  BY SpellInvInit, SpellInvStep, PTL DEF SpellSpec

(* Every reachable state of CoachSpells is well typed; no spell ends       *)
(* before it begins.                                                       *)
THEOREM SpellTypeCorrect == SpellSpec => []SpellTypeOK
  <1>1. SpellInv => SpellTypeOK
    BY DEF SpellInv
  <1> QED
    BY <1>1, SpellInductive, PTL

(* An open spell is the coach's only one and the latest, and names the     *)
(* club the coach is shown at, unless recordings of the coach overlapped   *)
(* and none has run alone since.                                           *)
THEOREM AppointmentCorrect == SpellSpec => []OpenSpellIsCurrent
  <1>1. SpellInv => OpenSpellIsCurrent
    BY DEF SpellInv
  <1> QED
    BY <1>1, SpellInductive, PTL

-----------------------------------------------------------------------------
(* Accounts.                                                               *)

\* The profile a may be linked to the account u.
Entitled(a, u) == users[u].by = a \/ (Vouches[a] /\ users[u].email = MailOf[a])

IsOver(k) == token[k].stage \in {"spent", "gone"}

\* What a request in state r may rely on: what its UPDATE found is over or still
\* there to be marked, and once it has its locks the rest is over.
Known(r) ==
    /\ r.pc \in {"mail", "create"} => r.profile \in Profiles
    /\ r.pc = "link" =>
          /\ r.user \in Users /\ users[r.user].status # "unborn"
          /\ Here(r.user) => Entitled(r.profile, r.user)
    /\ \A k \in r.rows : token[k].stage # "undrawn"
    /\ r.pc = "consume" => \A k \in r.picked : IsOver(k) \/ k \in Outstanding(r.user)
    /\ r.pc = "insert" => \A k \in r.picked : IsOver(k) \/ k \in r.rows

Locking ==
    /\ \A p, q \in Requests : p # q => LockedLinks(p) \cap LockedLinks(q) = {}
    /\ \A p \in Requests : \A k \in LockedLinks(p) : token[k].stage \in {"live", "expired"}

IInv ==
    /\ TypeOK
    /\ LinkPolicy
    /\ ResendEndsOlderLinks
    /\ \A p \in Requests : Known(request[p])
    /\ Locking

-----------------------------------------------------------------------------
LEMMA NoRequestFits == NoRequest \in Request /\ Known(NoRequest) /\ NoRequest.pc = "idle"
  BY DEF NoRequest, Request, OptUser, Known, IsOver

(* The states Goto leads to.                                               *)
At(pc, u, a) == [NoRequest EXCEPT !.pc = pc, !.user = u, !.profile = a]

LEMMA AtFields ==
    ASSUME NEW pc, NEW u, NEW a
    PROVE  /\ At(pc, u, a).pc = pc /\ At(pc, u, a).user = u
           /\ At(pc, u, a).profile = a /\ At(pc, u, a).rows = {} /\ At(pc, u, a).picked = {}
  BY DEF At, NoRequest

LEMMA AtIsRequest ==
    ASSUME NEW pc \in {"begin", "mark", "mail", "create", "link", "code", "open", "unlink"},
           NEW u \in OptUser, NEW a \in Profiles \cup {NoProfile}
    PROVE  At(pc, u, a) \in Request
  BY DEF At, NoRequest, Request

(* What a request knows it keeps, if accounts are not reborn, their origin *)
(* and address stay, and a drawn token remains drawn, outstanding for its  *)
(* owner or over.                                                          *)
MovesOn(k) ==
    \/ token'[k].stage \in {"spent", "gone"}
    \/ /\ token[k].stage \in {"live", "expired"} /\ token'[k].stage \in {"live", "expired"}
       /\ token'[k].owner = token[k].owner

Settled ==
    /\ \A u \in Users : users[u].status # "unborn" =>
          /\ users'[u].status # "unborn"
          /\ users'[u].status = "here" => /\ users[u].status = "here"
                                          /\ users'[u].by = users[u].by
                                          /\ users'[u].email = users[u].email
    /\ \A k \in Tokens : token[k].stage # "undrawn" => MovesOn(k)

LEMMA TokensStay ==
    ASSUME IInv, UNCHANGED token
    PROVE  \A k \in Tokens : token[k].stage # "undrawn" => MovesOn(k)
  BY DEF IInv, TypeOK, TokenRow, MovesOn

LEMMA KnownLasts ==
    ASSUME NEW r \in Request, Known(r), Settled
    PROVE  Known(r)'
<1>1. r.rows \subseteq Tokens /\ r.picked \subseteq Links /\ Links \subseteq Tokens
  BY DEF Request, Tokens
<1>2. \A k \in r.rows : token'[k].stage # "undrawn"
  BY <1>1 DEF Known, Settled, MovesOn
<1>5. \A k \in Links : IsOver(k) => IsOver(k)'
  BY <1>1 DEF Settled, MovesOn, IsOver
<1>6. \A k \in Links, u \in OptUser : k \in Outstanding(u) => IsOver(k)' \/ k \in Outstanding(u)'
  BY <1>1 DEF Settled, MovesOn, IsOver, Outstanding
<1>7. r.pc = "consume" => \A k \in r.picked : IsOver(k)' \/ k \in Outstanding(r.user)'
  BY <1>1, <1>5, <1>6 DEF Known, Request
<1>8. r.pc = "insert" => \A k \in r.picked : IsOver(k)' \/ k \in r.rows
  BY <1>1, <1>5 DEF Known
<1>3. ASSUME r.pc = "link"
      PROVE  /\ r.user \in Users /\ users'[r.user].status # "unborn"
             /\ Here(r.user)' => Entitled(r.profile, r.user)'
  BY <1>3 DEF Known, Settled, Here, Entitled
<1>4. QED
  BY <1>2, <1>3, <1>7, <1>8 DEF Known

(* The links that others than p have locked stay outstanding.              *)
KeepsLocks(p) ==
    \A q \in Requests \ {p} : \A k \in LockedLinks(q) : token'[k].stage \in {"live", "expired"}

(* Request p goes to r; the others stay where they are.                    *)
LEMMA RequestsKnown ==
    ASSUME IInv, Settled, NEW p \in Requests, NEW r \in Request, Known(r)',
           request' = [request EXCEPT ![p] = r],
           KeepsLocks(p),
           r.pc = "insert" => \A k \in r.rows : /\ token'[k].stage \in {"live", "expired"}
                                               /\ ~LockedByOther(p, k)
    PROVE  request' \in [Requests -> Request] /\ (\A q \in Requests : Known(request[q])') /\ Locking'
<1>1. /\ request' \in [Requests -> Request]
      /\ request'[p] = r
      /\ \A q \in Requests \ {p} : request'[q] = request[q]
  BY DEF IInv, TypeOK
<1>2. ASSUME NEW q \in Requests PROVE Known(request[q])'
  <2> PICK s : s = request'[q]
    OBVIOUS
  <2>1. Known(s)'
    <3>1. CASE q = p
      BY <1>1, <3>1
    <3>2. CASE q # p
      <4>1. s = request[q] /\ s \in Request /\ Known(s)
        BY <1>1, <3>2 DEF IInv, TypeOK
      <4>2. QED
        BY <4>1, KnownLasts
    <3>3. QED
      BY <3>1, <3>2
  <2>2. QED
    BY <2>1 DEF Known, Here, Entitled
<1>3. Locking'
  BY <1>1 DEF IInv, Locking, LockedLinks, LockedByOther, KeepsLocks
<1>4. QED
  BY <1>1, <1>2, <1>3

-----------------------------------------------------------------------------
(***************************************************************************)
(* Steps that write no table.                                              *)
(***************************************************************************)
LEMMA RequestStep ==
    ASSUME IInv, NEW p \in Requests, NEW r \in Request, Known(r),
           request' = [request EXCEPT ![p] = r],
           r.pc = "insert" => \A k \in r.rows : /\ token[k].stage \in {"live", "expired"}
                                               /\ ~LockedByOther(p, k),
           UNCHANGED <<users, identity, token, honours, ended>>
    PROVE  IInv'
<1>1. Settled /\ KeepsLocks(p)
  BY TokensStay DEF Settled, KeepsLocks, IInv, Locking
<1>2. Known(r)'
  BY <1>1, KnownLasts
<1>3. request' \in [Requests -> Request] /\ (\A q \in Requests : Known(request[q])') /\ Locking'
  BY <1>1, <1>2, RequestsKnown
<1>4. TypeOK' /\ LinkPolicy' /\ ResendEndsOlderLinks'
  BY <1>3 DEF IInv, TypeOK, Here, LinkPolicy, ResendEndsOlderLinks
<1>5. QED
  BY <1>3, <1>4 DEF IInv

LEMMA RequestDoneStep ==
    ASSUME IInv, NEW p \in Requests, Finish(p),
           UNCHANGED <<users, identity, token, honours, ended>>
    PROVE  IInv'
  BY RequestStep, NoRequestFits DEF Finish

LEMMA GotoStep ==
    ASSUME IInv, NEW p \in Requests, NEW u \in OptUser, NEW a \in Profiles \cup {NoProfile},
           NEW pc \in {"begin", "mark", "mail", "create", "link", "code", "open", "unlink"},
           Goto(p, pc, u, a),
           pc \in {"mail", "create"} => a \in Profiles,
           pc = "link" => Here(u) /\ Entitled(a, u),
           UNCHANGED <<users, identity, token, honours, ended>>
    PROVE  IInv'
<1> PICK r : r = At(pc, u, a)
  OBVIOUS
<1>1. r \in Request /\ Known(r) /\ r.pc # "insert"
  BY AtIsRequest, AtFields DEF Known, Here
<1>2. request' = [request EXCEPT ![p] = r]
  BY DEF Goto, At
<1>3. QED
  BY <1>1, <1>2, RequestStep

LEMMA QuietSteps ==
    ASSUME IInv, NEW p \in Requests,
           \/ \E u \in Users : ResendVerification(p, u)
           \/ IssueBegin(p) \/ IssueConsume(p)
           \/ \E a \in Profiles : CompleteOAuth(p, a)
           \/ FindByMail(p)
           \/ OpenSession(p)
           \/ \E a \in Profiles : UnlinkCheck(p, a)
           \/ Cancel(p)
    PROVE  IInv'
<1>1. ASSUME NEW u \in Users, ResendVerification(p, u) PROVE IInv'
  BY <1>1, GotoStep DEF ResendVerification, OptUser
<1>2. CASE IssueBegin(p)
  <2> PICK r : r = [request[p] EXCEPT !.pc = "consume", !.picked = Outstanding(request[p].user)]
    OBVIOUS
  <2>1. request[p] \in Request /\ Known(request[p]) /\ Outstanding(request[p].user) \in SUBSET Links
    BY DEF IInv, TypeOK, Outstanding
  <2>2. /\ r \in Request /\ r.pc = "consume" /\ r.picked = Outstanding(r.user)
        /\ r.rows = request[p].rows
    BY <2>1 DEF Request
  <2>3. Known(r)
    BY <2>1, <2>2 DEF Known
  <2>4. QED
    BY <1>2, <2>1, <2>2, <2>3, RequestStep DEF IssueBegin, IInv, TypeOK
<1>3. CASE IssueConsume(p)
  <2>0. PICK rows : /\ Locks(p, rows)
                    /\ request' = [request EXCEPT ![p].pc = "insert", ![p].rows = rows]
                    /\ request[p].pc = "consume"
                    /\ UNCHANGED <<users, identity, token, honours, ended>>
    BY <1>3 DEF IssueConsume
  <2> PICK r : r = [request[p] EXCEPT !.pc = "insert", !.rows = rows]
    OBVIOUS
  <2>1. request[p] \in Request /\ Known(request[p]) /\ rows \in SUBSET Links
    BY <2>0 DEF IInv, TypeOK, Outstanding, Locks
  <2>2. /\ r \in Request /\ r.pc = "insert" /\ r.rows = rows /\ r.picked = request[p].picked
        /\ rows = r.picked \cap Outstanding(request[p].user)
    BY <2>0, <2>1 DEF Request, Locks
  <2>3. Known(r)
    BY <2>0, <2>1, <2>2 DEF Known, Outstanding
  <2>4. \A k \in r.rows : token[k].stage \in {"live", "expired"} /\ ~LockedByOther(p, k)
    BY <2>0, <2>2 DEF Locks, Outstanding
  <2>5. request' = [request EXCEPT ![p] = r]
    BY <2>0 DEF IInv, TypeOK
  <2>6. QED
    BY <2>0, <2>2, <2>3, <2>4, <2>5, RequestStep
<1>4. ASSUME NEW a \in Profiles, CompleteOAuth(p, a) PROVE IInv'
  <2>1. identity[a] \in OptUser
    BY DEF IInv, TypeOK
  <2>2. CASE identity[a] # NoUser
    BY <1>4, <2>1, <2>2, GotoStep DEF CompleteOAuth
  <2>3. CASE identity[a] = NoUser
    BY <1>4, <2>3, GotoStep DEF CompleteOAuth, OptUser
  <2>4. QED
    BY <2>2, <2>3
<1>5. CASE FindByMail(p)
  <2> PICK a : a = request[p].profile
    OBVIOUS
  <2>1. a \in Profiles
    BY <1>5 DEF IInv, Known, FindByMail
  <2>2. CASE Goto(p, "create", NoUser, a)
    BY <1>5, <2>1, <2>2, GotoStep DEF FindByMail, OptUser
  <2>3. CASE Finish(p)
    BY <1>5, <2>3, RequestDoneStep DEF FindByMail
  <2>4. ASSUME NEW u \in Users, Here(u), users[u].email = MailOf[a], MayLink(a),
               Goto(p, "link", u, a)
        PROVE  IInv'
    BY <1>5, <2>1, <2>4, GotoStep DEF FindByMail, OptUser, Entitled, MayLink
  <2>5. QED
    BY <1>5, <2>2, <2>3, <2>4 DEF FindByMail
<1>6. CASE OpenSession(p)
  BY <1>6, RequestDoneStep DEF OpenSession
<1>7. ASSUME NEW a \in Profiles, UnlinkCheck(p, a) PROVE IInv'
  BY <1>7, GotoStep DEF UnlinkCheck, IInv, TypeOK
<1>8. CASE Cancel(p)
  BY <1>8, RequestDoneStep DEF Cancel
<1>9. QED
  BY <1>1, <1>2, <1>3, <1>4, <1>5, <1>6, <1>7, <1>8

-----------------------------------------------------------------------------
(***************************************************************************)
(* Steps that write users or user_identities.                              *)
(***************************************************************************)
(* A row inserted where there was none.                                    *)
LEMMA BirthStep ==
    ASSUME IInv, NEW p \in Requests, NEW u \in Users, NEW row \in Account,
           NEW a \in Profiles \cup {NoProfile},
           NEW pc \in {"begin", "mark", "mail", "create", "link", "code", "open", "unlink"},
           users[u].status = "unborn",
           row.status = "here",
           users' = [users EXCEPT ![u] = row],
           Goto(p, pc, u, a),
           pc \in {"mail", "create"} => a \in Profiles,
           pc = "link" => row.by = a,
           UNCHANGED <<identity, token, honours, ended>>
    PROVE  IInv'
<1>1. users' \in [Users -> Account] /\ users'[u] = row
      /\ \A v \in Users \ {u} : users'[v] = users[v]
  BY DEF IInv, TypeOK
<1>2. Settled /\ KeepsLocks(p)
  BY <1>1, TokensStay DEF Settled, KeepsLocks, IInv, Locking
<1> PICK r : r = At(pc, u, a)
  OBVIOUS
<1>3. r \in Request /\ Known(r)' /\ r.pc # "insert"
  BY <1>1, AtIsRequest, AtFields DEF Known, Entitled, OptUser
<1>4. request' \in [Requests -> Request] /\ (\A q \in Requests : Known(request[q])') /\ Locking'
  BY <1>2, <1>3, RequestsKnown DEF Goto, At
<1>5. \A v \in Users : Here(v) => v # u /\ Here(v)' /\ users'[v] = users[v]
  BY <1>1 DEF Here
<1>6. TypeOK'
  BY <1>1, <1>4, <1>5 DEF IInv, TypeOK, Here
<1>7. LinkPolicy'
  BY <1>5 DEF IInv, TypeOK, Here, LinkPolicy
<1>8. ResendEndsOlderLinks'
  BY DEF IInv, ResendEndsOlderLinks
<1>9. QED
  BY <1>4, <1>6, <1>7, <1>8 DEF IInv

LEMMA RegisterStep ==
    ASSUME IInv, NEW p \in Requests, NEW u \in Users, NEW e \in Emails, Register(p, u, e)
    PROVE  IInv'
<1> PICK row : row = [Unborn EXCEPT !.status = "here", !.email = e, !.password = TRUE]
  OBVIOUS
<1>1. row \in Account /\ row.status = "here"
  BY DEF Unborn, Account, Addresses
<1>2. QED
  BY <1>1, BirthStep DEF Register

LEMMA CreateFromProviderStep ==
    ASSUME IInv, NEW p \in Requests, NEW u \in Users, CreateFromProvider(p, u)
    PROVE  IInv'
<1> PICK a : a = request[p].profile
  OBVIOUS
<1> PICK e : e = IF MailOf[a] = NoMail THEN a ELSE MailOf[a]
  OBVIOUS
<1> PICK row : row = [Unborn EXCEPT !.status = "here", !.email = e, !.verified = Vouches[a], !.by = a]
  OBVIOUS
<1>1. a \in Profiles
  BY DEF IInv, Known, CreateFromProvider
<1>2. e \in Addresses
  BY <1>1, AccountsAssumption DEF Addresses
<1>3. row \in Account /\ row.status = "here" /\ row.by = a
  BY <1>1, <1>2, AccountsAssumption DEF Unborn, Account
<1>4. CASE HeldEmail(e)
  BY <1>4, RequestDoneStep DEF CreateFromProvider
<1>5. CASE ~HeldEmail(e)
  <2>1. /\ users[u].status = "unborn"
        /\ users' = [users EXCEPT ![u] = row] /\ Goto(p, "link", u, a)
        /\ UNCHANGED <<identity, token, honours, ended>>
    BY <1>5 DEF CreateFromProvider
  <2>2. QED
    BY <1>1, <1>3, <2>1, BirthStep
<1>6. QED
  BY <1>4, <1>5

LEMMA MarkEmailVerifiedStep ==
    ASSUME IInv, NEW p \in Requests, MarkEmailVerified(p)
    PROVE  IInv'
<1> PICK u : u = request[p].user
  OBVIOUS
<1>1. Finish(p) /\ UNCHANGED <<identity, token, honours, ended>>
      /\ users' = IF Here(u) THEN [users EXCEPT ![u].verified = TRUE] ELSE users
  BY DEF MarkEmailVerified
<1>2. /\ users' \in [Users -> Account]
      /\ \A v \in Users : /\ users'[v].status = users[v].status
                          /\ users'[v].by = users[v].by
                          /\ users'[v].email = users[v].email
  <2>1. CASE Here(u)
    <3> PICK row : row = [users[u] EXCEPT !.verified = TRUE]
      OBVIOUS
    <3>1. users \in [Users -> Account] /\ u \in Users /\ users[u] \in Account
      BY <2>1 DEF IInv, TypeOK, Here
    <3>2. /\ row \in Account /\ row.status = users[u].status
          /\ row.by = users[u].by /\ row.email = users[u].email
      BY <3>1 DEF Account
    <3>3. users' = [users EXCEPT ![u] = row]
      BY <1>1, <2>1
    <3>4. QED
      BY <3>1, <3>2, <3>3
  <2>2. CASE ~Here(u)
    BY <1>1, <2>2 DEF IInv, TypeOK
  <2>3. QED
    BY <2>1, <2>2
<1>3. Settled /\ KeepsLocks(p)
  BY <1>1, <1>2, TokensStay DEF Settled, KeepsLocks, IInv, Locking
<1>4. Known(NoRequest)'
  BY DEF Known, NoRequest
<1>5. request' \in [Requests -> Request] /\ (\A q \in Requests : Known(request[q])') /\ Locking'
  BY <1>1, <1>3, <1>4, NoRequestFits, RequestsKnown DEF Finish
<1>6. \A v : Here(v) <=> Here(v)'
  BY <1>2 DEF Here
<1>7. TypeOK'
  BY <1>1, <1>2, <1>5, <1>6 DEF IInv, TypeOK
<1>8. LinkPolicy' /\ ResendEndsOlderLinks'
  BY <1>1, <1>2 DEF IInv, TypeOK, Here, LinkPolicy, ResendEndsOlderLinks
<1>9. QED
  BY <1>5, <1>7, <1>8 DEF IInv

LEMMA LinkIdentityStep ==
    ASSUME IInv, NEW p \in Requests, LinkIdentity(p)
    PROVE  IInv'
<1> PICK a : a = request[p].profile
  OBVIOUS
<1> PICK u : u = request[p].user
  OBVIOUS
<1>1. CASE ~Linkable(a, u)
  BY <1>1, RequestDoneStep DEF LinkIdentity
<1>2. CASE Linkable(a, u)
  <2>1. /\ identity' = [identity EXCEPT ![a] = u] /\ Goto(p, "code", u, a)
        /\ UNCHANGED <<users, token, honours, ended>>
    BY <1>2 DEF LinkIdentity
  <2>2. u \in Users /\ Here(u) /\ Entitled(a, u) /\ a \in Profiles \cup {NoProfile}
    BY <1>2 DEF Linkable, Here, LinkIdentity, IInv, TypeOK, Request, Known
  <2>3. Settled /\ KeepsLocks(p)
    BY <2>1, TokensStay DEF Settled, KeepsLocks, IInv, Locking
  <2> PICK r : r = At("code", u, a)
    OBVIOUS
  <2>4. r \in Request /\ Known(r)' /\ r.pc # "insert"
    BY <2>2, AtIsRequest, AtFields DEF Known, OptUser
  <2>5. request' \in [Requests -> Request] /\ (\A q \in Requests : Known(request[q])') /\ Locking'
    BY <2>1, <2>3, <2>4, RequestsKnown DEF Goto, At
  <2>6. /\ identity' \in [Profiles -> OptUser]
        /\ \A b \in Profiles : identity'[b] = identity[b] \/ (b = a /\ identity'[b] = u)
    BY <2>1, <2>2 DEF IInv, TypeOK, OptUser
  <2>7. TypeOK'
    BY <2>1, <2>2, <2>5, <2>6 DEF IInv, TypeOK, Here
  <2>8. LinkPolicy' /\ ResendEndsOlderLinks'
    BY <2>1, <2>2, <2>6 DEF IInv, LinkPolicy, Entitled, ResendEndsOlderLinks
  <2>9. QED
    BY <2>5, <2>7, <2>8 DEF IInv
<1>3. QED
  BY <1>1, <1>2

LEMMA UnlinkStep ==
    ASSUME IInv, NEW p \in Requests, Unlink(p)
    PROVE  IInv'
<1>1. Finish(p) /\ UNCHANGED <<users, token, honours, ended>>
  BY DEF Unlink
<1>2. /\ identity' \in [Profiles -> OptUser]
      /\ \A b \in Profiles : identity'[b] = identity[b] \/ identity'[b] = NoUser
  BY DEF Unlink, IInv, TypeOK, OptUser
<1>3. Settled /\ KeepsLocks(p) /\ Known(NoRequest)'
  BY <1>1, TokensStay DEF Settled, KeepsLocks, IInv, Locking, Known, NoRequest
<1>4. request' \in [Requests -> Request] /\ (\A q \in Requests : Known(request[q])') /\ Locking'
  BY <1>1, <1>3, NoRequestFits, RequestsKnown DEF Finish
<1>5. TypeOK' /\ LinkPolicy' /\ ResendEndsOlderLinks'
  BY <1>1, <1>2, <1>4 DEF IInv, TypeOK, Here, LinkPolicy, ResendEndsOlderLinks
<1>6. QED
  BY <1>4, <1>5 DEF IInv

-----------------------------------------------------------------------------
(***************************************************************************)
(* Steps that write the tokens.                                            *)
(***************************************************************************)
(* What tokens may become: an outstanding one stays its owner's or is      *)
(* over, what is over stays so, and what is there belongs to an account    *)
(* that is.                                                                *)
TokensMoveOn ==
    /\ token' \in [Tokens -> TokenRow]
    /\ \A k \in Tokens :
          /\ token[k].stage # "undrawn" => MovesOn(k)
          /\ token'[k].stage \in {"live", "expired", "spent"} => Here(token'[k].owner)

LEMMA TokenStep ==
    ASSUME IInv, TokensMoveOn,
           request' \in [Requests -> Request], \A q \in Requests : Known(request[q])', Locking',
           UNCHANGED <<users, identity, ended>>,
           honours' \in [Tokens -> Nat]
    PROVE  IInv'
<1>1. TypeOK'
  BY DEF IInv, TypeOK, TokensMoveOn, Here
<1>2. LinkPolicy'
  BY DEF IInv, LinkPolicy
<1>3. ResendEndsOlderLinks'
  BY DEF IInv, TypeOK, ResendEndsOlderLinks, TokensMoveOn, MovesOn, Tokens
<1>4. QED
  BY <1>1, <1>2, <1>3 DEF IInv

(* Time and the janitor move no request.                                   *)
LEMMA RestKnown ==
    ASSUME IInv, Settled, UNCHANGED request,
           \A q \in Requests : \A k \in LockedLinks(q) : token'[k].stage \in {"live", "expired"}
    PROVE  request' \in [Requests -> Request] /\ (\A q \in Requests : Known(request[q])') /\ Locking'
<1>1. ASSUME NEW q \in Requests PROVE Known(request[q])'
  <2> PICK s : s = request[q]
    OBVIOUS
  <2>1. s \in Request /\ Known(s)
    BY DEF IInv, TypeOK
  <2>2. Known(s)' /\ s = request'[q]
    BY <2>1, KnownLasts
  <2>3. QED
    BY <2>2 DEF Known, Here, Entitled
<1>2. QED
  BY <1>1 DEF IInv, TypeOK, Locking, LockedLinks

LEMMA RedeemStep ==
    ASSUME IInv, NEW p \in Requests, NEW k \in Tokens, NEW pc \in {"mark", "open"}, Redeem(p, k, pc)
    PROVE  IInv'
<1>1. CASE ~Redeems(k)
  <2>1. UNCHANGED vars
    BY <1>1 DEF Redeem, vars
  <2>2. Settled /\ \A q \in Requests : \A l \in LockedLinks(q) : token'[l].stage \in {"live", "expired"}
    BY <2>1, TokensStay DEF Settled, vars, IInv, Locking
  <2>3. request' \in [Requests -> Request] /\ (\A q \in Requests : Known(request[q])') /\ Locking'
    BY <2>1, <2>2, RestKnown DEF vars
  <2>4. QED
    BY <2>1, <2>3 DEF vars, IInv, TypeOK, Here, LinkPolicy, ResendEndsOlderLinks
<1>2. CASE Redeems(k)
  <2> PICK u : u = token[k].owner
    OBVIOUS
  <2>1. /\ token' = [token EXCEPT ![k].stage = "spent"]
        /\ honours' = [honours EXCEPT ![k] = @ + 1]
        /\ Goto(p, pc, u, NoProfile)
        /\ UNCHANGED <<users, identity, ended>>
        /\ token[k].stage = "live"
    BY <1>2 DEF Redeem, Redeems
  <2>2. token \in [Tokens -> TokenRow] /\ u \in OptUser /\ Here(u)
    BY <2>1 DEF IInv, TypeOK, Here, OptUser
  <2>3. TokensMoveOn
    BY <2>1, <2>2 DEF IInv, TypeOK, TokensMoveOn, MovesOn, TokenRow, Here
  <2>4. Settled /\ KeepsLocks(p)
    <3>1. \A l \in Tokens \ {k} : token'[l] = token[l]
      BY <2>1, <2>2
    <3>2. \A q \in Requests \ {p} : \A l \in LockedLinks(q) : l \in Tokens /\ l # k
      BY <1>2 DEF Redeem, LockedByOther, LockedLinks, IInv, TypeOK, Request, Tokens
    <3>3. QED
      BY <2>1, <2>3, <3>1, <3>2 DEF Settled, TokensMoveOn, KeepsLocks, IInv, Locking
  <2> PICK r : r = At(pc, u, NoProfile)
    OBVIOUS
  <2>5. r \in Request /\ Known(r)' /\ r.pc # "insert"
    BY <2>2, AtIsRequest, AtFields DEF Known
  <2>6. request' \in [Requests -> Request] /\ (\A q \in Requests : Known(request[q])') /\ Locking'
    BY <2>1, <2>4, <2>5, RequestsKnown DEF Goto, At
  <2>7. honours' \in [Tokens -> Nat]
    BY <2>1 DEF IInv, TypeOK
  <2>8. QED
    BY <2>1, <2>3, <2>6, <2>7, TokenStep
<1>3. QED
  BY <1>1, <1>2

LEMMA ExpireStep ==
    ASSUME IInv, (\E k \in Tokens : Expire(k)) \/ DeleteExpired
    PROVE  IInv'
<1>1. /\ TokensMoveOn
      /\ UNCHANGED <<users, identity, request, honours, ended>>
  <2>1. ASSUME NEW k \in Tokens, Expire(k)
        PROVE  TokensMoveOn /\ UNCHANGED <<users, identity, request, honours, ended>>
    BY <2>1 DEF Expire, IInv, TypeOK, TokensMoveOn, MovesOn, TokenRow, Here
  <2>2. CASE DeleteExpired
    <3>1. PICK C \in SUBSET Codes :
             /\ \A k \in C : token[k].stage \in {"expired", "spent"}
             /\ token' = [k \in Tokens |-> IF k \in C THEN [stage |-> "gone", owner |-> NoUser]
                                           ELSE token[k]]
             /\ UNCHANGED <<users, identity, request, honours, ended>>
      BY <2>2 DEF DeleteExpired
    <3>2. [stage |-> "gone", owner |-> NoUser] \in TokenRow
      BY DEF TokenRow, OptUser
    <3>3. QED
      BY <3>1, <3>2 DEF IInv, TypeOK, TokensMoveOn, MovesOn, TokenRow, Here
  <2>3. QED
    BY <2>1, <2>2
<1>2. Settled /\ \A q \in Requests : \A l \in LockedLinks(q) : token'[l].stage \in {"live", "expired"}
  <2>1. \A l \in Links : token[l].stage \in {"live", "expired"} => token'[l].stage \in {"live", "expired"}
    BY AccountsAssumption DEF Expire, DeleteExpired, IInv, TypeOK, TokenRow, Tokens
  <2>2. \A q \in Requests : LockedLinks(q) \subseteq Links
    BY DEF LockedLinks, IInv, TypeOK, Request
  <2>3. QED
    BY <1>1, <2>1, <2>2 DEF Settled, TokensMoveOn, IInv, Locking
<1>3. QED
  BY <1>1, <1>2, RestKnown, TokenStep DEF IInv, TypeOK

LEMMA DrawnIsRow == \A u \in Users : Drawn(u) \in TokenRow
  BY DEF Drawn, TokenRow, OptUser

LEMMA IssueCodeStep ==
    ASSUME IInv, NEW p \in Requests, NEW k \in Codes, IssueCode(p, k)
    PROVE  IInv'
<1> PICK u : u = request[p].user
  OBVIOUS
<1>1. CASE ~Here(u)
  BY <1>1, RequestDoneStep DEF IssueCode
<1>2. CASE Here(u)
  <2>1. /\ token' = [token EXCEPT ![k] = Drawn(u)] /\ Finish(p)
        /\ UNCHANGED <<users, identity, honours, ended>>
        /\ token[k].stage = "undrawn" /\ u \in Users /\ k \in Tokens
    BY <1>2 DEF IssueCode, Fresh, Here, Tokens
  <2>2. TokensMoveOn
    BY <1>2, <2>1, DrawnIsRow DEF IInv, TypeOK, TokensMoveOn, MovesOn, TokenRow, Here, Drawn
  <2>3. Settled /\ KeepsLocks(p) /\ Known(NoRequest)'
    <3>1. \A l \in Tokens \ {k} : token'[l] = token[l]
      BY <2>1 DEF IInv, TypeOK
    <3>2. \A q \in Requests : \A l \in LockedLinks(q) : l \in Tokens /\ l # k
      BY <2>1 DEF LockedLinks, IInv, TypeOK, Request, Tokens, Locking
    <3>3. QED
      BY <2>1, <2>2, <3>1, <3>2 DEF Settled, TokensMoveOn, KeepsLocks, IInv, Locking, Known, NoRequest
  <2>4. request' \in [Requests -> Request] /\ (\A q \in Requests : Known(request[q])') /\ Locking'
    BY <2>1, <2>3, NoRequestFits, RequestsKnown DEF Finish
  <2>5. QED
    BY <2>1, <2>2, <2>4, TokenStep DEF IInv, TypeOK
<1>3. QED
  BY <1>1, <1>2

LEMMA IssueInsertStep ==
    ASSUME IInv, NEW p \in Requests, NEW k \in Links, IssueInsert(p, k)
    PROVE  IInv'
<1> PICK u : u = request[p].user
  OBVIOUS
<1> PICK R : R = request[p].rows
  OBVIOUS
<1> PICK P : P = request[p].picked
  OBVIOUS
<1>1. CASE ~Here(u)
  BY <1>1, RequestDoneStep DEF IssueInsert
<1>2. CASE Here(u)
  <2>1. /\ token' = [[l \in Tokens |-> Consumed(R, l)] EXCEPT ![k] = Drawn(u)]
        /\ ended' = ended \cup P /\ Finish(p)
        /\ UNCHANGED <<users, identity, honours>>
        /\ token[k].stage = "undrawn" /\ u \in Users /\ k \in Tokens
    BY <1>2 DEF IssueInsert, Fresh, Here, Tokens
  <2>2. R \subseteq Links /\ k \notin R
        /\ \A l \in R : l \in Tokens /\ token[l].stage # "undrawn"
    BY <2>1 DEF IInv, TypeOK, Request, Known, Tokens
  <2>3. \A l \in R : token[l].stage \in {"live", "expired"} /\ Here(token[l].owner)
    BY <2>2 DEF IInv, TypeOK, Locking, LockedLinks, IssueInsert
  <2>4. /\ token' \in [Tokens -> TokenRow]
        /\ token'[k] = Drawn(u)
        /\ \A l \in R : token'[l].stage = "spent" /\ token'[l].owner = token[l].owner
        /\ \A l \in Tokens \ (R \cup {k}) : token'[l] = token[l]
    BY <2>1, <2>2, DrawnIsRow DEF IInv, TypeOK, Consumed, TokenRow
  <2>5. \A l \in Tokens :
           /\ token[l].stage # "undrawn" => MovesOn(l)
           /\ token[l].stage \in {"spent", "gone"} => token'[l].stage \in {"spent", "gone"}
    BY <2>1, <2>2, <2>4 DEF Drawn, IInv, TypeOK, TokenRow, MovesOn
  <2>6. Settled /\ KeepsLocks(p) /\ Known(NoRequest)'
    <3>1. \A q \in Requests \ {p} : \A l \in LockedLinks(q) :
             l \in Tokens \ (R \cup {k}) /\ token[l].stage \in {"live", "expired"}
      BY <2>1 DEF IInv, TypeOK, Request, Locking, LockedLinks, IssueInsert, Tokens
    <3>2. QED
      BY <2>1, <2>4, <2>5, <3>1 DEF Settled, KeepsLocks, Known, NoRequest
  <2>7. request' \in [Requests -> Request] /\ (\A q \in Requests : Known(request[q])') /\ Locking'
    BY <2>1, <2>6, NoRequestFits, RequestsKnown DEF Finish
  <2>8. TypeOK'
    <3>1. ended' \subseteq Links
      BY <2>1 DEF IInv, TypeOK, Request
    <3>2. QED
      BY <1>2, <2>1, <2>2, <2>3, <2>4, <2>7, <3>1 DEF IInv, TypeOK, Here, Drawn
  <2>9. LinkPolicy'
    BY <2>1 DEF IInv, LinkPolicy
  <2>10. ResendEndsOlderLinks'
    <3>1. \A l \in P : l \in Tokens /\ (l \in R \/ token[l].stage \in {"spent", "gone"})
      BY DEF IInv, TypeOK, Request, Known, IsOver, IssueInsert, Tokens
    <3>2. \A l \in P : token'[l].stage \in {"spent", "gone"}
      BY <2>4, <2>5, <3>1
    <3>3. \A l \in ended : token'[l].stage \in {"spent", "gone"}
      BY <2>5 DEF IInv, TypeOK, ResendEndsOlderLinks, Tokens
    <3>4. QED
      BY <2>1, <3>2, <3>3 DEF ResendEndsOlderLinks
  <2>11. QED
    BY <2>7, <2>8, <2>9, <2>10 DEF IInv
<1>3. QED
  BY <1>1, <1>2

LEMMA DeleteUserStep ==
    ASSUME IInv, NEW u \in Users, DeleteUser(u)
    PROVE  IInv'
<1>1. /\ Here(u) /\ users' = [users EXCEPT ![u] = [Unborn EXCEPT !.status = "gone"]]
      /\ identity' = [a \in Profiles |-> IF identity[a] = u THEN NoUser ELSE identity[a]]
      /\ token' = [k \in Tokens |-> IF token[k].owner = u
                                    THEN [stage |-> "gone", owner |-> NoUser] ELSE token[k]]
      /\ UNCHANGED <<request, honours, ended>>
  BY DEF DeleteUser, CascadedTokens
<1>2. [Unborn EXCEPT !.status = "gone"] \in Account /\ [Unborn EXCEPT !.status = "gone"].status = "gone"
  BY DEF Unborn, Account, Addresses
<1>3. /\ users' \in [Users -> Account] /\ users'[u].status = "gone"
      /\ \A v \in Users \ {u} : users'[v] = users[v] /\ (Here(v) <=> Here(v)')
  BY <1>1, <1>2 DEF IInv, TypeOK, Here
<1>4. [stage |-> "gone", owner |-> NoUser] \in TokenRow
  BY DEF TokenRow, OptUser
<1>5. /\ token' \in [Tokens -> TokenRow]
      /\ \A k \in Tokens : IF token[k].owner = u THEN token'[k].stage = "gone"
                           ELSE token'[k] = token[k]
  BY <1>1, <1>4 DEF IInv, TypeOK
<1>6. Settled
  BY <1>3, <1>5 DEF Settled, MovesOn, IInv, TypeOK, TokenRow
<1>7. \A q \in Requests : \A k \in LockedLinks(q) : token'[k].stage \in {"live", "expired"}
  <2>1. \A q \in Requests : \A k \in LockedLinks(q) : k \in Tokens /\ token[k].owner # u
    BY DEF DeleteUser, LockedLinks, IInv, TypeOK, Request, Tokens
  <2>2. QED
    BY <1>5, <2>1 DEF IInv, Locking
<1>8. request' \in [Requests -> Request] /\ (\A q \in Requests : Known(request[q])') /\ Locking'
  BY <1>1, <1>6, <1>7, RestKnown
<1>9. TypeOK'
  <2>1. identity' \in [Profiles -> OptUser]
        /\ \A a \in Profiles : identity'[a] # NoUser => identity'[a] # u /\ Here(identity'[a])
    BY <1>1 DEF IInv, TypeOK, OptUser
  <2>2. \A a \in Profiles : identity'[a] # NoUser => Here(identity[a])'
    BY <1>3, <2>1 DEF Here
  <2>3. \A k \in Tokens : token'[k].stage \in {"live", "expired", "spent"} => Here(token[k].owner)'
    BY <1>3, <1>5 DEF IInv, TypeOK, Here
  <2>4. QED
    BY <1>1, <1>3, <1>5, <1>8, <2>1, <2>2, <2>3 DEF IInv, TypeOK
<1>10. LinkPolicy'
  BY <1>1, <1>3 DEF IInv, TypeOK, Here, LinkPolicy
<1>11. ResendEndsOlderLinks'
  BY <1>1, <1>5 DEF IInv, TypeOK, ResendEndsOlderLinks, Tokens
<1>12. QED
  BY <1>8, <1>9, <1>10, <1>11 DEF IInv

-----------------------------------------------------------------------------
LEMMA InitIInv == Init => IInv
<1> SUFFICES ASSUME Init PROVE IInv
  OBVIOUS
<1>1. TypeOK
  BY NoRequestFits DEF Init, TypeOK, Unborn, Account, Addresses, OptUser, TokenRow
<1>2. \A p \in Requests : request[p] = NoRequest
  BY DEF Init
<1>3. Locking
  BY <1>2, NoRequestFits DEF Locking, LockedLinks
<1>4. QED
  BY <1>1, <1>2, <1>3, NoRequestFits DEF Init, IInv, LinkPolicy, ResendEndsOlderLinks

LEMMA NextIInv == IInv /\ [Next]_vars => IInv'
<1> SUFFICES ASSUME IInv, [Next]_vars PROVE IInv'
  OBVIOUS
<1>1. ASSUME NEW p \in Requests,
             \/ \E u \in Users : ResendVerification(p, u)
             \/ IssueBegin(p) \/ IssueConsume(p)
             \/ \E a \in Profiles : CompleteOAuth(p, a)
             \/ FindByMail(p)
             \/ OpenSession(p)
             \/ \E a \in Profiles : UnlinkCheck(p, a)
             \/ Cancel(p)
      PROVE  IInv'
  BY <1>1, QuietSteps
<1>2. ASSUME NEW p \in Requests,
             \/ \E u \in Users, e \in Emails : Register(p, u, e)
             \/ \E u \in Users : CreateFromProvider(p, u)
             \/ MarkEmailVerified(p) \/ LinkIdentity(p) \/ Unlink(p)
      PROVE  IInv'
  BY <1>2, RegisterStep, CreateFromProviderStep, MarkEmailVerifiedStep, LinkIdentityStep, UnlinkStep
<1>3. ASSUME NEW p \in Requests,
             \/ \E k \in Links : IssueInsert(p, k) \/ VerifyEmail(p, k)
             \/ \E k \in Codes : IssueCode(p, k) \/ ExchangeCode(p, k)
      PROVE  IInv'
  BY <1>3, IssueInsertStep, IssueCodeStep, RedeemStep DEF VerifyEmail, ExchangeCode, Tokens
<1>4. ASSUME NEW u \in Users, DeleteUser(u) PROVE IInv'
  BY <1>4, DeleteUserStep
<1>5. CASE (\E k \in Tokens : Expire(k)) \/ DeleteExpired
  BY <1>5, ExpireStep
<1>6. CASE UNCHANGED vars
  BY <1>6 DEF vars, IInv, TypeOK, Here, LinkPolicy, ResendEndsOlderLinks, Known, Entitled,
              Locking, LockedLinks, IsOver, Outstanding
<1>7. QED
  BY <1>1, <1>2, <1>3, <1>4, <1>5, <1>6 DEF Next

LEMMA AlwaysIInv == Spec => []IInv
  BY InitIInv, NextIInv, PTL DEF Spec

(* The rows keep their shape, and identities, codes and links belong to an *)
(* account that exists (the foreign keys and their cascades).              *)
THEOREM AccountsTypeCorrect == Spec => []TypeOK
<1>1. IInv => TypeOK
  BY DEF IInv
<1>2. QED
  BY <1>1, AlwaysIInv, PTL

(* resolveAccount links a profile only to the account created from it, or  *)
(* on an address the provider vouches for, for any number of requests      *)
(* between whose statements accounts come and go.                          *)
THEOREM LinkingFollowsPolicy == Spec => []LinkPolicy
<1>1. IInv => LinkPolicy
  BY DEF IInv
<1>2. QED
  BY <1>1, AlwaysIInv, PTL

(* Every link that was outstanding when a finished Issue began is over:    *)
(* what its UPDATE found it has marked, once it had waited for the locks   *)
(* of others, and what it found no more was redeemed, superseded or        *)
(* deleted meanwhile, which nothing undoes (Issue: "a resend invalidates   *)
(* the previous link").                                                    *)
THEOREM ResendSupersedes == Spec => []ResendEndsOlderLinks
<1>1. IInv => ResendEndsOlderLinks
  BY DEF IInv
<1>2. QED
  BY <1>1, AlwaysIInv, PTL

-----------------------------------------------------------------------------
(***************************************************************************)
(* Refinement: tokens are one-time tokens.                                 *)
(***************************************************************************)
Bearer == [k \in Tokens |-> IF token[k].stage = "live" THEN token[k].owner ELSE NoUser]
Over == {k \in Tokens : token[k].stage \in {"expired", "spent", "gone"}}

LEMMA OneTimeInit == Init => OneTime!OInit
<1> SUFFICES ASSUME Init PROVE OneTime!OInit
  OBVIOUS
<1>1. \A k \in Tokens : token[k].stage = "undrawn"
  BY DEF Init
<1>2. Bearer = [k \in Tokens |-> NoUser]
  BY <1>1 DEF Bearer
<1>3. Over = {}
  BY <1>1 DEF Over
<1>4. honours = [k \in Tokens |-> 0]
  BY DEF Init
<1>5. QED
  BY <1>2, <1>3, <1>4 DEF OneTime!OInit, Bearer, Over

LEMMA OneTimeStep ==
    ASSUME IInv, [Next]_vars
    PROVE  [OneTime!ONext]_(OneTime!ovars)
<1>1. token \in [Tokens -> TokenRow]
  BY DEF IInv, TypeOK
<1>2. CASE UNCHANGED <<token, honours>>
  BY <1>2 DEF OneTime!ovars
<1>3. ASSUME NEW p \in Requests, NEW k \in Tokens, NEW pc, Redeem(p, k, pc)
      PROVE  [OneTime!ONext]_(OneTime!ovars)
  <2>1. CASE Redeems(k)
    <3>1. /\ token[k].stage = "live" /\ token[k].owner # NoUser
          /\ token' = [token EXCEPT ![k].stage = "spent"]
          /\ honours' = [honours EXCEPT ![k] = @ + 1]
      BY <1>3, <2>1, AccountsAssumption DEF Redeem, Redeems, IInv, TypeOK, Here
    <3>2. token'[k].stage = "spent" /\ \A l \in Tokens \ {k} : token'[l] = token[l]
      BY <1>1, <3>1 DEF TokenRow
    <3>3. Bearer[k] # NoUser /\ Bearer' = [Bearer EXCEPT ![k] = NoUser] /\ Over' = Over \cup {k}
      <4>1. Bearer[k] # NoUser
        BY <3>1 DEF Bearer
      <4>2. Bearer' = [l \in Tokens |-> IF l = k THEN NoUser ELSE Bearer[l]]
        BY <3>1, <3>2 DEF Bearer
      <4>3. [l \in Tokens |-> IF l = k THEN NoUser ELSE Bearer[l]] = [Bearer EXCEPT ![k] = NoUser]
        BY DEF Bearer
      <4>4. Over' = Over \cup {k}
        BY <3>1, <3>2 DEF Over
      <4>5. QED
        BY <4>1, <4>2, <4>3, <4>4
    <3>4. OneTime!Honour(k)
      BY <3>1, <3>3 DEF OneTime!Honour, Bearer, Over
    <3>5. QED
      BY <3>4 DEF OneTime!ONext
  <2>2. CASE ~Redeems(k)
    BY <1>2, <1>3, <2>2 DEF Redeem
  <2>3. QED
    BY <2>1, <2>2
<1>4. ASSUME NEW S \in SUBSET Tokens, UNCHANGED honours,
             \A k \in Tokens : IF k \in S THEN token'[k].stage \in {"expired", "spent", "gone"}
                              ELSE token'[k] = token[k]
      PROVE  [OneTime!ONext]_(OneTime!ovars)
  <2>1. Bearer' = [k \in Tokens |-> IF k \in S THEN NoUser ELSE Bearer[k]] /\ Over' = Over \cup S
    BY <1>4 DEF Bearer, Over
  <2>2. OneTime!Retire(S)
    BY <1>4, <2>1 DEF OneTime!Retire, OneTime!Retired, Bearer, Over
  <2>3. QED
    BY <2>2 DEF OneTime!ONext
<1>5. ASSUME NEW k \in Tokens, NEW u \in Users, NEW S \in SUBSET Tokens, UNCHANGED honours,
             k \notin S, Fresh(k), token'[k] = Drawn(u),
             \A l \in Tokens \ {k} : IF l \in S THEN token'[l].stage = "spent"
                                    ELSE token'[l] = token[l]
      PROVE  [OneTime!ONext]_(OneTime!ovars)
  <2>1. /\ Bearer[k] = NoUser /\ k \notin Over \cup S
        /\ Bearer' = [[l \in Tokens |-> IF l \in S THEN NoUser ELSE Bearer[l]] EXCEPT ![k] = u]
        /\ Over' = Over \cup S
    <3>1. Bearer[k] = NoUser /\ k \notin Over \cup S
      BY <1>5 DEF Bearer, Over, Fresh
    <3>2. token'[k].stage = "live" /\ token'[k].owner = u
      BY <1>5 DEF Drawn
    <3>3. Bearer' = [l \in Tokens |-> IF l = k THEN u ELSE IF l \in S THEN NoUser ELSE Bearer[l]]
      BY <1>5, <3>2 DEF Bearer
    <3>4. Over' = Over \cup S
      BY <1>5, <3>1, <3>2 DEF Over
    <3>5. QED
      BY <3>1, <3>3, <3>4
  <2>2. OneTime!Draw(k, u, S)
    BY <1>5, <2>1 DEF OneTime!Draw, OneTime!Retired, Bearer, Over
  <2>3. QED
    BY <2>2 DEF OneTime!ONext
<1>6. ASSUME NEW p \in Requests, NEW k \in Links, IssueInsert(p, k)
      PROVE  [OneTime!ONext]_(OneTime!ovars)
  <2> PICK R : R = request[p].rows \ {k}
    OBVIOUS
  <2> PICK u : u = request[p].user
    OBVIOUS
  <2>1. CASE Here(u)
    <3>1. R \in SUBSET Tokens /\ k \notin R /\ k \in Tokens /\ u \in Users
      BY <2>1 DEF IInv, TypeOK, Request, Tokens, Here
    <3>2. /\ token' = [[l \in Tokens |-> Consumed(request[p].rows, l)] EXCEPT ![k] = Drawn(u)]
          /\ Fresh(k) /\ UNCHANGED honours
      BY <1>6, <2>1 DEF IssueInsert
    <3>3. token'[k] = Drawn(u) /\ \A l \in Tokens \ {k} : IF l \in R THEN token'[l].stage = "spent"
                                                        ELSE token'[l] = token[l]
      BY <1>1, <3>1, <3>2 DEF Consumed, TokenRow
    <3>4. QED
      BY <1>5, <3>1, <3>2, <3>3
  <2>2. CASE ~Here(u)
    BY <1>2, <1>6, <2>2 DEF IssueInsert
  <2>3. QED
    BY <2>1, <2>2
<1>7. ASSUME NEW p \in Requests, NEW k \in Codes, IssueCode(p, k)
      PROVE  [OneTime!ONext]_(OneTime!ovars)
  <2> PICK u : u = request[p].user
    OBVIOUS
  <2>1. CASE Here(u)
    <3>1. /\ k \in Tokens /\ u \in Users /\ Fresh(k) /\ UNCHANGED honours
          /\ token' = [token EXCEPT ![k] = Drawn(u)]
      BY <1>7, <2>1 DEF IssueCode, Here, Tokens
    <3>2. token'[k] = Drawn(u) /\ \A l \in Tokens \ {k} : token'[l] = token[l]
      BY <1>1, <3>1
    <3> PICK S \in SUBSET Tokens : S = {}
      OBVIOUS
    <3>3. QED
      BY <1>5, <3>1, <3>2
  <2>2. CASE ~Here(u)
    BY <1>2, <1>7, <2>2 DEF IssueCode
  <2>3. QED
    BY <2>1, <2>2
<1>8. ASSUME NEW k \in Tokens, Expire(k) PROVE [OneTime!ONext]_(OneTime!ovars)
  <2>1. UNCHANGED honours /\ token'[k].stage = "expired" /\ \A l \in Tokens \ {k} : token'[l] = token[l]
    BY <1>1, <1>8 DEF Expire, TokenRow
  <2>2. QED
    BY <1>4, <2>1
<1>9. CASE DeleteExpired
  <2>1. PICK C \in SUBSET Codes :
           /\ token' = [k \in Tokens |-> IF k \in C THEN [stage |-> "gone", owner |-> NoUser]
                                         ELSE token[k]]
           /\ UNCHANGED honours
    BY <1>9 DEF DeleteExpired
  <2>2. C \in SUBSET Tokens
    BY DEF Tokens
  <2>3. QED
    BY <1>4, <2>1, <2>2
<1>10. ASSUME NEW u \in Users, DeleteUser(u) PROVE [OneTime!ONext]_(OneTime!ovars)
  <2> PICK S \in SUBSET Tokens : S = {k \in Tokens : token[k].owner = u}
    OBVIOUS
  <2>1. /\ UNCHANGED honours
        /\ token' = [k \in Tokens |-> IF k \in S THEN [stage |-> "gone", owner |-> NoUser]
                                      ELSE token[k]]
    BY <1>10 DEF DeleteUser, CascadedTokens
  <2>2. QED
    BY <1>4, <2>1
<1>11. ASSUME NEW p \in Requests, IssueBegin(p) \/ IssueConsume(p)
       PROVE  [OneTime!ONext]_(OneTime!ovars)
  <2>1. UNCHANGED <<token, honours>>
    BY <1>11 DEF IssueBegin, IssueConsume
  <2>2. QED
    BY <1>2, <2>1
<1>12. QED
  BY <1>2, <1>3, <1>6, <1>7, <1>8, <1>9, <1>10, <1>11
     DEF Next, vars, Register, ResendVerification, VerifyEmail, MarkEmailVerified,
         CompleteOAuth, FindByMail, CreateFromProvider, LinkIdentity, ExchangeCode, OpenSession, UnlinkCheck, Unlink, Cancel, Tokens

(* Sign-in codes and confirmation links implement OneTimeToken: whatever   *)
(* races, each is honoured at most once, for the account it was drawn for. *)
THEOREM TokensImplementOneTime == Spec => TokensAreOneTime
  BY OneTimeInit, OneTimeStep, AlwaysIInv, PTL DEF Spec, TokensAreOneTime, OneTime!OSpec

-----------------------------------------------------------------------------
(* The three together, as they are run.                                    *)

RecordsInv == TransferInv /\ ValuationInv /\ SpellInv

LEMMA RecordsInitially == ServicesInit => RecordsInv
  BY TransferInvInit, ValuationInvInit, SpellInvInit DEF ServicesInit, RecordsInv

LEMMA RecordsKept == RecordsInv /\ [ServicesNext]_<<allVars, accountVars>> => RecordsInv'
<1>. SUFFICES ASSUME RecordsInv, [ServicesNext]_<<allVars, accountVars>> PROVE RecordsInv'
  OBVIOUS
<1>1. [TransferNext]_transferVars /\ [ValuationNext]_valuationVars /\ [SpellNext]_spellVars
  <2>1. CASE part = "accounts" /\ ServicesNext
    BY <2>1 DEF ServicesNext, allVars
  <2>2. CASE part # "accounts" /\ ServicesNext
    BY <2>2 DEF ServicesNext, RecordsNext
  <2>3. CASE UNCHANGED <<allVars, accountVars>>
    BY <2>3 DEF allVars
  <2> QED
    BY <2>1, <2>2, <2>3
<1>. QED
  BY <1>1, TransferInvStep, ValuationInvStep, SpellInvStep DEF RecordsInv

\* In the run that explores them side by side, requests and rows of the three
\* tables have the shapes the services give them (transfer_repository.go,
\* market_value_repository.go and coach_spell_repository.go), whichever of them is at work.
THEOREM RecordsTypesCorrect == ServicesSpec => []RecordsTypeOK
<1>1. RecordsInv => RecordsTypeOK
  BY DEF RecordsInv, TransferInv, ValuationInv, SpellInv, RecordsTypeOK
<1>2. ServicesInit => RecordsInv
  BY RecordsInitially
<1>3. RecordsInv /\ [ServicesNext]_<<allVars, accountVars>> => RecordsInv'
  BY RecordsKept
<1>. QED
  BY <1>1, <1>2, <1>3, PTL DEF ServicesSpec
=============================================================================
