----------------------------- MODULE CoachSpells -----------------------------
(***************************************************************************)
(* The coach_spells table, from which coaches.team_id is derived.          *)
(*                                                                         *)
(* Recording a spell is one transaction of up to four statements: is there *)
(* a later spell; close the open ones; insert; move the coach.  Nothing    *)
(* locks the coach before the last of them, so two recordings can each     *)
(* miss the other's row.  A spell's role is left out, as are roles and     *)
(* grants (GrantCache) and the columns of a coach that are not derived.    *)
(***************************************************************************)
EXTENDS Registry

CONSTANTS
    Employers,          \* clubs
    Coaches, NoCoach,
    SpellIds            \* spells on record at once (a bound)

ASSUME CoachSpellsAssumption ==
    /\ NoTeam \notin Employers
    /\ NoCoach \notin Coaches

OptEmployer == Employers \cup {NoTeam}

VARIABLES
    employed,   \* coaches that exist
    jobOf,      \* coaches.team_id
    teamsHere,  \* clubs that exist
    spells,     \* spells[i]: a row of coach_spells, or NoSpell
    filing,     \* filing[p]: where the request p stands
    crossed     \* history: coaches whose last recording missed a commit

spellVars == <<employed, jobOf, teamsHere, spells, filing, crossed>>

\* end is NoDay while the spell is open.
Spell == [coach: Coaches \cup {NoCoach}, team: OptEmployer, start: Days \cup {NoDay},
          end: Days \cup {NoDay}]

NoSpell == [coach |-> NoCoach, team |-> NoTeam, start |-> NoDay, end |-> NoDay]

Filing == [pc: {"idle", "close", "lock", "insert", "commit"}, spell: Spell,
           later: BOOLEAN,
           closes: SUBSET SpellIds, \* open rows the UPDATE chose, then locked
           behind: BOOLEAN]         \* history: another recording committed since

NoFiling == [pc |-> "idle", spell |-> NoSpell, later |-> FALSE, closes |-> {}, behind |-> FALSE]

SpellTypeOK ==
    /\ employed \subseteq Coaches
    /\ jobOf \in [Coaches -> OptEmployer]
    /\ teamsHere \subseteq Employers
    /\ spells \in [SpellIds -> Spell]
    /\ filing \in [Procs -> Filing]
    /\ crossed \subseteq Coaches
    /\ \A i \in SpellIds : spells[i].end # NoDay => spells[i].start <= spells[i].end
    /\ \A p \in Procs : filing[p].pc # "idle" => filing[p].spell.coach \in Coaches

SpellInit ==
    /\ employed = {}
    /\ jobOf = [c \in Coaches |-> NoTeam]
    /\ teamsHere = Employers
    /\ spells = [i \in SpellIds |-> NoSpell]
    /\ filing = [p \in Procs |-> NoFiling]
    /\ crossed = {}

-----------------------------------------------------------------------------
Recorded(i) == spells[i].coach # NoCoach
Open(i) == Recorded(i) /\ spells[i].end = NoDay
OpenOf(c) == {i \in SpellIds : Open(i) /\ spells[i].coach = c}

HoldsSpell(p, i) == filing[p].pc \in {"insert", "commit"} /\ i \in filing[p].closes

\* Between the INSERT and the commit both referenced rows are share-locked.
Referencing(p) == filing[p].pc = "commit"

EndFiling(p) == filing' = [filing EXCEPT ![p] = NoFiling]

-----------------------------------------------------------------------------
\* The service's checks, and SELECT EXISTS of a later spell.  A backdated
\* spell must be closed.
RecordSpell(p, c, t, start, end) ==
    LET later == \E i \in SpellIds : spells[i].coach = c /\ spells[i].start > start
    IN /\ filing[p].pc = "idle"
       /\ c \in employed
       /\ end # NoDay => start <= end
       /\ later => end # NoDay
       /\ filing' = [filing EXCEPT ![p] =
            [NoFiling EXCEPT !.pc = IF later THEN "insert" ELSE "close", !.later = later,
                             !.spell = [coach |-> c, team |-> t, start |-> start, end |-> end]]]
       /\ UNCHANGED <<employed, jobOf, teamsHere, spells, crossed>>

\* WHERE coach_id = $2 AND end_date IS NULL AND start_date <= $1.  Mutant:
\* nothing is closed.
ClosableNone(p) == {}
Closable(p) == {i \in OpenOf(filing[p].spell.coach) : spells[i].start <= filing[p].spell.start}

CloseStart(p) ==
    /\ filing[p].pc = "close"
    /\ filing' = [filing EXCEPT ![p].pc = "lock", ![p].closes = Closable(p)]
    /\ UNCHANGED <<employed, jobOf, teamsHere, spells, crossed>>

\* The rows the UPDATE chose are free, and looked at again.
CloseLock(p) ==
    /\ filing[p].pc = "lock"
    /\ \A i \in filing[p].closes, q \in Procs : ~HoldsSpell(q, i)
    /\ filing' = [filing EXCEPT ![p].pc = "insert", ![p].closes = @ \cap Closable(p)]
    /\ UNCHANGED <<employed, jobOf, teamsHere, spells, crossed>>

InsertSpell(p) ==
    /\ filing[p].pc = "insert"
    /\ IF filing[p].spell.coach \in employed /\ filing[p].spell.team \in teamsHere \cup {NoTeam}
       THEN filing' = [filing EXCEPT ![p].pc = "commit"]
       ELSE EndFiling(p)
    /\ UNCHANGED <<employed, jobOf, teamsHere, spells, crossed>>

\* The last UPDATE, when the spell is open and the latest, and the commit: the
\* coach's row is locked only from one to the other.
CommitSpell(p, i) ==
    LET f == filing[p]
        c == f.spell.coach
    IN /\ f.pc = "commit"
       /\ ~Recorded(i)
       /\ \A q \in Procs : i \notin filing[q].closes     \* identifiers do not repeat
       /\ spells' = [j \in SpellIds |->
                       IF j = i THEN f.spell
                       ELSE IF j \in f.closes THEN [spells[j] EXCEPT !.end = f.spell.start]
                       ELSE spells[j]]
       /\ jobOf' = IF f.spell.end = NoDay /\ ~f.later THEN [jobOf EXCEPT ![c] = f.spell.team]
                   ELSE jobOf
       /\ crossed' = IF f.behind THEN crossed \cup {c}
                     ELSE IF ~f.later THEN crossed \ {c} ELSE crossed
       /\ filing' = [q \in Procs |->
                       IF q = p THEN NoFiling
                       ELSE IF filing[q].spell.coach = c THEN [filing[q] EXCEPT !.behind = TRUE]
                       ELSE filing[q]]
       /\ UNCHANGED <<employed, teamsHere>>

AbortFiling(p) ==
    /\ filing[p].pc # "idle"
    /\ EndFiling(p)
    /\ UNCHANGED <<employed, jobOf, teamsHere, spells, crossed>>

\* DeleteSpell leaves the coach's club alone.
DeleteSpell(i) ==
    /\ Recorded(i)
    /\ \A p \in Procs : ~HoldsSpell(p, i)
    /\ spells' = [spells EXCEPT ![i] = NoSpell]
    /\ UNCHANGED <<employed, jobOf, teamsHere, filing, crossed>>

\* A coach may be created at a club, and no spell is written for it.
CreateCoach(c, t) ==
    /\ c \notin employed
    /\ \A p \in Procs : filing[p].spell.coach # c
    /\ t \in teamsHere \cup {NoTeam}
    /\ employed' = employed \cup {c}
    /\ jobOf' = [jobOf EXCEPT ![c] = t]
    /\ UNCHANGED <<teamsHere, spells, filing, crossed>>

\* Spells go by cascade, behind the transactions that hold the rows.
DeleteCoach(c) ==
    /\ c \in employed
    /\ \A p \in Procs : /\ ~(Referencing(p) /\ filing[p].spell.coach = c)
                        /\ \A i \in SpellIds : spells[i].coach = c => ~HoldsSpell(p, i)
    /\ employed' = employed \ {c}
    /\ jobOf' = [jobOf EXCEPT ![c] = NoTeam]
    /\ spells' = [i \in SpellIds |-> IF spells[i].coach = c THEN NoSpell ELSE spells[i]]
    /\ crossed' = crossed \ {c}
    /\ UNCHANGED <<teamsHere, filing>>

\* ON DELETE SET NULL in both tables.
DeleteSpellTeam(t) ==
    /\ t \in teamsHere
    /\ \A p \in Procs :
          /\ ~(Referencing(p) /\ filing[p].spell.team = t)
          /\ \A i \in SpellIds : spells[i].team = t => ~HoldsSpell(p, i)
    /\ teamsHere' = teamsHere \ {t}
    /\ jobOf' = [c \in Coaches |-> IF jobOf[c] = t THEN NoTeam ELSE jobOf[c]]
    /\ spells' = [i \in SpellIds |->
                    IF spells[i].team = t THEN [spells[i] EXCEPT !.team = NoTeam] ELSE spells[i]]
    /\ UNCHANGED <<employed, filing, crossed>>

-----------------------------------------------------------------------------
SpellNext ==
    \/ \E p \in Procs :
          \/ \E c \in Coaches, t \in OptEmployer, s \in Days, e \in Days \cup {NoDay} :
                RecordSpell(p, c, t, s, e)
          \/ CloseStart(p) \/ CloseLock(p) \/ InsertSpell(p)
          \/ \E i \in SpellIds : CommitSpell(p, i)
          \/ AbortFiling(p)
    \/ \E i \in SpellIds : DeleteSpell(i)
    \/ \E c \in Coaches : DeleteCoach(c) \/ \E t \in OptEmployer : CreateCoach(c, t)
    \/ \E t \in Employers : DeleteSpellTeam(t)

SpellSpec == SpellInit /\ [][SpellNext]_spellVars

-----------------------------------------------------------------------------
\* "Only an open spell that is also the coach's most recent one describes the
\* current appointment": an open spell is the only one, no spell starts after
\* it, and coaches.team_id is its club.  Only recordings that overlapped can
\* break it, and the next one that ran alone with no later spell mends it.
OpenSpellIsCurrent ==
    \A c \in employed \ crossed : \A i \in OpenOf(c) :
       /\ OpenOf(c) = {i}
       /\ \A j \in SpellIds : spells[j].coach = c => spells[j].start <= spells[i].start
       /\ jobOf[c] = spells[i].team

\* coach_spell_repository.go: "A coach cannot hold two open spells at once".
OneOpenSpell == \A c \in Coaches : Cardinality(OpenOf(c)) <= 1

=============================================================================
