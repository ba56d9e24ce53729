---------------------------- MODULE PlayedForBoth ----------------------------
(***************************************************************************)
(* "Who played for both?": the dataset's one download, the pair that is    *)
(* drawn, the settings it is drawn under, the score and the timer.         *)
(*                                                                         *)
(* A pair is the set of its two teams: which of them stands on the left is *)
(* a coin toss.  A draw looks MAX_TRIES times for a pair that is not among *)
(* the recent ones and then takes a repeat, so every candidate may come.   *)
(* The timer counts in fractions of a round.  Names, colours, languages    *)
(* and wording are left out.                                               *)
(***************************************************************************)
EXTENDS SequencesExt, Integers

CONSTANTS
    Leagues, Top5,      \* the dataset's leagues, and the preset
    GameClubs, Nations,
    LeagueOf,           \* LeagueOf[c]: the league of a club
    Careers,            \* the players: [at: the teams of each, famous]
    TimerChoices,       \* seconds a round may take; 0 is no timer
    DefaultTimer,       \* what a new game starts with
    FullTime,           \* timeLeft at the start of a round (a bound)
    Intervals,          \* interval handles (a bound)
    RecentWindow,
    MaxDraws,           \* draws and points of one game (a bound)
    NoPair, NoInterval, NeverStored

ASSUME GameAssumption ==
    /\ IsFiniteSet(GameClubs)
    /\ \A c, d \in GameClubs \cup Nations : NoPair # {c, d}
    /\ NoInterval \notin Intervals
    /\ DefaultTimer \in TimerChoices
    /\ FullTime \in Nat /\ RecentWindow \in Nat

VARIABLES
    dataset,        \* the repository's one download: none, pending or ready
    loadState,      \* of the page: away, loading, ready or error
    settings,       \* [leagues, knownOnly, famousOnly, allowNations, timer]
    storedLeagues,  \* what local storage holds
    pair, recent, drawId,
    score, round,
    revealed, needLeague,
    intervals,      \* the intervals that run
    timerId,        \* the one the page knows of
    timeLeft

roundVars == <<pair, recent, drawId, revealed, needLeague>>
timerVars == <<intervals, timerId, timeLeft>>
scoreVars == <<score, round>>
gameVars == <<dataset, loadState, settings, storedLeagues, roundVars, timerVars, scoreVars>>

------------------------------------------------------------------------------
(* The rules.                                                              *)

EnabledClubs(on) == {c \in GameClubs : LeagueOf[c] \in on}

Matches(both) == {p \in Careers : both \subseteq p.at}

\* The pairs of one player's own teams.
\* Mutant: whatever league the second club is in.
OwnPairsAnyLeague(p, s) ==
    {{c, d} : c \in p.at \cap EnabledClubs(s.leagues),
              d \in p.at \ (IF s.allowNations THEN {} ELSE Nations)} \ {{c} : c \in GameClubs}
OwnPairs(p, s) ==
    LET clubs == p.at \cap EnabledClubs(s.leagues)
    IN  {{c, d} : c \in clubs, d \in clubs \cup (IF s.allowNations THEN p.at \cap Nations ELSE {})}
            \ {{c} : c \in GameClubs}

PairPool(s) == UNION {OwnPairs(p, s) : p \in {q \in Careers : s.famousOnly => q.famous}}

\* A club with no other club to face faces a country, allowed or not.
RandomPairs(s) ==
    LET clubs == EnabledClubs(s.leagues)
        second == IF Cardinality(clubs) < 2 THEN Nations
                  ELSE clubs \cup (IF s.allowNations THEN Nations ELSE {})
    IN  {{c, d} : c \in clubs, d \in second} \ {{c} : c \in clubs}

DrawCandidates(s) ==
    IF EnabledClubs(s.leagues) = {} THEN {}
    ELSE LET pool == IF s.knownOnly THEN PairPool(s) ELSE {}
         IN  IF pool # {} THEN pool ELSE RandomPairs(s)

PushRecent(keys, key) ==
    LET next == Append(keys, key)
    IN  SubSeq(next, 1 + (IF Len(next) > RecentWindow THEN Len(next) - RecentWindow ELSE 0), Len(next))

------------------------------------------------------------------------------
(* The page.                                                               *)

Started == pair # NoPair

\* The round's answers, once they are shown.
Answer == IF Started /\ revealed THEN Matches(pair) ELSE {}

\* What may be pressed: the page draws its buttons, and listens to its keys,
\* once the dataset is there; a point and the answer need a pair.
Offered ==
    CASE loadState = "error" -> {"retry"}
      [] loadState = "ready" -> {"primary", "settings", "reset"}
                                \cup (IF Started THEN {"point", "reveal"} ELSE {})
      [] OTHER -> {}

FreshSettings ==
    [leagues |-> {}, knownOnly |-> TRUE, famousOnly |-> TRUE, allowNations |-> TRUE, timer |-> DefaultTimer]

NoGame ==
    /\ pair = NoPair /\ recent = <<>> /\ drawId = 0 /\ score = <<0, 0>> /\ round = 1
    /\ revealed = FALSE /\ needLeague = FALSE
    /\ intervals = {} /\ timerId = NoInterval /\ timeLeft = FullTime

GameInit ==
    /\ dataset = "none" /\ loadState = "away" /\ storedLeagues = NeverStored
    /\ settings = FreshSettings
    /\ NoGame

LoadDataset ==
    /\ loadState' = "loading"
    /\ dataset' = IF dataset = "none" THEN "pending" ELSE dataset

\* The page starts a game of its own; the download outlives it.
EnterGame ==
    /\ loadState = "away"
    /\ LoadDataset
    /\ UNCHANGED <<settings, storedLeagues, roundVars, timerVars, scoreVars>>

RetryLoad ==
    /\ "retry" \in Offered
    /\ LoadDataset
    /\ UNCHANGED <<settings, storedLeagues, roundVars, timerVars, scoreVars>>

\* A failure is not kept: the next load asks again.
DatasetArrives(ok) ==
    /\ dataset = "pending"
    /\ dataset' = IF ok THEN "ready" ELSE "none"
    /\ loadState' = IF loadState = "loading" /\ ~ok THEN "error" ELSE loadState
    /\ UNCHANGED <<settings, storedLeagues, roundVars, timerVars, scoreVars>>

StoredLeagues ==
    LET valid == IF storedLeagues = NeverStored THEN {} ELSE storedLeagues \cap Leagues
    IN  IF valid # {} THEN valid ELSE Leagues

GameReady ==
    /\ loadState = "loading" /\ dataset = "ready"
    /\ loadState' = "ready"
    /\ settings' = [settings EXCEPT !.leagues = StoredLeagues]
    /\ UNCHANGED <<dataset, storedLeagues, roundVars, timerVars, scoreVars>>

\* Mutant: the interval is forgotten and runs on.
StopTimerForgotten == UNCHANGED intervals /\ timerId' = NoInterval
StopTimer == intervals' = intervals \ {timerId} /\ timerId' = NoInterval

\* Stops the round's interval and starts another when rounds are timed.
StartTimer(seconds) ==
    /\ timeLeft' = FullTime
    /\ IF seconds = 0 THEN StopTimer
       ELSE \E i \in Intervals \ intervals :
                timerId' = i /\ intervals' = (intervals \ {timerId}) \cup {i}

NextPair ==
    LET candidates == DrawCandidates(settings)
    IN  IF candidates = {}
        THEN needLeague' = TRUE /\ UNCHANGED <<pair, recent, drawId, revealed, timerVars>>
        ELSE \E key \in candidates :
                /\ pair' = key /\ recent' = PushRecent(recent, key) /\ drawId' = drawId + 1
                /\ needLeague' = FALSE /\ revealed' = FALSE
                /\ StartTimer(settings.timer)

Primary ==
    /\ "primary" \in Offered /\ drawId < MaxDraws /\ round <= MaxDraws
    /\ round' = IF Started THEN round + 1 ELSE round
    /\ NextPair
    /\ UNCHANGED <<dataset, loadState, settings, storedLeagues, score>>

Point(i) ==
    /\ "point" \in Offered /\ drawId < MaxDraws /\ round <= MaxDraws
    /\ score' = [score EXCEPT ![i] = @ + 1]
    /\ round' = round + 1
    /\ NextPair
    /\ UNCHANGED <<dataset, loadState, settings, storedLeagues>>

ShowAnswer == revealed' = TRUE /\ StopTimer

Reveal ==
    /\ "reveal" \in Offered
    /\ ShowAnswer
    /\ UNCHANGED <<dataset, loadState, settings, storedLeagues, pair, recent, drawId, needLeague,
                   timeLeft, scoreVars>>

ForgetGame ==
    /\ StopTimer /\ timeLeft' = FullTime
    /\ score' = <<0, 0>> /\ round' = 1
    /\ pair' = NoPair /\ recent' = <<>> /\ revealed' = FALSE /\ needLeague' = FALSE

ResetGame ==
    /\ "reset" \in Offered
    /\ ForgetGame
    /\ UNCHANGED <<dataset, loadState, settings, storedLeagues, drawId>>

\* Leaving stops the timer; a later visit has settings and scores of its own.
LeaveGame ==
    /\ loadState # "away"
    /\ loadState' = "away"
    /\ ForgetGame /\ drawId' = 0
    /\ settings' = FreshSettings
    /\ UNCHANGED <<dataset, storedLeagues>>

\* Storage may be blocked: the choice then holds for this visit only.
SetLeagues(on) ==
    /\ "settings" \in Offered
    /\ settings' = [settings EXCEPT !.leagues = on]
    /\ storedLeagues' \in {storedLeagues, on}
    /\ UNCHANGED <<dataset, loadState, roundVars, timerVars, scoreVars>>

ChooseLeagues ==
    \/ \E l \in Leagues : SetLeagues(settings.leagues \cup {l}) \/ SetLeagues(settings.leagues \ {l})
    \/ SetLeagues(Leagues) \/ SetLeagues(Top5) \/ SetLeagues({})

\* Nothing here draws: a change counts from the next pair.
SetOption(option, on) ==
    /\ "settings" \in Offered
    /\ settings' = [settings EXCEPT ![option] = on]
    /\ UNCHANGED <<dataset, loadState, storedLeagues, roundVars, timerVars, scoreVars>>

SetTimer(seconds) ==
    /\ "settings" \in Offered
    /\ settings' = [settings EXCEPT !.timer = seconds]
    /\ IF Started /\ ~revealed THEN StartTimer(seconds) ELSE StopTimer /\ UNCHANGED timeLeft
    /\ UNCHANGED <<dataset, loadState, storedLeagues, roundVars, scoreVars>>

\* An interval's callback, however late.
TimerTick(i) ==
    /\ i \in intervals
    /\ timeLeft' \in 0 .. timeLeft - 1
    /\ IF timeLeft' = 0 THEN ShowAnswer ELSE UNCHANGED <<revealed, intervals, timerId>>
    /\ UNCHANGED <<dataset, loadState, settings, storedLeagues, pair, recent, drawId, needLeague, scoreVars>>

GameNext ==
    \/ EnterGame \/ RetryLoad \/ GameReady \/ LeaveGame
    \/ \E ok \in BOOLEAN : DatasetArrives(ok)
    \/ Primary \/ Reveal \/ ResetGame
    \/ \E i \in {1, 2} : Point(i)
    \/ ChooseLeagues
    \/ \E o \in {"knownOnly", "famousOnly", "allowNations"}, on \in BOOLEAN : SetOption(o, on)
    \/ \E t \in TimerChoices : SetTimer(t)
    \/ \E i \in Intervals : TimerTick(i)

GameSpec == GameInit /\ [][GameNext]_gameVars

------------------------------------------------------------------------------

GameTypeOK ==
    /\ dataset \in {"none", "pending", "ready"}
    /\ loadState \in {"away", "loading", "ready", "error"}
    /\ settings \in [leagues: SUBSET (Leagues \cup Top5), knownOnly: BOOLEAN, famousOnly: BOOLEAN,
                     allowNations: BOOLEAN, timer: TimerChoices]
    /\ pair = NoPair \/ Cardinality(pair) = 2
    /\ Len(recent) <= RecentWindow
    /\ intervals \subseteq Intervals /\ timerId \in Intervals \cup {NoInterval}
    /\ timeLeft \in 0 .. FullTime

\* An interval runs only for a pair that is on the board with its answer
\* hidden, and there is one at most: none of an earlier round, of another
\* setting or of a page that was left may reveal the pair that is shown now.
TimerBelongsToOpenPair ==
    intervals # {} =>
        /\ intervals = {timerId}
        /\ loadState = "ready" /\ Started /\ Answer = {} /\ ~revealed
        /\ settings.timer # 0

\* A pair t that the settings s allow: a country only when countries are.
Allowed(s, t) == t \subseteq EnabledClubs(s.leagues) \cup (IF s.allowNations THEN Nations ELSE {})

\* Who answers t under s: a famous player when only those count.
KnownAnswers(s, t) == {p \in Matches(t) : s.famousOnly => p.famous}

\* A pair t drawn by the settings s.
DrawnFairly(s, t) ==
    LET clubs == EnabledClubs(s.leagues)
    IN  /\ Cardinality(t) = 2 /\ t \cap clubs # {} /\ t \subseteq clubs \cup Nations
        /\ Allowed(s, t) \/ Cardinality(clubs) = 1
        /\ s.knownOnly =>
              \/ KnownAnswers(s, t) # {}
              \/ \A c \in clubs, d \in GameClubs \cup Nations :
                     c # d /\ Allowed(s, {c, d}) => KnownAnswers(s, {c, d}) = {}

\* What the host draws obeys the settings of that moment: never one team
\* twice, never two countries, clubs of a league that is on, a country only
\* when countries are allowed or the club is alone, and under "known answers"
\* a pair that a player (a famous one when only those count) did play for,
\* whenever the settings leave such a pair.
DrawnPairIsFair == [][drawId' = drawId + 1 => DrawnFairly(settings, pair')]_gameVars
==============================================================================
