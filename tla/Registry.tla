------------------------------ MODULE Registry ------------------------------
(***************************************************************************)
(* What the football service's record-keeping modules share: clubs,        *)
(* calendar days, and the requests in flight.  Transfers, Valuations and   *)
(* CoachSpells each keep a history table and a column derived from it.     *)
(***************************************************************************)
EXTENDS Integers, FiniteSets

CONSTANTS
    NoTeam,         \* the NULL of a column that references a club
    Players, NoPlayer,
    Procs,          \* requests in flight at once (a bound)
    MaxDay          \* last day a record may carry (a bound)

ASSUME RegistryAssumption ==
    /\ NoPlayer \notin Players
    /\ MaxDay \in Nat \ {0}

Days == 1 .. MaxDay
NoDay == 0
=============================================================================
