SPECIFICATION RecordsSpec
CONSTANTS
    Teams = {a, b}
    NoTeam = NoTeam
    Players = {x}
    NoPlayer = NoPlayer
    Procs = {p1, p2}
    MaxDay = 2
    MoveIds = {m1, m2, m3}
    Amounts = {0, 1, 2}
    Employers = {e}
    Coaches = {c}
    NoCoach = NoCoach
    SpellIds = {s1, s2}
SYMMETRY RecordsSymmetry
INVARIANTS
    OneOpenSpell
CHECK_DEADLOCK FALSE
