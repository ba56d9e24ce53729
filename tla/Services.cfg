SPECIFICATION ServicesSpec
CONSTANTS
    Users = {a, b}
    Emails = {mail}
    Codes = {c1}
    Links = {m1, m2, m3}
    Requests = {p1, p2}
    google = google
    facebook = facebook
    hidden = hidden
    mail = mail
    Profiles <- MCProfiles
    Provider <- MCProvider
    MailOf <- MCMailOf
    Vouches <- MCVouches
    NoUser = NoUser
    NoMail = NoMail
    NoProfile = NoProfile
    Teams = {a, b}
    NoTeam = NoTeam
    Players = {x}
    NoPlayer = NoPlayer
    Procs = {p1, p2}
    MaxDay = 2
    MoveIds = {m1, m2, m3}
    Amounts = {0, 1, 2}
    Employers = {e}
    Coaches = {c}
    NoCoach = NoCoach
    SpellIds = {a, b}
SYMMETRY Symmetry
CONSTRAINT ServicesBounds
INVARIANTS
    TypeOK
    LinkPolicy
    ResendEndsOlderLinks
    RecordsTypeOK
    SquadFollowsRecord
    ValueFollowsHistory
    OpenSpellIsCurrent
PROPERTIES
    TokensAreOneTime
    MovesStartWherePlayerIs
CHECK_DEADLOCK FALSE
