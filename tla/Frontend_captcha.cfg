SPECIFICATION FrontendSpec
CONSTANTS
    r1 = r1
    r2 = r2
    p1 = p1
    p2 = p2
    Users = {u1}
    Teams = {c1}
    Replicas = {r1, r2}
    Procs = {p1, p2}
    Home <- TwoHomes
    TTL = 2
    CacheLimit = 0
    MaxTime = 3
    Records = {"one", "other"}
    NoRecord = "none"
    Bare = {"other"}
    Rows = {"row", "another row"}
    Terms = {"x"}
    NoTerm = ""
    LastOffset = 1
    MaxMoves = 2
    MaxTyped = 2
    MaxSaves = 2
    MaxOthers = 1
    pw = pw
    pa = pa
    wu = wu
    au = au
    MaxArticles = 1
    EditorPages = {pw, pa}
    UserOf <- MCUserOf
    Writers = {wu}
    Admins = {au}
    MaxEdits = 2
    MaxActs = 1
    Items = {"x", "y", "z"}
    Tagged = {"x", "y"}
    PageSize = 1
    MaxChanges = 1
    MaxTags = 2
    Persons = {"p", "q"}
    Others = {"him"}
    Me = "me"
    Texts = {1, 2}
    NotesPage = 1
    MaxNotes = 3
    MaxWrites = 2
    Entries = {"x", "y", "z"}
    PageLimit = 1
    OffsetLimit = 1
    People = {"p", "q"}
    MaxAsks = 3
    Places = {1, 2}
    ua = ua
    ub = ub
    tm1 = tm1
    tm2 = tm2
    Members = {ua, ub}
    NoMember = NoMember
    Clubs = {tm1, tm2}
    HeldBy <- MCHeldBy
    RoleChoices <- MCRoleChoices
    Ids = {"x", "new"}
    Followed <- MCFollowed
    LinkedPaths <- MCLinkedPaths
    MaxSignIns = 1
INVARIANTS
    ChallengeIsShown
CHECK_DEADLOCK FALSE
