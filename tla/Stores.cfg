SPECIFICATION StoresSpec
CONSTANTS
    player = player
    mate = mate
    ball = ball
    home = home
    a = a
    b = b
    Objects = {player, mate, ball}
    Drawings = {d1, d2}
    Boards <- MCBoards
    Sides = {home}
    SideOf <- MCSideOf
    NoSide = NoSide
    Places = {a, b}
    Unset = Unset
    HistoryLimit = 2
    Saves = {s1}
    MaxSteps = 3
    MaxEdits = 3
    Nothing = Nothing
    g1 = g1
    g2 = g2
    g3 = g3
    n1 = n1
    Leagues = {"l1", "l2"}
    Top5 = {"l1"}
    LeagueOf <- MCLeagueOf
    Careers <- MCCareers
    GameClubs = {g1, g2, g3}
    Nations = {n1}
    TimerChoices = {0, 20}
    DefaultTimer = 20
    FullTime = 2
    Intervals = {i1, i2}
    RecentWindow = 1
    MaxDraws = 2
    NoPair = NoPair
    NoInterval = NoInterval
    NeverStored = NeverStored
SYMMETRY StoresSymmetry
INVARIANTS
    StoresTypeOK
    SelectionIsOnBoard
    CleanMeansStored
    TimerBelongsToOpenPair
PROPERTIES
    DeletionMovesNothing
    ReorderKeepsTheLook
    StacksAreTimeline
    DrawnPairIsFair
CHECK_DEADLOCK FALSE
