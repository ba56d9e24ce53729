SPECIFICATION EditorSpec
CONSTANTS
    player = player
    mate = mate
    ball = ball
    home = home
    a = a
    b = b
    Objects = {player, mate, ball}
    Drawings = {d1, d2}
    Boards <- MCBoards
    Sides = {home}
    SideOf <- MCSideOf
    NoSide = NoSide
    Places = {a, b}
    Unset = Unset
    HistoryLimit = 2
    Saves = {s1}
    MaxSteps = 3
    MaxEdits = 3
    Nothing = Nothing
SYMMETRY Symmetry
PROPERTIES
    ReorderKeepsEveryLook
CHECK_DEADLOCK FALSE
