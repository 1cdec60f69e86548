\* Three items of a video and a caption track; the other parts carry their bounds.
SPECIFICATION MCSpec
CONSTANTS
    a = a
    b = b
    d = d
    Tracks = {"clips", "words"}
    Kind <- MCKind
    Ids = {a, b, d}
    Looks = {"plain"}
    MaxKeys = 1
    Horizon = 2
    Span = 3
    Sources = {3}
    Speeds = {4, 6}
    Pins = {1}
    Entrances = {FALSE}
    Files = {"a.mp4", "b.mp4"}
    Life = 5
    Period = 4
    AtOnce = 2
    MaxFetches = 2
    MaxFails = 1
    Offsets <- MCOffsets
    Shifts <- MCShifts
    Reach = 12
    MaxWords = 2
    Lengths = {2, 14}
    Gaps = {0, 6, 7}
    MaxSpoken = 3
    Clips <- MCClips
    Groups = {"mine", "ours"}
    Slots = {"face", "voice"}
    MaxFiles = 2
    MaxUnder = 1
    Texts = {"idea"}
    MaxStarts = 1
    MaxQuotes = 2
    Links = {"l1", "l2"}
    Drafts <- MCDrafts
    MaxStudies = 3
    Throttled = {"signin"}
    Attempts = 2
    Window = 2
    LastTick = 4
    Hours = {1, 2}
    Leads = {0, 1}
CONSTRAINT Orderly
INVARIANTS
    AllTypes
    EditsKeepTheFilm
    TimesComeOutAsMeant
    PaidForWhatWasShown
PROPERTIES
    ScreensKeepUp
    SignInKeepsItsWord
CHECK_DEADLOCK FALSE
