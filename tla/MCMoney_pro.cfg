\* The comment on JobBiller.actual: what was made keeps its reservation.
SPECIFICATION MCSpec
CONSTANTS
    h1 = h1
    h2 = h2
    Jobs = {1, 2}
    Price <- MCPrice
    How <- MCHow
    Measured <- MCMeasured
    Percent = 150
    FiveLimit = 3
    WeekLimit = 4
    Cap = 3
    DayLimit = 4
    Five = 1
    Day = 0
    Week = 2
    Month = 2
    Grant = 6
    Start = 1
    MaxTime = 2
    Credits = 5
    Cents = 3
    Saved = 1
    MaxSpend = 2
    Subs = {1, 2}
    MaxMessages = 5
    Handlers = {h1, h2}
    Requests = {h1, h2}
    Keys = {1, 2, 3, 4}
    OpenLimit = 2
CONSTRAINT Orderly
INVARIANT MadeStaysCounted
CHECK_DEADLOCK FALSE
