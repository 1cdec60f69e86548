\* One post moved twice, two workers and a death, under fairness.
SPECIFICATION FairSpec
CONSTANTS
    Posts = {p1}
    Workers = {w1, w2}
    NoPost = NoPost
    Horizon = 1
    MaxAttempts = 3
    MaxReschedules = 2
    MaxDeaths = 1
INVARIANTS TypeOK PostsInv SentOnceUnmoved CancelledIsNotSent MarkedBeforeSent
PROPERTIES EndIsFinal EveryPostEnds
CHECK_DEADLOCK FALSE
