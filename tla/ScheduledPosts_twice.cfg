\* The comment on the package: a post is only ever sent once.
SPECIFICATION Spec
CONSTANTS
    Posts = {p1}
    Workers = {w1, w2}
    NoPost = NoPost
    Horizon = 1
    MaxAttempts = 2
    MaxReschedules = 1
    MaxDeaths = 0
INVARIANT SentOnce
CHECK_DEADLOCK FALSE
