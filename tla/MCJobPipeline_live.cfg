\* Liveness: one job, asked for twice, one worker, one callback, one death.
SPECIFICATION FairSpec
CONSTANTS
    u1 = u1  j1 = j1  r1 = r1  r2 = r2  w1 = w1  w2 = w2  c1 = c1
    Users = {u1}
    Jobs = {j1}
    Owner <- OneJobOwner
    Price <- OneJobPrice
    Grant = 1
    Requests = {r1, r2}
    JobOf <- OneJobOf
    Workers = {w1}
    Callbacks = {c1}
    NoJob = NoJob
    MaxAttempts = 3
    MaxDeaths = 1
PROPERTY EveryJobAndChargeEnds
CHECK_DEADLOCK FALSE
