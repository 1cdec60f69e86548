\* One job, two requests for it, two workers, one callback, one death.
SPECIFICATION Spec
CONSTANTS
    u1 = u1  j1 = j1  r1 = r1  r2 = r2  w1 = w1  w2 = w2  c1 = c1
    Users = {u1}
    Jobs = {j1}
    Owner <- OneJobOwner
    Price <- OneJobPrice
    Grant = 2
    Requests = {r1, r2}
    JobOf <- OneJobOf
    Workers = {w1, w2}
    Callbacks = {c1}
    NoJob = NoJob
    MaxAttempts = 3
    MaxDeaths = 1
SYMMETRY WorkerSymmetry
INVARIANTS TypeOK SubmitInv SubmittedOnce ClosedAsEnded CreditsConserved DeliveredWhatWasMade
PROPERTIES FinalIsFinal KeepsPromise
CHECK_DEADLOCK FALSE
