\* The comment on Submit: approval-gated plans wait for approval.
SPECIFICATION Spec
CONSTANTS
    StepCount = 4
    Needs <- MCNeeds
    Kind <- MCKind
    Gated = {2, 3, 4}
    Plans <- MCPlans
    PlanSteps <- MCPlanSteps
    spend = spend
    look = look
    ask = ask
    NoPlan = NoPlan
    Requests = {r1, r2}
    Workers = {w1}
    MaxDeaths = 0
INVARIANT GatedWaitsForConsent
CHECK_DEADLOCK FALSE
