\* The whole chain, submitted twice, two workers, one death, under fairness.
SPECIFICATION FairSpec
CONSTANTS
    StepCount = 4
    Needs <- MCNeeds
    Kind <- MCKind
    Gated = {2, 3, 4}
    Plans <- MCPlans
    PlanSteps <- MCPlanSteps
    spend = spend
    look = look
    ask = ask
    NoPlan = NoPlan
    Requests = {r1, r2}
    Workers = {w1, w2}
    MaxDeaths = 1
INVARIANTS WorkflowInv KeyedStartsOnce StartsInOrder EndIsWhole
PROPERTIES EndIsFinal ApprovedEnds
CHECK_DEADLOCK FALSE
