----------------------------- MODULE MCWorkflow -----------------------------
(* An instance of Workflow: what the assistant plans for "check this script,     *)
(* find a clip, restyle it, post it" (check_script, discover_videos,             *)
(* transform_video, schedule_post), and what else the planner may answer to the  *)
(* same request: a plan that only checks the script, or a question.              *)
EXTENDS Workflow

CONSTANTS spend, look, ask

MCPlans == {spend, look, ask}
MCNeeds == <<{}, {}, {2}, {3}>>
MCKind  == <<"inline", "unkeyed", "keyed", "inline">>
MCPlanSteps ==
    [p \in {spend, look, ask} |->
        IF p = spend THEN 1 .. 4 ELSE IF p = look THEN {1} ELSE {}]
=============================================================================
