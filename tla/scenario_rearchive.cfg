SPECIFICATION Spec
CONSTANTS
    Editor = {"a"}
    OnArchived = {"upsert", "unarchive", "archive"}
    MaxSent = 4
    Fails = 0
    MaxTime = 4
INVARIANTS
    PlanSurvives
CHECK_DEADLOCK FALSE
