SPECIFICATION Spec
CONSTANTS
    Editor = {"a", "b"}
    OnArchived = {"upsert", "unarchive", "duplicate", "run"}
    MaxSent = 4
    Fails = 1
    MaxTime = 2
INVARIANTS
    EditsAddUp
    NothingBlank
CHECK_DEADLOCK FALSE
