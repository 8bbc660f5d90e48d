SPECIFICATION Spec
INVARIANTS
    FetchDelivers
CHECK_DEADLOCK FALSE
