SPECIFICATION Spec
CONSTANTS
    Root <- MCRoot
    Paths <- MCPaths
    Spellings <- MCSpellings
    Calls <- MCCalls
    debounce_ticks = 1
    advance_ticks = 1
    max_queued_events = 2
    MaxChanges = 3
    MaxTime = 3
    MaxJobs = 2
INVARIANTS
    CoalescerInvariant
    StaleRejected
    NothingForgotten
    SpellingsAgree
CHECK_DEADLOCK FALSE
