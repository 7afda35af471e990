SPECIFICATION Spec
CONSTANTS
    Agents = {a1, a2}
    Memories = {m1}
    MaxCharges = 2
    MaxCrashes = 1
    MaxFailures = 0
CHECK_DEADLOCK FALSE
INVARIANT
    SettledOnce
