SPECIFICATION Spec
CONSTANTS
    Work = {w1, w2}
    Caller = {c1}
    Task = task
    Anchor = anchor
    NULL = NULL
INVARIANT TimerServes
