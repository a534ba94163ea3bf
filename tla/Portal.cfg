\* Bounds: two tabs, one request of a tab at a time, two sessions.
SPECIFICATION Spec
CONSTANTS
    t1 = t1
    t2 = t2
    c1 = c1
    None = None
    Tab <- MCTab
    Code <- MCCode
    OpenedWith <- MCOpenedWith
    MaxSession = 2
    Maximum = 2
    WindowTicks = 2
INVARIANTS
    TypeOK
    CodeSentOnce
    RateLimited
