SPECIFICATION Spec
CONSTANTS
    Coupons = {c}
    Gateways = {"razorpay"}
    None = None
    MaxOpenings = 2
    MaxAsked = 2
    MaxOrders = 2
    s1 = s1
    s2 = s2
    a = a
    b = b
    Nobody = Nobody
    MaxStarts = 2
    MaxPings = 1
    MaxShifts = 2
    Items = {x, y}
    Absent = Absent
    MaxCalls = 2
    MaxClicks = 3
    MaxEdits = 1
    MaxTyped = 4
    MaxAmount = 2
INVARIANTS
    TypeOK
    QuoteIsCurrent
    StopLasts
    
    WatchersKnown
    StatusAddsUp
    SavedOnItsOwn
PROPERTIES
    OneOrderWhileOpen
    CancelledStays
    OwnEditLosesNothing
CHECK_DEADLOCK FALSE
