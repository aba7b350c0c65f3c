CONSTANTS
    r1 = r1
    e1 = e1
    x1 = x1
    t1 = t1
    Refresher = {r1}
    Escalator = {e1}
    Reactive = {x1}
    TimerTask = {t1}
    None = None
    MaxWire = 2
    MayCancel = FALSE
SPECIFICATION Spec
\* Each of these is violated on its own: keep one of them at a time.
INVARIANTS
    OnlyCancelledCallsCancel
    DeferredJwtPresented
    EscalatedByOwnAck
CHECK_DEADLOCK FALSE
