CONSTANTS
    r1 = r1
    e1 = e1
    x1 = x1
    t1 = t1
    Refresher = {r1}
    Escalator = {e1}
    Reactive = {x1}
    TimerTask = {t1}
    None = None
    MaxWire = 2
    MayCancel = TRUE
SPECIFICATION Spec
INVARIANTS WaitersAnswered EscalationKeepsJwt
CHECK_DEADLOCK FALSE
PROPERTY RefreshReturns
