CONSTANTS
    Conns = {c1, c2}
    MaxErrors = 2
SPECIFICATION Spec
INVARIANTS HealthyIsUsable NothingIsLeft OneErrorIsSurvived
PROPERTIES CloseEnds
CHECK_DEADLOCK FALSE
