SPECIFICATION Spec

CONSTANTS
    Names = {wan, lan}
    None = None
    Items <- MCItems
    MAXITEMS = 8
    a = a
    b = b
    m1 = m1
    m2 = m2
    wan = wan
    lan = lan

INVARIANTS
    AcceptsWellFormed
    LoadsWhatIsWritten
    UsableBySessions

CHECK_DEADLOCK FALSE
