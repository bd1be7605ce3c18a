SPECIFICATION Spec
CONSTANTS
    Starts = {s1, s2, s3, fg, np}
    Background = {s1, s2, s3, np}
    Pathless = {np}
    None = None
SYMMETRY Alike
INVARIANT OneDaemon
INVARIANT PidfileNames
INVARIANT SomeoneStarts
CHECK_DEADLOCK FALSE
