SPECIFICATION FairSpec
CONSTANTS
    wan = wan
    lan = lan
    Names = {wan, lan}
    LLs = {l1, l2}
    MAXINDEX = 2
    Config <- TwoProxies
    MAXSESSIONS = 1
    REUSE = FALSE
    MAXRENAMES = 1
    FAILS = TRUE
INVARIANT BoundHears
INVARIANT OneObjectPerName
PROPERTY Reconverges
