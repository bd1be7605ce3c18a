SPECIFICATION FairSpec
CONSTANTS
    wan = wan
    lan = lan
    Names = {wan}
    LLs = {l1}
    MAXINDEX = 1
    Config <- AutoProxy
    MAXSESSIONS = 1
    REUSE = TRUE
    MAXRENAMES = 0
    FAILS = FALSE
PROPERTY Reconverges
