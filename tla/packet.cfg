SPECIFICATION Spec
CONSTANTS
    Ifaces <- MCIfaces
    RuleLists <- MCRuleLists
    Messages <- MCMessages
    Asked <- MCAsked
    Asker <- MCAsker
    None = None
    DEVIATIONS = 2
INVARIANTS
    PrefixesExact
    Understood
    QueueFiltered
    AdvertComplete
CHECK_DEADLOCK FALSE
