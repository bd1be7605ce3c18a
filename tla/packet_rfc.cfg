SPECIFICATION Spec
CONSTANTS
    Ifaces <- MCIfaces
    RuleLists <- MCRuleLists
    Messages <- MCMessages
    Asked <- MCAsked
    Asker <- MCAsker
    None = None
    DEVIATIONS = 2
INVARIANT OnlyValid
CHECK_DEADLOCK FALSE
