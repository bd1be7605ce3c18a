SPECIFICATION FairSpec
CONSTANTS
    wan = wan
    lan = lan
    nobody = nobody
    daemon = daemon
    Packet = Packet
    Rt = Rt
    Nothing = Nothing
    Owners = {wan, lan, Packet, Rt}
    Interfaces <- TwoInterfaces
    Launches <- MCLaunches
    Passwd <- MCPasswd
    Groups <- MCGroups
    ID_MAX = 6
    AllCaps <- Caps
    MAXWAITING = 1
    POLLFDS_SIZE = 2
    SESSION_PERIOD = 0
    IFACE_PERIOD = 1
    DUMP_TIMEOUT = 1
    MAXSETBACKS = 1
    MAXRECREATIONS = 1
CHECK_DEADLOCK FALSE
INVARIANT PollfdsFit
INVARIANT RunsAsUser
INVARIANT MembershipsKept
INVARIANT HandlesOpenIo
PROPERTY SignalEnds
PROPERTY InputHandled
PROPERTY PassesGoOn
PROPERTY StartupCompletes
