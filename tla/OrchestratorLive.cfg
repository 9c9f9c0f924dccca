SPECIFICATION FairSpec
CONSTANTS
    Incidents <- LiveIncidents
    Services = {"pay", "svc"}
    Deployed = {"pay"}
    None = None
    Garbage = Garbage
    BaseMin = 2
    ScaleUpMin = 4
    RevertAfter = 2
    RevertRetry = 1
    Cooldown = 1
    MaxAge = 2
    MaxSeen = 1
    MaxLag = 0
    MaxTime = 3
    MaxAlerts = 2
    MaxCrashes = 1
    MaxRewinds = 0
PROPERTIES
    MessagesHandled
    RevertsAttempted
CHECK_DEADLOCK FALSE
