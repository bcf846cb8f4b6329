CONSTANTS
    n1 = n1
    n2 = n2
    n3 = n3
    Notifications = {n1, n2, n3}
    QueueCapacity = 2
    MaxSendAttempts = 3
    MaxVersion = 2
    MaxTextChars = 8
    Templates <- MCTemplates
    Context <- MCContext
    Shutdown = Shutdown
    None = None
SPECIFICATION FairSpec
INVARIANTS Accounted ToldOnce SentIsShown TemplateIsFresh UrlIsKept
PROPERTY EveryMessageSettles
CHECK_DEADLOCK FALSE
