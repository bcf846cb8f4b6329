SPECIFICATION LifeFairSpec
CONSTANTS
    a1 = a1  hub = hub  lib = lib  d1 = d1
    Admins = {a1}
    Refresher = Refresher  Nobody = Nobody  Blank = Blank
    DockerName = hub
    Listings <- MCListings
    MaxVersion = 1
    MaxGeneration = 3
    Environments <- MCEnvironments
    Features = {"defectdojo", "yandex-messenger"}
    Downloads = {d1}
    NoAnswer = NoAnswer
INVARIANTS CatalogUsable ReloadIsCurrent EveryNeedIsMet HealthIsHonest NoNoticeIsLate
PROPERTIES CatalogMovesForward ReloadsEnd ProcessExits
CHECK_DEADLOCK FALSE
