SPECIFICATION Spec
CONSTANTS
    NoAuth = NoAuth  PortOmitted = PortOmitted  Empty = Empty
    Malformed = Malformed  Nothing = Nothing
    plain = plain  odd = odd
    Configs <- MCConfigs
    Keys = {plain, odd}
    Escaped = {odd}
    Methods = {"GET", "PUT"}
    UrlCalls <- MCUrlCalls
    SdkCalls <- MCSdkCalls
    DefaultPort = 80
    Regions = {"eu"}
    Lifetimes = {2, 3}
    MaxLifetime = 2
    Skew = 1
    DaySeconds = 2
    Second = 2
    MaxClock = 9
    MaxUrls = 1
INVARIANTS UrlsBounded
