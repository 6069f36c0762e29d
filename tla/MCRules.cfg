SPECIFICATION Spec
CONSTANTS
    NoAuth = NoAuth
    Denominator = 2
    StoredAt = 4
    MaxTime = 9
    MaxAddrs = 7
    Lower <- MCLower
    IpOf <- MCIpOf
    Width <- MCWidth
    IsLoopback <- MCLoopback
    Supported = {"gzip", "br"}
    ShortMax = 3
    MiddleMax = 6
    LengthLimit = 20
    MaxFrameSize = 9
    MaxMessageSize = 9
CHECK_DEADLOCK FALSE
INVARIANTS
  RoutesAreSound
  FreshnessIsSound
  ProxyIsRespected
  HeadersAreTrue
  WireFormIsAgreed
