SPECIFICATION FairSpec
CONSTANTS
    c1 = c1  c2 = c2  c3 = c3
    Callers = {c1, c2}
    Channels = {TRUE, FALSE}
    Cancellable = TRUE
    MayHang = TRUE
    Retries = 2
    MaxTaint = 1
INVARIANTS TypeOK ChannelExclusive TaintFreshUnlessDropped
PROPERTIES CallsReturn
