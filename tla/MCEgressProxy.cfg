SPECIFICATION FairSpec
CONSTANTS
    c1 = c1
    c2 = c2
    public = public
    rebinding = rebinding
    allowed = allowed
    ip4 = ip4
    ip6 = ip6
    inner4 = inner4
    inner6 = inner6
    NONE = NONE
    Conns = {c1, c2}
    Hosts <- TheHosts
    Addresses <- TheAddresses
    Allow = {allowed}
    Answers <- TheAnswers
    BlockedNetworks <- Networks
    MappedTo <- Mapped
INVARIANTS
    OnlyCheckedIsContacted
    UpstreamIsClosed
PROPERTIES
    StopEnds
CHECK_DEADLOCK FALSE
