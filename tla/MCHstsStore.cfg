CONSTANTS
    Hosts <- MCHosts
    IpHosts <- MCNoIpHosts
    Ports <- MCPorts
    Headers <- MCHeaders
    TimeBits <- MCTimeBits
    MaxNow <- MCMaxNow
SPECIFICATION HSpec
\* wget ends after the last URL; the clock stops at MaxNow.
CHECK_DEADLOCK FALSE
INVARIANT HstsTypeOK
INVARIANT FindEntryIsLongestSuffix
INVARIANT ParseMatchesReference
PROPERTY UpgradeOnlyByLivePolicy
CONSTRAINT StoreBound
