CONSTANTS
    Hosts <- MCHosts
    IpHosts <- MCIpHosts
    Ports <- MCPorts
    Headers <- MCHeadersNoZero
    TimeBits <- MCTimeBits
    MaxNow <- MCMaxNow
SPECIFICATION HSpec
\* wget ends after the last URL; the clock stops at MaxNow.
CHECK_DEADLOCK FALSE
CONSTRAINT StoreBound
INVARIANT NoZeroMaxAgeEntry
