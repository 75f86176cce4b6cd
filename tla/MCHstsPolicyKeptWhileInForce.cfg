CONSTANTS
    Hosts <- MCHosts
    IpHosts <- MCIpHosts
    Ports <- MCPorts
    Headers <- MCHeaders
    TimeBits <- MCTimeBits
    MaxNow <- MCMaxNow
SPECIFICATION HSpec
\* wget ends after the last URL; the clock stops at MaxNow.
CHECK_DEADLOCK FALSE
CONSTRAINT StoreBound
PROPERTY PolicyKeptWhileInForce
