CONSTANTS
    p1 = p1
    p2 = p2
    Procs <- MCProcs
    Hosts <- MCHosts
    IpHosts <- MCIpHosts
    Ports <- MCPorts
    Headers <- MCHeaders
    TimeBits <- MCTimeBits
    MaxNow <- MCMaxNow
    StartNow <- MCStartNow
    StartFiles <- MCStartFiles
    StartModes <- MCStartModes
    CreateModes <- MCCreateModes
    MaxLearn <- MCMaxLearn
SPECIFICATION FSpec
\* Every process exits after its save; the clock stops at MaxNow.
CHECK_DEADLOCK FALSE
INVARIANT NoPolicyLost
