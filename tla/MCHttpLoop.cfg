CONSTANTS
    MaxFds <- MCMaxFds
    ResourceLen <- MCResourceLen
    Max1xx <- MCMax1xx
    NTry <- MCNTry
    Options <- MCOptions
    Codes <- MCCodes
    Err = Err
    CDHeaders <- MCCDHeaders
    ContentRanges <- MCContentRanges
    AuthHeads <- MCAuthHeads
SPECIFICATION LoopSpec
\* wget exits when http_loop returns.
CHECK_DEADLOCK FALSE
INVARIANT LoopTypeOK
 
 
INVARIANT NeverAborts
PROPERTY LoopTerminates
