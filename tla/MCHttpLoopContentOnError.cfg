CONSTANTS
    MaxFds <- MCMaxFds
    ResourceLen <- MCResourceLen
    Max1xx <- MCMax1xx
    NTry <- MCNTry
    Options <- MCOptionsContentOnError
    Codes <- MCCodes
    Err = Err
    CDHeaders <- MCCDHeaders
    ContentRanges <- MCContentRanges
    AuthHeads <- MCAuthHeads
SPECIFICATION LoopSpec
\* wget exits when http_loop returns.
CHECK_DEADLOCK FALSE
INVARIANT SuccessMeansWholeFile
