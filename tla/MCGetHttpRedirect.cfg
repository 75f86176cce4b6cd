CONSTANTS
    MaxFds <- MCMaxFds
    ResourceLen <- MCResourceLen
    Max1xx <- MCMax1xx
    Options <- MCOptions
    Codes <- MCCodes
    Err = Err
    CDHeaders <- MCCDHeaders
    ContentRanges <- MCContentRanges
    AuthHeads <- MCAuthHeads

SPECIFICATION Spec

INVARIANT RedirectMethodPerSpec
