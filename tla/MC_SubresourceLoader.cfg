CONSTANTS
    MaxRedirects <- MCMaxRedirects
    MaxParts <- MCMaxParts
    MaxChunks <- MCMaxChunks
    ResourceTypes <- MCResourceTypes
    RedirectModes <- MCRedirectModes

SPECIFICATION Spec

\* A loaded or cancelled loader stops for good.
CHECK_DEADLOCK FALSE

INVARIANTS
    TypeOK
    RemovedExactlyOnce
    TeardownComplete
    CacheConsistent
    FollowedWithinMax
    NoFinishingAtRest
    TeardownInv
    FinishingInv
    RedirectInv
    CacheInv
    BodyInv

PROPERTIES
    BodyAfterRevalidation
    EventuallyTerminal
    ImplementsLifecycle
