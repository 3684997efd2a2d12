CONSTANTS
    MaxRedirects <- MCMaxRedirects
    MaxParts <- MCMaxParts
    MaxChunks <- MCMaxChunks
    ResourceTypes <- MCResourceTypes
    RedirectModes <- MCRedirectModes

SPECIFICATION Spec

CHECK_DEADLOCK FALSE

INVARIANT
    LoadDoneOnce
