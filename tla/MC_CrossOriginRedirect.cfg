CONSTANTS
    a = a
    b = b
    c = c
    OpaqueOrigin = OpaqueOrigin
    Hosts <- MCHosts
    DocOrigin <- MCDocOrigin
    Opaque = OpaqueOrigin
    MaxRedirects <- MCMaxRedirects

INIT Init
NEXT Next

INVARIANTS
    TypeOK
    OriginTaintedAsFetch
    CrossOriginInv

PROPERTIES
    RedirectAsFetch
    ResponseAsFetch

CHECK_DEADLOCK FALSE
