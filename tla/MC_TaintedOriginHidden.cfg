CONSTANTS
    a = a
    b = b
    c = c
    OpaqueOrigin = OpaqueOrigin
    Hosts <- MCHosts
    DocOrigin <- MCDocOrigin
    Opaque = OpaqueOrigin
    MaxRedirects <- MCMaxRedirects

INIT Init
NEXT Next

INVARIANTS
    TaintedOriginHidden

CHECK_DEADLOCK FALSE
