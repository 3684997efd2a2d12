------------------------ MODULE CrossOriginRedirect ------------------------
(***************************************************************************)
(* The cross-origin bookkeeping of one SubresourceLoader across a chain   *)
(* of redirects: checkRedirectionCrossOriginAccessControl (L667-722) on   *)
(* every redirect and checkResponseCrossOriginAccessControl (L644-660) on *)
(* the final response.  The loader keeps its own copy of the requesting   *)
(* origin (m_origin), which it replaces by an opaque origin on a          *)
(* cross-origin hop, and the resource's sticky cross-origin flag.  Next   *)
(* to them the model keeps the two flags the Fetch standard's             *)
(* HTTP-redirect fetch keeps (the tainted-origin flag and the "cors"      *)
(* response tainting), so that the code's decisions can be compared with  *)
(* the standard's.                                                        *)
(*                                                                         *)
(* An origin is a host (a model value); SecurityOrigin::canRequest is     *)
(* same-origin comparison, and an opaque origin can request nothing.      *)
(***************************************************************************)
EXTENDS Naturals

CONSTANTS
    Hosts,          \* the origins URLs can have
    DocOrigin,      \* the document's origin, the loader's initial m_origin
    Opaque,         \* SecurityOrigin::createOpaque()
    MaxRedirects    \* bound on the length of the redirect chain

ASSUME CrossOriginAssumption ==
    /\ DocOrigin \in Hosts
    /\ Opaque \notin Hosts
    /\ MaxRedirects \in Nat

VARIABLES
    mode,         \* options().mode: "Cors", "NoCors", "SameOrigin"
    include,      \* credentials are sent (Credentials::Include / StoredCredentialsPolicy::Use)
    method,       \* the request's method: "GET" (or HEAD) or "POST" (any other)
    cur,          \* the origin of the request's current URL
    origin,       \* m_origin
    crossFlag,    \* m_resource->isCrossOrigin()
    originHdr,    \* the request's Origin header: a serialized origin or "none"
    status,       \* "Loading", "Rejected", "Done"
    hops,         \* redirects followed
    tainted,      \* Fetch: the request's tainted-origin flag
    corsTainted   \* Fetch: the request's response tainting is "cors"

vars == <<mode, include, method, cur, origin, crossFlag, originHdr, status, hops,
          tainted, corsTainted>>

Modes == {"Cors", "NoCors", "SameOrigin"}

Methods == {"GET", "POST"}

\* What Access-Control-Allow-Origin a response carries: an origin, "null",
\* the wildcard, or nothing.
AllowValues == Hosts \cup {"null", "*", "none"}

\* Mutant: the origin written into the header without serializing it.
SerializeRaw(o) == o

\* SecurityOrigin::toString(): an opaque origin serializes as "null".
Serialize(o) == IF o = Opaque THEN "null" ELSE o

\* SecurityOrigin::canRequest(url) for the origin o.
CanRequest(o, host) == o # Opaque /\ o = host

\* passesAccessControlCheck: the response allows the origin, by name or,
\* without credentials, by the wildcard.  Access-Control-Allow-Credentials
\* is left out: Fetch's CORS check requires it exactly where the code does,
\* so it changes no comparison below.
PassesAccessControl(acao, o) ==
    \/ acao = Serialize(o)
    \/ acao = "*" /\ ~include

\* ResourceRequest::redirectAsGETIfNeeded (L707): a 301, 302 or 303 answer
\* to a POST turns it into a GET; a 307 or 308 keeps the method.
RedirectMethods(m) == IF m = "POST" THEN {"POST", "GET"} ELSE {m}

\* FrameLoader::addHTTPOriginIfNeeded (L719): a request that has no Origin
\* header gets one, with the serialization of o, unless it is a GET or HEAD.
AddOriginIfNeeded(hdr, m, o) == IF hdr = "none" /\ m = "POST" THEN Serialize(o) ELSE hdr

-----------------------------------------------------------------------------
(* CachedResourceLoader starts the request: the resource is cross-origin  *)
(* if the document cannot request its URL; a same-origin-mode load of a   *)
(* cross-origin URL is refused before a loader exists.  A cross-origin    *)
(* CORS request is prepared for access control, which gives it the        *)
(* document's Origin header; any other request has one only if it is not *)
(* a GET.                                                                  *)
Init ==
    /\ mode \in Modes
    /\ include \in BOOLEAN
    /\ method \in Methods
    /\ cur \in Hosts
    /\ mode = "SameOrigin" => cur = DocOrigin
    /\ origin = DocOrigin
    /\ crossFlag = ~CanRequest(DocOrigin, cur)
    /\ originHdr = IF mode = "Cors" /\ crossFlag THEN Serialize(DocOrigin)
                   ELSE AddOriginIfNeeded("none", method, DocOrigin)
    /\ status = "Loading"
    /\ hops = 0
    /\ tainted = FALSE
    /\ corsTainted = (mode = "Cors" /\ cur # DocOrigin)

\* Mutant: the origin made opaque on any hop to a new origin, without the
\* crossOriginFlag condition of step 10.
TaintsOriginEveryNewOrigin(wasCross, toNewOrigin) == toNewOrigin

\* Fetch step 10 as the code implements it: the origin becomes opaque when
\* a load that already was cross-origin is redirected to a new origin.
TaintsOrigin(wasCross, toNewOrigin) == wasCross /\ toNewOrigin

\* Mutant: the redirect response's access-control check keyed on the flag
\* after setCrossOrigin, so the first hop away from the document's origin
\* is checked too.
RedirectAccessCheckedAfterUpdate(wasCross, nowCross) == nowCross

\* L689: only a load that was cross-origin before this redirect checks the
\* redirect response's Access-Control-Allow-Origin.
RedirectAccessChecked(wasCross, nowCross) == wasCross

\* Mutant: the access-control headers rebuilt only on the hop that makes
\* the load cross-origin, not on later hops to new origins.
ResetsAccessControlFirstHopOnly(wasCross, toNewOrigin) ==
    mode = "Cors" /\ toNewOrigin /\ ~wasCross

\* L712-715: a CORS request redirected to a new origin has its headers
\* cleaned and its Origin header set again from m_origin.
ResetsAccessControl(wasCross, toNewOrigin) == mode = "Cors" /\ toNewOrigin

(***************************************************************************)
(* A redirect to `loc`, whose Location carries credentials (`creds`),    *)
(* with Access-Control-Allow-Origin `acao`.  Locations are HTTP(S) URLs:  *)
(* the scheme half of validateCrossOriginRedirectionURL (L677) is not     *)
(* modelled.  updateRequestAfterRedirection refuses a same-origin-mode    *)
(* load that goes cross-origin (L310); then                               *)
(* checkRedirectionCrossOriginAccessControl (L667-722).                   *)
(***************************************************************************)
Redirect(loc, creds, acao) ==
    LET isNextCross   == ~CanRequest(origin, loc)
        newCross      == crossFlag \/ isNextCross
        corsRejects   == \/ newCross /\ creds
                         \/ /\ RedirectAccessChecked(crossFlag, newCross)
                            /\ ~PassesAccessControl(acao, origin)
        toNewOrigin   == /\ newCross
                         /\ IF ~crossFlag /\ isNextCross THEN TRUE ELSE cur # loc
        newOrigin     == IF TaintsOrigin(crossFlag, toNewOrigin) THEN Opaque ELSE origin
        resetHdr      == IF ResetsAccessControl(crossFlag, toNewOrigin)
                         THEN Serialize(newOrigin) ELSE originHdr
    IN
    /\ status = "Loading" /\ hops < MaxRedirects
    /\ \/ /\ mode = "SameOrigin" /\ isNextCross
          /\ status' = "Rejected"
          /\ UNCHANGED <<method, cur, origin, crossFlag, originHdr, hops, tainted, corsTainted>>
       \/ /\ mode = "Cors" /\ corsRejects
          /\ status' = "Rejected"
          /\ crossFlag' = newCross
          /\ UNCHANGED <<method, cur, origin, originHdr, hops, tainted, corsTainted>>
       \/ /\ mode = "SameOrigin" => ~isNextCross
          /\ mode = "Cors" => ~corsRejects
          /\ crossFlag' = newCross
          /\ origin' = newOrigin
          /\ method' \in RedirectMethods(method)
          /\ originHdr' = AddOriginIfNeeded(resetHdr, method', newOrigin)
          /\ cur' = loc
          /\ hops' = hops + 1
          /\ tainted' = (tainted \/ (loc # cur /\ DocOrigin # cur))
          /\ corsTainted' = (corsTainted \/ (mode = "Cors" /\ loc # DocOrigin))
          /\ UNCHANGED status
    /\ UNCHANGED <<mode, include>>

\* Mutant: the final response checked in CORS mode whatever its origin.
FinalResponseAnyOrigin(acao) ==
    /\ status = "Loading"
    /\ status' = IF mode = "Cors" /\ ~PassesAccessControl(acao, origin)
                 THEN "Rejected" ELSE "Done"
    /\ UNCHANGED <<mode, include, method, cur, origin, crossFlag, originHdr, hops,
                   tainted, corsTainted>>

\* The final response: checkResponseCrossOriginAccessControl (L644-660).
FinalResponse(acao) ==
    /\ status = "Loading"
    /\ status' = IF crossFlag /\ mode = "Cors" /\ ~PassesAccessControl(acao, origin)
                 THEN "Rejected" ELSE "Done"
    /\ UNCHANGED <<mode, include, method, cur, origin, crossFlag, originHdr, hops,
                   tainted, corsTainted>>

Next ==
    \/ \E loc \in Hosts, creds \in BOOLEAN, acao \in AllowValues :
          Redirect(loc, creds, acao)
    \/ \E acao \in AllowValues : FinalResponse(acao)

Spec == Init /\ [][Next]_vars

-----------------------------------------------------------------------------
(***************************************************************************)
(* The Fetch standard's decisions, from the flags it keeps.               *)
(***************************************************************************)
\* The serialization of the request origin: "null" once tainted.
FetchOriginValue == IF tainted THEN "null" ELSE DocOrigin

\* The CORS check of a response carrying Access-Control-Allow-Origin acao,
\* made when the response tainting is "cors".
FetchAllowsResponse(acao) ==
    corsTainted => \/ acao = FetchOriginValue
                   \/ acao = "*" /\ ~include

\* HTTP-redirect fetch to loc: same-origin mode refuses another origin; a
\* CORS request refuses credentials in a Location of another origin, and a
\* "cors"-tainted one any Location with credentials (steps 7-8); and the
\* redirect response itself passes the CORS check.
FetchAllowsRedirect(loc, creds, acao) ==
    /\ mode = "SameOrigin" => loc = DocOrigin
    /\ mode = "Cors" /\ creds => loc = DocOrigin /\ ~corsTainted
    /\ FetchAllowsResponse(acao)

-----------------------------------------------------------------------------
TypeOK ==
    /\ mode \in Modes
    /\ include \in BOOLEAN
    /\ method \in Methods
    /\ cur \in Hosts
    /\ origin \in Hosts \cup {Opaque}
    /\ crossFlag \in BOOLEAN
    /\ originHdr \in Hosts \cup {"null", "none"}
    /\ status \in {"Loading", "Rejected", "Done"}
    /\ hops \in 0..MaxRedirects
    /\ tainted \in BOOLEAN
    /\ corsTainted \in BOOLEAN

\* The loader's m_origin is opaque exactly when the Fetch standard's
\* tainted-origin flag is set, over any chain of redirects (L695-705
\* against HTTP-redirect fetch step 10); and the Origin header a CORS
\* request carries, which L712-715 rebuild and L719 add, is Fetch's
\* serialization of the request origin.
OriginTaintedAsFetch ==
    status = "Loading" =>
        /\ (origin = Opaque) = tainted
        /\ mode = "Cors" /\ originHdr # "none" => originHdr = FetchOriginValue

\* The inductive form of OriginTaintedAsFetch and of the two action
\* properties below: while the load runs, the sticky cross-origin flag
\* says whether a URL of another origin was fetched (Fetch's "cors"
\* tainting, in CORS mode), m_origin is the document's origin until the
\* chain is tainted, and a CORS request's Origin header is m_origin's.
CrossOriginInv ==
    /\ TypeOK
    /\ status = "Loading" =>
          /\ (origin = Opaque) = tainted
          /\ origin # Opaque => origin = DocOrigin
          /\ mode = "Cors" /\ originHdr # "none" => originHdr = Serialize(origin)
          /\ tainted => crossFlag
          /\ ~tainted => crossFlag = (cur # DocOrigin)
          /\ mode = "Cors" => corsTainted = crossFlag
          /\ mode # "Cors" => ~corsTainted
          /\ mode = "SameOrigin" => ~crossFlag

\* Every redirect the loader follows, and every one it refuses, is
\* followed or refused by the Fetch standard too: the resource's sticky
\* cross-origin flag stands for the "cors" response tainting and m_origin
\* for the serialized request origin.
RedirectAsFetch ==
    [][\A loc \in Hosts, creds \in BOOLEAN, acao \in AllowValues :
          Redirect(loc, creds, acao) =>
             (status' = "Loading") = FetchAllowsRedirect(loc, creds, acao)]_vars

\* The final response is accepted exactly when Fetch's CORS check passes.
ResponseAsFetch ==
    [][\A acao \in AllowValues :
          FinalResponse(acao) =>
             (status' = "Done") = FetchAllowsResponse(acao)]_vars

\* Whatever the mode, once the chain is tainted the loader sends no Origin
\* header naming a real origin: m_origin became opaque at L705 so that the
\* document's origin is hidden from the servers later in the chain, as
\* Fetch hides it by serializing a tainted origin as "null".
TaintedOriginHidden ==
    status = "Loading" /\ tainted => originHdr \in {"null", "none"}
====
