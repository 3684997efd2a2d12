-------------------- MODULE CrossOriginRedirect_proofs ---------------------
(***************************************************************************)
(* Proofs, for every set of origins and every redirect bound, that the    *)
(* loader's cross-origin bookkeeping over a redirect chain agrees with    *)
(* the Fetch standard: m_origin is opaque exactly when the chain is       *)
(* tainted, and every redirect and final response is followed or refused  *)
(* as Fetch would.                                                         *)
(***************************************************************************)
EXTENDS CrossOriginRedirect, TLAPS

USE CrossOriginAssumption

\* The loader starts with the document's origin and a cross-origin flag
\* that says whether the first URL is the document's.
LEMMA InitInv == Init => CrossOriginInv
<1>. SUFFICES ASSUME Init PROVE CrossOriginInv
  OBVIOUS
<1>1. DocOrigin # Opaque
  OBVIOUS
<1>2. crossFlag = (cur # DocOrigin)
  BY <1>1 DEF Init, CanRequest
<1>3. TypeOK
  <2>1. originHdr \in Hosts \cup {"none"} /\ hops \in 0..MaxRedirects
    BY <1>1 DEF Init, Serialize, AddOriginIfNeeded
  <2>2. crossFlag \in BOOLEAN /\ corsTainted \in BOOLEAN /\ tainted \in BOOLEAN
    BY <1>2 DEF Init
  <2>. QED BY <2>1, <2>2 DEF Init, TypeOK, Modes
<1>4. /\ (origin = Opaque) = tainted
      /\ origin # Opaque => origin = DocOrigin
      /\ mode = "Cors" /\ originHdr # "none" => originHdr = Serialize(origin)
  BY <1>1 DEF Init, AddOriginIfNeeded
<1>5. /\ mode = "Cors" => corsTainted = crossFlag
      /\ mode # "Cors" => ~corsTainted
      /\ mode = "SameOrigin" => ~crossFlag
  BY <1>2 DEF Init
<1>. QED BY <1>2, <1>3, <1>4, <1>5 DEF Init, CrossOriginInv

\* A refused redirect ends the load and keeps every variable in its type.
LEMMA RejectInv ==
    ASSUME CrossOriginInv,
           NEW loc \in Hosts, NEW creds \in BOOLEAN, NEW acao \in AllowValues,
           Redirect(loc, creds, acao),
           status' = "Rejected"
    PROVE  CrossOriginInv'
<1>1. crossFlag' \in BOOLEAN /\ UNCHANGED <<mode, include, method, cur, origin, originHdr, hops, tainted, corsTainted>>
  BY DEF Redirect, CrossOriginInv, TypeOK
<1>. QED BY <1>1 DEF CrossOriginInv, TypeOK

\* A followed redirect: the origin becomes opaque exactly when Fetch sets
\* the tainted-origin flag, and the flags keep their meaning for the new
\* URL.
LEMMA FollowInv ==
    ASSUME CrossOriginInv,
           NEW loc \in Hosts, NEW creds \in BOOLEAN, NEW acao \in AllowValues,
           Redirect(loc, creds, acao),
           status' = "Loading"
    PROVE  CrossOriginInv'
<1>. DEFINE isNextCross == ~CanRequest(origin, loc)
            newCross    == crossFlag \/ isNextCross
            toNewOrigin == newCross /\ IF ~crossFlag /\ isNextCross THEN TRUE ELSE cur # loc
            newOrigin   == IF TaintsOrigin(crossFlag, toNewOrigin) THEN Opaque ELSE origin
            resetHdr    == IF ResetsAccessControl(crossFlag, toNewOrigin)
                           THEN Serialize(newOrigin) ELSE originHdr
<1>1. status = "Loading" /\ hops < MaxRedirects
  BY DEF Redirect
<1>2. /\ mode = "SameOrigin" => ~isNextCross
      /\ crossFlag' = newCross
      /\ origin' = newOrigin
      /\ method' \in RedirectMethods(method)
      /\ originHdr' = AddOriginIfNeeded(resetHdr, method', newOrigin)
      /\ cur' = loc
      /\ hops' = hops + 1
      /\ tainted' = (tainted \/ (loc # cur /\ DocOrigin # cur))
      /\ corsTainted' = (corsTainted \/ (mode = "Cors" /\ loc # DocOrigin))
      /\ UNCHANGED <<mode, include>>
  BY DEF Redirect
<1>3. TypeOK'
  <2>1. newOrigin \in Hosts \cup {Opaque} /\ resetHdr \in Hosts \cup {"null", "none"}
    BY DEF CrossOriginInv, TypeOK, Serialize, TaintsOrigin
  <2>2. method' \in Methods /\ originHdr' \in Hosts \cup {"null", "none"}
    BY <1>2, <2>1 DEF CrossOriginInv, TypeOK, RedirectMethods, Methods, AddOriginIfNeeded, Serialize
  <2>. QED BY <1>1, <1>2, <2>1, <2>2 DEF CrossOriginInv, TypeOK
<1>4. (origin' = Opaque) = tainted'
  BY <1>1, <1>2 DEF CrossOriginInv, TypeOK, CanRequest, TaintsOrigin
<1>5. origin' # Opaque => origin' = DocOrigin
  BY <1>1, <1>2 DEF CrossOriginInv, TypeOK, TaintsOrigin
\* The header is rebuilt from the new m_origin on every hop that can change
\* it; on any other hop m_origin stays and so does the header's value.
<1>8. mode' = "Cors" /\ originHdr' # "none" => originHdr' = Serialize(origin')
  <2>. SUFFICES ASSUME mode = "Cors", originHdr' # "none"
                PROVE  originHdr' = Serialize(origin')
    BY <1>2
  <2>1. CASE toNewOrigin
    <3>1. resetHdr = Serialize(newOrigin)
      BY <2>1 DEF ResetsAccessControl
    <3>. QED BY <1>2, <3>1 DEF AddOriginIfNeeded
  <2>2. CASE ~toNewOrigin
    <3>1. newOrigin = origin /\ resetHdr = originHdr
      BY <2>2 DEF TaintsOrigin, ResetsAccessControl
    <3>2. originHdr # "none" => originHdr = Serialize(origin)
      BY <1>1 DEF CrossOriginInv
    <3>. QED BY <1>2, <3>1, <3>2 DEF AddOriginIfNeeded
  <2>. QED BY <2>1, <2>2
<1>6. /\ tainted' => crossFlag'
      /\ ~tainted' => crossFlag' = (cur' # DocOrigin)
  BY <1>1, <1>2 DEF CrossOriginInv, TypeOK, CanRequest
<1>7. /\ mode' = "Cors" => corsTainted' = crossFlag'
      /\ mode' # "Cors" => ~corsTainted'
      /\ mode' = "SameOrigin" => ~crossFlag'
  BY <1>1, <1>2 DEF CrossOriginInv, TypeOK, CanRequest
<1>. QED BY <1>3, <1>4, <1>5, <1>6, <1>7, <1>8 DEF CrossOriginInv

\* The final response ends the load.
LEMMA FinalInv ==
    ASSUME CrossOriginInv, NEW acao \in AllowValues, FinalResponse(acao)
    PROVE  CrossOriginInv'
BY DEF FinalResponse, CrossOriginInv, TypeOK

LEMMA StepInv == CrossOriginInv /\ [Next]_vars => CrossOriginInv'
<1>. SUFFICES ASSUME CrossOriginInv, [Next]_vars PROVE CrossOriginInv'
  OBVIOUS
<1>1. CASE \E loc \in Hosts, creds \in BOOLEAN, acao \in AllowValues :
              Redirect(loc, creds, acao)
  <2>. PICK loc \in Hosts, creds \in BOOLEAN, acao \in AllowValues :
              Redirect(loc, creds, acao)
    BY <1>1
  <2>1. status' \in {"Loading", "Rejected"}
    BY DEF Redirect
  <2>. QED BY <2>1, RejectInv, FollowInv
<1>2. CASE \E acao \in AllowValues : FinalResponse(acao)
  BY <1>2, FinalInv
<1>3. CASE UNCHANGED vars
  BY <1>3 DEF vars, CrossOriginInv, TypeOK
<1>. QED BY <1>1, <1>2, <1>3 DEF Next

\* For every chain of redirects, m_origin is opaque exactly when Fetch's
\* tainted-origin flag is set, the sticky cross-origin flag stands for
\* Fetch's "cors" tainting, and a CORS request's Origin header is
\* m_origin's (checkRedirectionCrossOriginAccessControl, L669-719).
THEOREM InvCorrect == Spec => []CrossOriginInv
BY InitInv, StepInv, PTL DEF Spec

\* Every variable of the redirect chain keeps its type, and the chain
\* never follows more than MaxRedirects redirects.
THEOREM TypeCorrect == Spec => []TypeOK
<1>1. CrossOriginInv => TypeOK
  BY DEF CrossOriginInv
<1>. QED BY <1>1, InvCorrect, PTL

\* After any chain of redirects, m_origin is opaque exactly when Fetch's
\* tainted-origin flag is set (L695-705), and the Origin header of a CORS
\* request, rebuilt at L712-715 and added at L719, is Fetch's serialized
\* request origin.
THEOREM OriginTainted == Spec => []OriginTaintedAsFetch
<1>1. CrossOriginInv => OriginTaintedAsFetch
  BY DEF CrossOriginInv, OriginTaintedAsFetch, FetchOriginValue, Serialize
<1>. QED BY <1>1, InvCorrect, PTL

\* While the load runs, m_origin serializes as Fetch's request origin.
LEMMA OriginValue ==
    ASSUME CrossOriginInv, status = "Loading"
    PROVE  Serialize(origin) = FetchOriginValue
BY DEF CrossOriginInv, FetchOriginValue, Serialize

\* One redirect is followed exactly when Fetch follows it.
LEMMA RedirectVerdict ==
    ASSUME CrossOriginInv,
           NEW loc \in Hosts, NEW creds \in BOOLEAN, NEW acao \in AllowValues,
           Redirect(loc, creds, acao)
    PROVE  (status' = "Loading") = FetchAllowsRedirect(loc, creds, acao)
<1>. DEFINE isNextCross == ~CanRequest(origin, loc)
            newCross    == crossFlag \/ isNextCross
            passes      == PassesAccessControl(acao, origin)
            corsRejects == \/ newCross /\ creds
                           \/ RedirectAccessChecked(crossFlag, newCross) /\ ~passes
<1>1. status = "Loading"
  BY DEF Redirect
<1>2. (status' = "Loading") =
        (~(mode = "SameOrigin" /\ isNextCross) /\ ~(mode = "Cors" /\ corsRejects))
  BY DEF Redirect
<1>3. passes = (acao = FetchOriginValue \/ (acao = "*" /\ ~include))
  <2>1. Serialize(origin) = FetchOriginValue
    BY <1>1, OriginValue
  <2>. QED BY <2>1 DEF PassesAccessControl
<1>4. ~crossFlag => isNextCross = (loc # DocOrigin)
  BY <1>1 DEF CrossOriginInv, TypeOK, CanRequest
<1>5. CASE mode = "SameOrigin"
  <2>1. ~crossFlag /\ ~corsTainted
    BY <1>1, <1>5 DEF CrossOriginInv
  <2>. QED BY <1>2, <1>4, <1>5, <2>1 DEF FetchAllowsRedirect, FetchAllowsResponse, FetchOriginValue
<1>6. CASE mode = "Cors"
  <2>1. corsTainted = crossFlag
    BY <1>1, <1>6 DEF CrossOriginInv
  <2>2. corsRejects = (\/ (crossFlag \/ loc # DocOrigin) /\ creds
                       \/ crossFlag /\ ~passes)
    BY <1>4 DEF RedirectAccessChecked
  <2>3. creds /\ loc # DocOrigin => ~FetchAllowsRedirect(loc, creds, acao)
    BY <1>6 DEF FetchAllowsRedirect, FetchAllowsResponse, FetchOriginValue
  <2>. QED BY <1>2, <1>3, <1>6, <2>1, <2>2, <2>3 DEF FetchAllowsRedirect, FetchAllowsResponse, FetchOriginValue
<1>7. CASE mode = "NoCors"
  <2>1. ~corsTainted
    BY <1>1, <1>7 DEF CrossOriginInv
  <2>. QED BY <1>2, <1>7, <2>1 DEF FetchAllowsRedirect, FetchAllowsResponse, FetchOriginValue
<1>. QED BY <1>5, <1>6, <1>7 DEF CrossOriginInv, TypeOK, Modes

\* The final response is accepted exactly when Fetch's CORS check passes.
LEMMA ResponseVerdict ==
    ASSUME CrossOriginInv, NEW acao \in AllowValues, FinalResponse(acao)
    PROVE  (status' = "Done") = FetchAllowsResponse(acao)
<1>1. status = "Loading"
  BY DEF FinalResponse
<1>2. PassesAccessControl(acao, origin) = (acao = FetchOriginValue \/ (acao = "*" /\ ~include))
  <2>1. Serialize(origin) = FetchOriginValue
    BY <1>1, OriginValue
  <2>. QED BY <2>1 DEF PassesAccessControl
<1>3. (crossFlag /\ mode = "Cors") = corsTainted
  <2>1. /\ mode = "Cors" => corsTainted = crossFlag
        /\ mode # "Cors" => ~corsTainted
    BY <1>1 DEF CrossOriginInv
  <2>2. corsTainted \in BOOLEAN /\ crossFlag \in BOOLEAN
    BY DEF CrossOriginInv, TypeOK
  <2>. QED BY <2>1, <2>2
<1>. QED BY <1>2, <1>3 DEF FinalResponse, FetchAllowsResponse, FetchOriginValue

\* Every redirect the loader follows or refuses in
\* checkRedirectionCrossOriginAccessControl (L667-722), after
\* updateRequestAfterRedirection (L308), Fetch's HTTP-redirect fetch
\* follows or refuses too.
THEOREM RedirectFetch == Spec => RedirectAsFetch
<1>1. CrossOriginInv /\ [Next]_vars =>
        [\A loc \in Hosts, creds \in BOOLEAN, acao \in AllowValues :
            Redirect(loc, creds, acao) =>
               (status' = "Loading") = FetchAllowsRedirect(loc, creds, acao)]_vars
  BY RedirectVerdict
<1>. QED BY <1>1, InvCorrect, PTL DEF Spec, RedirectAsFetch

\* checkResponseCrossOriginAccessControl (L644-660) accepts the final
\* response exactly when Fetch's CORS check does.
THEOREM ResponseFetch == Spec => ResponseAsFetch
<1>1. CrossOriginInv /\ [Next]_vars =>
        [\A acao \in AllowValues :
            FinalResponse(acao) => (status' = "Done") = FetchAllowsResponse(acao)]_vars
  BY ResponseVerdict
<1>. QED BY <1>1, InvCorrect, PTL DEF Spec, ResponseAsFetch

====
