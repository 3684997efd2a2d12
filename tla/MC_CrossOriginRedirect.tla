----------------------- MODULE MC_CrossOriginRedirect -----------------------
(* Three origins, the document's among them, and chains of up to three    *)
(* redirects: enough for A -> B -> A -> C, where the origin is tainted on  *)
(* the hop back and a later hop must not make it depend on the URL again. *)
EXTENDS CrossOriginRedirect

CONSTANTS a, b, c, OpaqueOrigin

MCHosts == {a, b, c}
MCDocOrigin == a
MCMaxRedirects == 3
====
