-------------------------- MODULE LoaderLifecycle --------------------------
(***************************************************************************)
(* What one subresource loader promises the objects around it, with every *)
(* handler, call-out and reentrant cancel abstracted away:                *)
(*   - the DocumentLoader: the loader joins its set of subresource loaders *)
(*     when init succeeds, may move on to its multipart loaders once its  *)
(*     first part is done, and is removed exactly once, when it ends;     *)
(*   - the CachedResourceLoader: the loader's share of the request count  *)
(*     is released once, at the latest when the loader ends;             *)
(*   - the CachedResource: it points at the loader from init until the    *)
(*     loader ends, and never again after;                                *)
(*   - everybody: a loader that has ended stays ended, and every loader   *)
(*     ends.                                                               *)
(* SubresourceLoader.tla is shown to implement this specification.        *)
(***************************************************************************)
EXTENDS Naturals

VARIABLES
    life,        \* "Created", "Live" or "Ended"
    registered,  \* in the DocumentLoader's set of subresource loaders
    counted,     \* holds a share of the CachedResourceLoader request count
    attached,    \* the CachedResource's loader points at this loader
    removals     \* times it was removed from the DocumentLoader

lvars == <<life, registered, counted, attached, removals>>

Init ==
    /\ life = "Created"
    /\ registered = FALSE
    /\ counted = TRUE
    /\ attached = FALSE
    /\ removals = 0

\* Init succeeds: the loader is registered and attached to its resource.
Start ==
    /\ life = "Created"
    /\ life' = "Live"
    /\ registered' = TRUE
    /\ attached' = TRUE
    /\ UNCHANGED <<counted, removals>>

\* Init fails: the loader ends without ever having been registered.
Abort ==
    /\ life = "Created"
    /\ life' = "Ended"
    /\ counted' = FALSE
    /\ UNCHANGED <<registered, attached, removals>>

\* The request count is released early (a multipart response, or the
\* start of the final notification).
ReleaseCount ==
    /\ life = "Live" /\ counted
    /\ counted' = FALSE
    /\ UNCHANGED <<life, registered, attached, removals>>

\* A multipart load finished its first part: the DocumentLoader moves the
\* loader out of its subresource loaders (to its multipart ones).
FinishOnePart ==
    /\ life = "Live" /\ registered
    /\ registered' = FALSE
    /\ UNCHANGED <<life, counted, attached, removals>>

\* The loader ends: it is removed once and holds nothing any more.
End ==
    /\ life = "Live"
    /\ life' = "Ended"
    /\ registered' = FALSE
    /\ counted' = FALSE
    /\ attached' = FALSE
    /\ removals' = removals + 1

Next == Start \/ Abort \/ ReleaseCount \/ FinishOnePart \/ End

\* The safety part: the steps above and nothing else.
SafetySpec == Init /\ [][Next]_lvars

\* Creation completes, and a live loader ends.
Spec == SafetySpec /\ WF_lvars(Start \/ Abort) /\ WF_lvars(End)

\* Every loader ends.
Terminates == <>(life = "Ended")
====
