------------------------- MODULE SubresourceLoader -------------------------
(***************************************************************************)
(* One WebCore::SubresourceLoader driving one CachedResource, as in        *)
(* loader/SubresourceLoader.cpp.  The loader is single threaded but        *)
(* reentrant: every call that notifies clients (the CachedResource's       *)
(* clients, the frame loader client, the document's loader registry) may   *)
(* synchronously cancel the very loader that made it.  A handler is        *)
(* therefore split at each such call-out: `pc` names the call-out the      *)
(* running handler is inside, the reentrant cancel is an action enabled    *)
(* there, and the handler's next step resumes after the call-out with the  *)
(* re-checks the code makes (reachedTerminalState(), wasCancelled()).      *)
(*                                                                         *)
(* ResourceLoader (the base class), CachedResource and MemoryCache are not *)
(* in this repository: their parts used here (cancel, releaseResources,    *)
(* revalidationSucceeded/Failed, remove, cancelLoad) follow the spec.      *)
(***************************************************************************)
EXTENDS Naturals, Sequences

CONSTANTS
    MaxRedirects,     \* options().maxRedirectCount
    MaxParts,         \* bound on the responses of a multipart load
    MaxChunks,        \* bound on the body chunks the transport delivers
    ResourceTypes,    \* the CachedResource::Type values considered
    RedirectModes     \* the FetchOptions::Redirect values considered

ASSUME ConstantsAssumption ==
    /\ MaxRedirects \in Nat
    /\ MaxParts \in Nat \ {0}
    /\ MaxChunks \in Nat
    /\ ResourceTypes \subseteq {"Image", "Raw", "MainResource"}
    /\ RedirectModes \subseteq {"Follow", "Error", "Manual"}

VARIABLES
    opts,         \* per-load constants: resource type, fetch options, preload
    state,        \* m_state: "Uninitialized", "Initialized", "Finishing"
    terminal,     \* ResourceLoader::m_reachedTerminalState
    cancelled,    \* ResourceLoader::wasCancelled()
    pc,           \* the call-out the running handler is inside, or "Idle"
    cur,          \* the response being handled (handler-local)
    phase,        \* what the transport may deliver: "Request", "Body", "Done"
    tracker,      \* m_requestCountTracker is engaged
    registered,   \* in DocumentLoader's set of subresource loaders
    removals,     \* calls of DocumentLoader::removeSubresourceLoader
    loadDones,    \* kinds passed to CachedResourceLoader::loadDone, in order
    redirectCount,\* m_redirectCount
    followed,     \* redirects handed back to the transport
    crossOrigin,  \* CachedResource::isCrossOrigin()
    revalidating, \* CachedResource::resourceToRevalidate() != nullptr
    atOldURL,     \* request().url() is the revalidated resource's URL
    cacheEntry,   \* what MemoryCache holds for the key: "New", "Old", "None"
    resResp,      \* CachedResource::response()
    resStatus,    \* CachedResource status: "Pending","Loaded","Cached","LoadError"
    resErr,       \* CachedResource::setResourceError was called
    resLoader,    \* CachedResource::m_loader points at this loader
    resData,      \* versions of the CachedResource's data (updateBuffer calls)
    multipart,    \* m_loadingMultipartContent
    prevPart,     \* m_previousPartResponse (NoResponse when null)
    parts,        \* responses received
    chunks        \* body chunks received

vars == <<opts, state, terminal, cancelled, pc, cur, phase, tracker,
          registered, removals, loadDones, redirectCount, followed,
          crossOrigin, revalidating, atOldURL, cacheEntry, resResp, resStatus,
          resErr, resLoader, resData, multipart, prevPart, parts, chunks>>

(***************************************************************************)
(* Data.  A response is abstracted to what the handlers test: the early    *)
(* rejections (invalid headers; service-worker CSP or range-flag failure), *)
(* its status class, the access-control verdict, and the multipart flag.   *)
(***************************************************************************)
Statuses == {"OK", "NotModified", "NotFound", "RedirectEmptyLoc", "RedirectLoc"}
Redirections == {"RedirectEmptyLoc", "RedirectLoc"}
Responses == [pre : {"Invalid", "Rejected", "Ok"}, status : Statuses,
              corsOK : BOOLEAN, multipart : BOOLEAN]
NoResponse == [status |-> "None", opaque |-> FALSE, corsOK |-> TRUE]
ResourceResponses == [status : Statuses \cup {"None"}, opaque : BOOLEAN,
                      corsOK : BOOLEAN]
Options == [type : ResourceTypes, redirect : RedirectModes, cors : BOOLEAN,
            preloaded : BOOLEAN, ignoreErrors : BOOLEAN]
CompletionKinds == {"Finish", "Cancel"}

\* The call-outs after which a handler resumes.
Callouts == {"RedirManual", "RedirAwait", "Resp304", "RespOpaque",
             "RespReceived", "RespPolicy", "RespHTTPError", "Buffer",
             "PartResponse", "PartFinish", "FinPart",
             "FinLoading", "FinOnePart", "FinLoadDone", "FailError",
             "FailLoadDone"}

\* The resource as the transport reports it back (ResourceResponse copy).
AsResource(r) == [status |-> r.status, opaque |-> FALSE, corsOK |-> r.corsOK]

\* responseHasHTTPStatusCodeError(): reads resource->response().
HTTPStatusCodeError(resp) ==
    resp.status = "NotFound" /\ ~opts.ignoreErrors

\* checkResponseCrossOriginAccessControl only rejects a CORS-mode load of a
\* cross-origin resource; elsewhere the verdict is success.
CorsVerdicts == IF crossOrigin /\ opts.cors THEN BOOLEAN ELSE {TRUE}

-----------------------------------------------------------------------------
\* Mutant: the iOS branch of willCancel (L843, L856) in this build.
WillCancelIOS ==
    LET acts == state \in {"Initialized", "Uninitialized"} IN
    /\ state' = IF state = "Uninitialized" THEN "CancelledWhileInitializing"
                ELSE IF acts THEN "Finishing" ELSE state
    /\ revalidating' = IF acts THEN FALSE ELSE revalidating
    /\ resErr' = (resErr \/ acts)
    /\ cacheEntry' = IF acts /\ cacheEntry = "New" THEN "None" ELSE cacheEntry

\* SubresourceLoader::willCancel (L835-865): only an Initialized loader
\* moves to Finishing, ends a revalidation, records the error on the
\* resource and removes it from the memory cache.
WillCancel ==
    LET acts == state = "Initialized" IN
    /\ state' = IF acts THEN "Finishing" ELSE state
    /\ revalidating' = IF acts THEN FALSE ELSE revalidating
    /\ resErr' = (resErr \/ acts)
    /\ cacheEntry' = IF acts /\ cacheEntry = "New" THEN "None" ELSE cacheEntry

(***************************************************************************)
(* ResourceLoader::cancel, atomic: willCancel, then didCancel (L867-880)   *)
(* with its notifyDone (L882-904), then releaseResources (L906-918).  A    *)
(* client may re-enter cancel from inside notifyDone's loadDone call:      *)
(* ResourceLoader::cancel then runs didCancel a second time, so loadDone   *)
(* is reported twice (`nested`).  It leaves `pc` alone: a reentrant        *)
(* cancel returns into the handler that made the call-out.                 *)
(***************************************************************************)
Cancel(nested) ==
    LET didCancel == state # "Uninitialized" IN
    /\ ~terminal
    /\ nested => didCancel
    /\ WillCancel
    /\ resStatus' = IF didCancel /\ resStatus = "Pending" THEN "LoadError" ELSE resStatus
    /\ loadDones' = IF ~didCancel THEN loadDones
                    ELSE IF nested THEN loadDones \o <<"Cancel", "Cancel">>
                    ELSE Append(loadDones, "Cancel")
    /\ removals' = IF didCancel THEN removals + 1 ELSE removals
    /\ registered' = (registered /\ ~didCancel)
    /\ tracker' = FALSE
    /\ resLoader' = (resLoader /\ ~didCancel)
    /\ terminal' = TRUE
    /\ cancelled' = TRUE
    /\ phase' = "Done"

\* The variables Cancel leaves alone; callers that change none of them add
\* this frame.
CancelFrame ==
    UNCHANGED <<opts, pc, cur, redirectCount, followed, crossOrigin, resResp,
                resData, multipart, prevPart, parts, chunks, atOldURL>>

\* A cancel requested by the document (ResourceLoader::cancel or
\* cancelIfNotFinishing) while no handler runs.
ExternalCancel ==
    /\ pc = "Idle"
    /\ state = "Initialized"
    /\ \E nested \in BOOLEAN : Cancel(nested)
    /\ CancelFrame

\* A client cancels the loader from inside a call-out of a running handler.
ReentrantCancel ==
    /\ pc \in Callouts
    /\ \E nested \in BOOLEAN : Cancel(nested)
    /\ CancelFrame

-----------------------------------------------------------------------------
(* Initialization: SubresourceLoader::init, completed by CachedResource.   *)
Init ==
    /\ opts \in Options
    /\ state = "Uninitialized"
    /\ terminal = FALSE
    /\ cancelled = FALSE
    /\ pc = "Idle"
    /\ cur = [pre |-> "Ok", status |-> "OK", corsOK |-> TRUE, multipart |-> FALSE]
    /\ phase = "Request"
    /\ tracker = TRUE
    /\ registered = FALSE
    /\ removals = 0
    /\ loadDones = <<>>
    /\ redirectCount = 0
    /\ followed = 0
    /\ crossOrigin \in BOOLEAN
    /\ revalidating \in BOOLEAN
    /\ atOldURL = TRUE
    /\ cacheEntry = "New"
    /\ resResp = NoResponse
    /\ resStatus = "Pending"
    /\ resErr = FALSE
    /\ resLoader = FALSE
    /\ resData = 0
    /\ multipart = FALSE
    /\ prevPart = NoResponse
    /\ parts = 0
    /\ chunks = 0

InitSucceeded ==
    /\ state = "Uninitialized" /\ ~terminal
    /\ state' = "Initialized"
    /\ registered' = TRUE
    /\ resLoader' = TRUE
    /\ UNCHANGED <<opts, terminal, cancelled, pc, cur, phase, tracker, removals,
                   loadDones, redirectCount, followed, crossOrigin, revalidating,
                   cacheEntry, resResp, resStatus, resErr, resData, multipart,
                   prevPart, parts, chunks, atOldURL>>

\* ResourceLoader::init cancels when the initial request is refused.
InitFailed ==
    /\ state = "Uninitialized"
    /\ Cancel(FALSE)
    /\ CancelFrame

\* A handler step that only moves to its next call-out (or returns).
GoTo(label) ==
    /\ pc' = label
    /\ UNCHANGED <<opts, state, terminal, cancelled, cur, phase, tracker,
                   registered, removals, loadDones, redirectCount, followed,
                   crossOrigin, revalidating, cacheEntry, resResp, resStatus,
                   resErr, resLoader, resData, multipart, prevPart, parts, chunks, atOldURL>>

\* Mutant: releaseResources without resource->clearLoader().
RemoveAndReleaseKeepLoader ==
    /\ registered' = FALSE
    /\ removals' = removals + 1
    /\ tracker' = FALSE
    /\ terminal' = TRUE
    /\ pc' = "Idle"
    /\ UNCHANGED <<opts, state, cancelled, cur, phase, loadDones, redirectCount,
                   followed, crossOrigin, revalidating, cacheEntry, resResp,
                   resStatus, resErr, resLoader, resData, multipart, prevPart,
                   parts, chunks, atOldURL>>

\* The end of notifyDone (removeSubresourceLoader) and releaseResources.
RemoveAndRelease ==
    /\ registered' = FALSE
    /\ removals' = removals + 1
    /\ tracker' = FALSE
    /\ resLoader' = FALSE
    /\ terminal' = TRUE
    /\ pc' = "Idle"
    /\ UNCHANGED <<opts, state, cancelled, cur, phase, loadDones, redirectCount,
                   followed, crossOrigin, revalidating, cacheEntry, resResp,
                   resStatus, resErr, resData, multipart, prevPart, parts, chunks, atOldURL>>

\* The start of notifyDone(kind): release the request count, call loadDone.
NotifyDoneLoadDone(kind, next) ==
    /\ tracker' = FALSE
    /\ loadDones' = Append(loadDones, kind)
    /\ pc' = next
    /\ UNCHANGED <<opts, state, terminal, cancelled, cur, phase, registered,
                   removals, redirectCount, followed, crossOrigin, revalidating,
                   cacheEntry, resResp, resStatus, resErr, resLoader, resData,
                   multipart, prevPart, parts, chunks, atOldURL>>

-----------------------------------------------------------------------------
(***************************************************************************)
(* didFinishLoading (L732-795).  Entered from the transport, or from a     *)
(* redirect in manual mode.  Call-outs: the last multipart part's          *)
(* responseReceived (L776) and finishLoading (L777), with no re-check      *)
(* between them; then finish and didFinishLoadingOnePart (L784-786), then  *)
(* notifyDone's loadDone (L894); the later ones each followed by the       *)
(* code's re-check.                                                        *)
(***************************************************************************)
\* CachedResource::finishLoading marks a pending resource loaded before it
\* notifies the resource's clients.
FinishLoadingStatus ==
    resStatus' = IF resStatus = "Pending" THEN "Loaded" ELSE resStatus

DidFinishLoadingStart ==
    LET lastPart == multipart /\ prevPart # NoResponse IN
    /\ state = "Initialized"
    /\ state' = "Finishing"
    /\ phase' = "Done"
    /\ \/ /\ lastPart
          /\ resResp' = prevPart
          /\ pc' = "FinPart"
          /\ UNCHANGED resStatus
       \/ /\ ~lastPart
          /\ FinishLoadingStatus
          /\ pc' = "FinLoading"
          /\ UNCHANGED resResp
    /\ UNCHANGED <<opts, terminal, cancelled, cur, tracker, registered, removals,
                   loadDones, redirectCount, followed, crossOrigin, revalidating,
                   cacheEntry, resErr, resLoader, resData, multipart, prevPart,
                   parts, chunks, atOldURL>>

\* resource->finishLoading (L777) after the part's responseReceived returns.
FinPartResume ==
    /\ pc = "FinPart"
    /\ FinishLoadingStatus
    /\ pc' = "FinLoading"
    /\ UNCHANGED <<opts, state, terminal, cancelled, cur, phase, tracker,
                   registered, removals, loadDones, redirectCount, followed,
                   crossOrigin, revalidating, atOldURL, cacheEntry, resResp,
                   resErr, resLoader, resData, multipart, prevPart, parts, chunks>>

Finish ==
    /\ pc = "Idle" /\ ~terminal /\ phase = "Body"
    /\ DidFinishLoadingStart

\* if (wasCancelled()) return; resource->finish(); didFinishLoadingOnePart.
FinLoadingResume ==
    /\ pc = "FinLoading"
    /\ \/ cancelled /\ GoTo("Idle")
       \/ /\ ~cancelled
          /\ resStatus' = IF resStatus = "LoadError" THEN "LoadError" ELSE "Cached"
          /\ pc' = "FinOnePart"
          /\ UNCHANGED <<opts, state, terminal, cancelled, cur, phase, tracker,
                         registered, removals, loadDones, redirectCount, followed,
                         crossOrigin, revalidating, cacheEntry, resResp, resErr,
                         resLoader, resData, multipart, prevPart, parts, chunks, atOldURL>>

\* notifyDone(Finish): if (reachedTerminalState()) return; ... loadDone.
FinOnePartResume ==
    /\ pc = "FinOnePart"
    /\ \/ terminal /\ GoTo("Idle")
       \/ ~terminal /\ NotifyDoneLoadDone("Finish", "FinLoadDone")

\* Mutant: notifyDone without its re-check after loadDone (L898).
FinLoadDoneNoRecheck ==
    /\ pc = "FinLoadDone"
    /\ RemoveAndRelease

\* Mutant: didFinishLoading returns without releaseResources (L794).
FinLoadDoneNoRelease ==
    /\ pc = "FinLoadDone"
    /\ \/ terminal /\ GoTo("Idle")
       \/ /\ ~terminal
          /\ registered' = FALSE
          /\ removals' = removals + 1
          /\ pc' = "Idle"
          /\ UNCHANGED <<opts, state, terminal, cancelled, cur, phase, tracker,
                         loadDones, redirectCount, followed, crossOrigin,
                         revalidating, cacheEntry, resResp, resStatus, resErr,
                         resLoader, resData, multipart, prevPart, parts, chunks, atOldURL>>

\* After loadDone: removeSubresourceLoader and releaseResources, unless
\* loadDone ended the loader (L898, L789).
FinLoadDoneResume ==
    /\ pc = "FinLoadDone"
    /\ \/ terminal /\ GoTo("Idle")
       \/ ~terminal /\ RemoveAndRelease

-----------------------------------------------------------------------------
(***************************************************************************)
(* didFail (L797-833).  Call-outs: resource->error (L827) and notifyDone's *)
(* loadDone.                                                               *)
(***************************************************************************)
DidFailStart ==
    /\ state = "Initialized"
    /\ state' = "Finishing"
    /\ revalidating' = FALSE
    /\ resErr' = TRUE
    /\ cacheEntry' = IF ~opts.preloaded /\ cacheEntry = "New" THEN "None" ELSE cacheEntry
    /\ resStatus' = "LoadError"
    /\ phase' = "Done"
    /\ pc' = "FailError"
    /\ UNCHANGED <<opts, terminal, cancelled, tracker, registered, removals,
                   loadDones, redirectCount, followed, crossOrigin, resResp,
                   resLoader, resData, multipart, prevPart, chunks, atOldURL>>

Fail ==
    /\ pc = "Idle" /\ ~terminal /\ phase \in {"Request", "Body"}
    /\ DidFailStart
    /\ UNCHANGED <<cur, parts>>

FailErrorResume ==
    /\ pc = "FailError"
    /\ \/ terminal /\ GoTo("Idle")
       \/ ~terminal /\ NotifyDoneLoadDone("Cancel", "FailLoadDone")

FailLoadDoneResume ==
    /\ pc = "FailLoadDone"
    /\ \/ terminal /\ GoTo("Idle")
       \/ ~terminal /\ RemoveAndRelease

-----------------------------------------------------------------------------
(***************************************************************************)
(* willSendRequestInternal with a redirect response (L210-345).  The       *)
(* redirect is abstracted to whether its URL is valid (L214), the verdict  *)
(* of the checks of L303-336 (updateRequestAfterRedirection, the port,     *)
(* checkRedirectionCrossOriginAccessControl, image deferral), whether its  *)
(* URL is the revalidated resource's URL (L296), and whether its target is *)
(* cross-origin.                                                           *)
(***************************************************************************)
Verdicts == {"Rejected", "Pass"}

\* Mutant: a redirect keeps the revalidation whatever its URL (L296 dropped).
KeepsRevalidationAnyURL(sameURL) == revalidating

\* A revalidation survives a redirect only to the revalidated URL (L296-301:
\* otherwise makeUnconditional and MemoryCache::revalidationFailed).
KeepsRevalidation(sameURL) == revalidating /\ sameURL

\* Mutant: the redirect limit checked with > instead of >=.
TooManyRedirectsOffByOne == redirectCount > MaxRedirects

\* m_redirectCount++ >= options().maxRedirectCount (L286).
TooManyRedirects == redirectCount >= MaxRedirects

WillSendRequest ==
    /\ pc = "Idle" /\ ~terminal /\ phase = "Request" /\ state = "Initialized"
    /\ \E validURL \in BOOLEAN, verdict \in Verdicts, sameURL \in BOOLEAN,
          crossTarget \in BOOLEAN :
       \/ /\ ~validURL \/ opts.redirect = "Error"
          /\ \E nested \in BOOLEAN : Cancel(nested)
          /\ CancelFrame
       \/ /\ validURL /\ opts.redirect = "Manual"
          /\ resResp' = [status |-> "RedirectLoc", opaque |-> TRUE, corsOK |-> TRUE]
          /\ pc' = "RedirManual"
          /\ UNCHANGED <<opts, state, terminal, cancelled, cur, phase, tracker,
                         registered, removals, loadDones, redirectCount,
                         followed, crossOrigin, revalidating, cacheEntry,
                         resStatus, resErr, resLoader, resData, multipart,
                         prevPart, parts, chunks, atOldURL>>
       \/ /\ validURL /\ opts.redirect = "Follow"
          /\ redirectCount' = redirectCount + 1
          /\ \/ /\ TooManyRedirects \/ verdict = "Rejected"
                /\ \E nested \in BOOLEAN : Cancel(nested)
                /\ UNCHANGED <<opts, pc, cur, followed, crossOrigin, resResp,
                               resData, multipart, prevPart, parts, chunks, atOldURL>>
             \/ /\ ~TooManyRedirects /\ verdict = "Pass"
                /\ revalidating' = KeepsRevalidation(sameURL)
                /\ atOldURL' = sameURL
                /\ crossOrigin' = (crossOrigin \/ crossTarget)
                /\ pc' = "RedirAwait"
                /\ UNCHANGED <<opts, state, terminal, cancelled, cur, phase,
                               tracker, registered, removals, loadDones,
                               followed, cacheEntry, resResp, resStatus, resErr,
                               resLoader, resData, multipart, prevPart, parts,
                               chunks>>

\* The continuation of resource->redirectReceived (L225-253): returns if
\* the loader ended meanwhile; a request the resource's clients nulled is
\* handed back without a cancel (L225-231), one the base class's
\* willSendRequestInternal nulled cancels (L240-243); otherwise the
\* transport follows the redirect.
RedirContinue ==
    /\ pc = "RedirAwait"
    /\ \/ GoTo("Idle")
       \/ /\ ~terminal
          /\ \E nested \in BOOLEAN : Cancel(nested)
          /\ pc' = "Idle"
          /\ UNCHANGED <<opts, cur, redirectCount, followed, crossOrigin,
                         resResp, resData, multipart, prevPart, parts, chunks, atOldURL>>
       \/ /\ ~terminal
          /\ followed' = followed + 1
          /\ pc' = "Idle"
          /\ UNCHANGED <<opts, state, terminal, cancelled, cur, phase, tracker,
                         registered, removals, loadDones, redirectCount,
                         crossOrigin, revalidating, cacheEntry, resResp,
                         resStatus, resErr, resLoader, resData, multipart,
                         prevPart, parts, chunks, atOldURL>>

\* Manual mode after responseReceived(opaque redirect): L276-285.
RedirManualResume ==
    /\ pc = "RedirManual"
    /\ \/ terminal /\ GoTo("Idle")
       \/ ~terminal /\ DidFinishLoadingStart

-----------------------------------------------------------------------------
(***************************************************************************)
(* didReceiveResponse (L384-542).  Once a response starts the body, the    *)
(* transport only sends another response for multipart content.           *)
(***************************************************************************)
\* Mutant: a non-304 response leaves the revalidation in place.
EndRevalidationForgotten == revalidating' = revalidating

\* MemoryCache::revalidationFailed for a non-304 response (L452-456).
EndRevalidation == revalidating' = FALSE

\* The end of the multipart branch (L493-499): clearResourceData, the
\* response becomes m_previousPartResponse, the DocumentLoader moves the
\* loader from its subresource loaders to its multipart ones
\* (subresourceLoaderFinishedLoadingOnePart), and didFinishLoadingOnePart
\* notifies the frame loader client.  The last two are call-outs with no
\* state change between them; the handler resumes at L503 ("RespReceived").
NextPart(r) ==
    /\ prevPart' = AsResource(r)
    /\ registered' = FALSE
    /\ pc' = "RespReceived"

\* After a non-304 ended any revalidation (L452-456): the access-control
\* check (L458-465), the redirect-shaped exceptions (L467-483), and the
\* delivery to the resource (L485-501).  A multipart load first delivers
\* the previous part: responseReceived (L488) is a call-out ("PartResponse").
ResponseAfterRevalidation(r) ==
    LET emptyLocation == opts.redirect = "Follow" /\ r.status = "RedirectEmptyLoc"
        manual        == opts.redirect = "Manual" /\ r.status \in Redirections
    IN
    \/ /\ ~r.corsOK \/ emptyLocation
       /\ \E nested \in BOOLEAN : Cancel(nested)
       /\ UNCHANGED <<opts, pc, redirectCount, followed, crossOrigin, resResp,
                      resData, multipart, prevPart, chunks, atOldURL>>
    \/ /\ r.corsOK /\ manual
       /\ resResp' = [status |-> r.status, opaque |-> TRUE, corsOK |-> TRUE]
       /\ EndRevalidation
       /\ phase' = "Body"
       /\ pc' = "RespOpaque"
       /\ UNCHANGED <<opts, state, terminal, cancelled, tracker, registered,
                      removals, loadDones, redirectCount, followed, crossOrigin,
                      cacheEntry, resStatus, resErr, resLoader, resData,
                      multipart, prevPart, chunks, atOldURL>>
    \/ /\ r.corsOK /\ ~emptyLocation /\ ~manual
       /\ EndRevalidation
       /\ phase' = "Body"
       /\ \/ /\ ~multipart
             /\ resResp' = AsResource(r)
             /\ pc' = "RespReceived"
             /\ UNCHANGED <<registered, prevPart>>
          \/ /\ multipart /\ prevPart # NoResponse
             /\ resResp' = prevPart
             /\ pc' = "PartResponse"
             /\ UNCHANGED <<registered, prevPart>>
          \/ /\ multipart /\ prevPart = NoResponse
             /\ NextPart(r)
             /\ UNCHANGED resResp
       /\ UNCHANGED <<opts, state, terminal, cancelled, tracker, removals,
                      loadDones, redirectCount, followed, crossOrigin, cacheEntry,
                      resStatus, resErr, resLoader, resData, multipart, chunks,
                      atOldURL>>

\* resource->finishLoading(resourceData()->copy()) (L490) right after the
\* previous part's responseReceived returns, with no re-check: a client
\* that cancelled inside L488 does not stop it.  finishLoading is itself a
\* call-out ("PartFinish").
PartResponseResume ==
    /\ pc = "PartResponse"
    /\ resData' = resData + 1
    /\ FinishLoadingStatus
    /\ pc' = "PartFinish"
    /\ UNCHANGED <<opts, state, terminal, cancelled, cur, phase, tracker,
                   registered, removals, loadDones, redirectCount, followed,
                   crossOrigin, revalidating, atOldURL, cacheEntry, resResp,
                   resErr, resLoader, multipart, prevPart, parts, chunks>>

\* After finishLoading: the rest of the multipart branch (L493-499).
PartFinishResume ==
    /\ pc = "PartFinish"
    /\ NextPart(cur)
    /\ UNCHANGED <<opts, state, terminal, cancelled, cur, phase, tracker,
                   removals, loadDones, redirectCount, followed, crossOrigin,
                   revalidating, atOldURL, cacheEntry, resResp, resStatus,
                   resErr, resLoader, resData, multipart, parts, chunks>>

ReceiveResponse ==
    /\ pc = "Idle" /\ ~terminal /\ state = "Initialized"
    /\ phase = "Request" \/ (phase = "Body" /\ multipart)
    /\ parts < MaxParts
    /\ parts' = parts + 1
    /\ \E r \in Responses :
       /\ r.corsOK \in CorsVerdicts
       /\ cur' = r
       /\ \/ \* containsInvalidHTTPHeaders: didFail (L391-394)
             /\ r.pre = "Invalid"
             /\ DidFailStart
          \/ \* service-worker CSP or range-flag rejection: cancel (L404-417)
             /\ r.pre = "Rejected"
             /\ \E nested \in BOOLEAN : Cancel(nested)
             /\ UNCHANGED <<opts, pc, redirectCount, followed, crossOrigin,
                            resResp, resData, multipart, prevPart, chunks, atOldURL>>
          \/ \* revalidated by a 304: revalidationSucceeded (L439-450)
             /\ r.pre = "Ok" /\ revalidating /\ r.status = "NotModified"
             /\ resResp' = AsResource(r)
             /\ revalidating' = FALSE
             /\ cacheEntry' = "Old"
             /\ phase' = "Body"
             /\ pc' = "Resp304"
             /\ UNCHANGED <<opts, state, terminal, cancelled, tracker, registered,
                            removals, loadDones, redirectCount, followed,
                            crossOrigin, resStatus, resErr, resLoader, resData,
                            multipart, prevPart, chunks, atOldURL>>
          \/ /\ r.pre = "Ok" /\ ~(revalidating /\ r.status = "NotModified")
             /\ ResponseAfterRevalidation(r)

\* After the revalidation or opaque-redirect response reached the resource:
\* ResourceLoader::didReceiveResponse unless ended, and return (L448-450,
\* L479-481).
ResponseCalloutReturn ==
    /\ pc \in {"Resp304", "RespOpaque"}
    /\ GoTo("Idle")

\* if (reachedTerminalState()) return; ResourceLoader::didReceiveResponse
\* notifies the client before it runs the policy continuation (L504-510).
RespReceivedResume ==
    /\ pc = "RespReceived"
    /\ \/ terminal /\ GoTo("Idle")
       \/ ~terminal /\ GoTo("RespPolicy")

\* The continuation of ResourceLoader::didReceiveResponse (L510-541).
RespPolicyResume ==
    LET isMultipart == cur.multipart /\ opts.type # "MainResource"
    IN
    /\ pc = "RespPolicy"
    /\ \/ terminal /\ GoTo("Idle")
       \/ \* a multipart non-image is cancelled (L517-526)
          /\ ~terminal /\ isMultipart /\ opts.type # "Image"
          /\ multipart' = TRUE
          /\ \E nested \in BOOLEAN : Cancel(nested)
          /\ pc' = "Idle"
          /\ UNCHANGED <<opts, cur, redirectCount, followed, crossOrigin,
                         resResp, resData, prevPart, parts, chunks, atOldURL>>
       \/ /\ ~terminal /\ ~(isMultipart /\ opts.type # "Image")
          /\ multipart' = (multipart \/ isMultipart)
          /\ tracker' = (tracker /\ ~isMultipart)
          /\ \/ \* an HTTP error status: Finishing, resource->error (L529-535)
                /\ HTTPStatusCodeError(resResp)
                /\ state' = "Finishing"
                /\ resStatus' = "LoadError"
                /\ pc' = "RespHTTPError"
             \/ /\ ~HTTPStatusCodeError(resResp)
                /\ pc' = "Idle"
                /\ UNCHANGED <<state, resStatus>>
          /\ UNCHANGED <<opts, terminal, cancelled, cur, phase, registered,
                         removals, loadDones, redirectCount, followed,
                         crossOrigin, revalidating, cacheEntry, resResp, resErr,
                         resLoader, resData, prevPart, parts, chunks, atOldURL>>

\* Mutant: the HTTP-error branch without its cancel().
RespHTTPErrorNoCancel ==
    /\ pc = "RespHTTPError"
    /\ GoTo("Idle")

\* cancel() after resource->error (L536); a no-op if the error ended it.
RespHTTPErrorResume ==
    /\ pc = "RespHTTPError"
    /\ \/ terminal /\ GoTo("Idle")
       \/ /\ ~terminal
          /\ \E nested \in BOOLEAN : Cancel(nested)
          /\ pc' = "Idle"
          /\ UNCHANGED <<opts, cur, redirectCount, followed, crossOrigin,
                         resResp, resData, multipart, prevPart, parts, chunks, atOldURL>>

-----------------------------------------------------------------------------
(***************************************************************************)
(* didReceiveBuffer (L552-581).  A chunk for an HTTP-error response is     *)
(* dropped (L564-565).  ResourceLoader::didReceiveBuffer notifies the      *)
(* frame loader client (L573); then the resource's data is updated, with   *)
(* no re-check of the terminal state (L575-580).                           *)
(***************************************************************************)
ReceiveBuffer ==
    /\ pc = "Idle" /\ ~terminal /\ phase = "Body"
    /\ chunks < MaxChunks
    /\ ~HTTPStatusCodeError(resResp)
    /\ chunks' = chunks + 1
    /\ pc' = "Buffer"
    /\ UNCHANGED <<opts, state, terminal, cancelled, cur, phase, tracker,
                   registered, removals, loadDones, redirectCount, followed,
                   crossOrigin, revalidating, cacheEntry, resResp, resStatus,
                   resErr, resLoader, resData, multipart, prevPart, parts, atOldURL>>

BufferResume ==
    /\ pc = "Buffer"
    /\ resData' = IF multipart THEN resData ELSE resData + 1
    /\ pc' = "Idle"
    /\ UNCHANGED <<opts, state, terminal, cancelled, cur, phase, tracker,
                   registered, removals, loadDones, redirectCount, followed,
                   crossOrigin, revalidating, cacheEntry, resResp, resStatus,
                   resErr, resLoader, multipart, prevPart, parts, chunks, atOldURL>>

-----------------------------------------------------------------------------
\* The steps a running handler takes on its own after a call-out returns.
HandlerStep ==
    \/ RedirContinue \/ RedirManualResume \/ ResponseCalloutReturn
    \/ PartResponseResume \/ PartFinishResume \/ FinPartResume
    \/ RespReceivedResume \/ RespPolicyResume \/ RespHTTPErrorResume
    \/ BufferResume \/ FinLoadingResume \/ FinOnePartResume
    \/ FinLoadDoneResume \/ FailErrorResume \/ FailLoadDoneResume

\* The events the transport and the document deliver between handlers.
TransportEvent ==
    \/ WillSendRequest \/ ReceiveResponse \/ ReceiveBuffer \/ Finish \/ Fail

Next ==
    \/ InitSucceeded \/ InitFailed
    \/ TransportEvent
    \/ HandlerStep
    \/ ExternalCancel \/ ReentrantCancel

(***************************************************************************)
(* Fairness.  CachedResource::load completes the loader's creation         *)
(* synchronously; a handler resumes after every call-out (the redirect     *)
(* continuation is a CompletionHandler, which must be called); and the     *)
(* transport ends every load it has not yet ended with a failure at the    *)
(* latest when its timeout fires.  Cancellation is never forced.           *)
(***************************************************************************)
Fairness ==
    /\ WF_vars(InitSucceeded \/ InitFailed)
    /\ WF_vars(HandlerStep)
    /\ WF_vars(Fail)

Spec == Init /\ [][Next]_vars /\ Fairness

-----------------------------------------------------------------------------
(***************************************************************************)
(* Properties.                                                             *)
(***************************************************************************)

\* Every variable has the type of the field it models.
TypeOK ==
    /\ opts \in Options
    /\ state \in {"Uninitialized", "Initialized", "Finishing"}
    /\ terminal \in BOOLEAN
    /\ cancelled \in BOOLEAN
    /\ pc \in Callouts \cup {"Idle"}
    /\ cur \in Responses
    /\ phase \in {"Request", "Body", "Done"}
    /\ tracker \in BOOLEAN
    /\ registered \in BOOLEAN
    /\ removals \in Nat
    /\ loadDones \in Seq(CompletionKinds)
    /\ redirectCount \in Nat
    /\ followed \in Nat
    /\ crossOrigin \in BOOLEAN
    /\ revalidating \in BOOLEAN
    /\ atOldURL \in BOOLEAN
    /\ cacheEntry \in {"New", "Old", "None"}
    /\ resResp \in ResourceResponses
    /\ resStatus \in {"Pending", "Loaded", "Cached", "LoadError"}
    /\ resErr \in BOOLEAN
    /\ resLoader \in BOOLEAN
    /\ resData \in Nat
    /\ multipart \in BOOLEAN
    /\ prevPart \in ResourceResponses
    /\ parts \in Nat
    /\ chunks \in Nat

\* notifyDone's registry removal (DocumentLoader::removeSubresourceLoader)
\* happens at most once, whichever of finish, failure, cancellation and a
\* reentrant cancellation from inside loadDone ends the load; and a loader
\* that was initialized has been removed once it reached its terminal state.
RemovedExactlyOnce ==
    /\ removals <= 1
    /\ terminal => (removals = 1 <=> state # "Uninitialized")

\* Once terminal, the loader holds nothing: it is out of the document's
\* registry, its request count is released and the resource no longer
\* points back at it (notifyDone and releaseResources on every exit path).
TeardownComplete ==
    terminal => ~registered /\ ~tracker /\ ~resLoader

\* The revalidated old resource is back in the memory cache
\* (revalidationSucceeded, L439-450) only for a 304 answered at its own
\* URL, and it keeps that 304 as its response: a redirect to another URL
\* ended the revalidation first (L296-301), and no later redirect,
\* response or multipart part replaces the response the old resource was
\* restored with.
CacheConsistent ==
    cacheEntry = "Old" => resResp.status = "NotModified" /\ atOldURL

\* No more than options().maxRedirectCount redirects are followed, and the
\* counter stops one past the maximum (willSendRequestInternal L286).
FollowedWithinMax ==
    /\ followed <= MaxRedirects
    /\ redirectCount <= MaxRedirects + 1
    /\ followed <= redirectCount

\* Finishing is transient: a handler that enters it (didFinishLoading,
\* didFail, an HTTP error in didReceiveResponse, willCancel) drives the
\* loader to its terminal state before it returns to the transport.
NoFinishingAtRest ==
    pc = "Idle" /\ ~terminal => state # "Finishing"

\* didReceiveBuffer's assertions (L566-568): body data reaches a loader
\* that is Initialized, whose resource is not being revalidated any more
\* and has not failed.
BodyAfterRevalidation ==
    [][pc = "Idle" /\ pc' = "Buffer" =>
         /\ state = "Initialized"
         /\ ~revalidating
         /\ resStatus # "LoadError"]_vars

\* Every load ends: whatever the transport and clients do, the loader
\* reaches its terminal state, given the transport's timeout.
EventuallyTerminal ==
    <>terminal

\* The inductive form of RemovedExactlyOnce and TeardownComplete: a loader
\* that never got past init runs no handler and holds nothing; until the
\* loader is terminal nothing removed it from the registry, it is pointed
\* at by its resource exactly when init succeeded, and it is in the
\* DocumentLoader's subresource loaders until its first multipart part
\* moves it to the multipart ones (L498);
\* once terminal, it was removed once if init had succeeded, and holds
\* nothing.  The first part is what lets notifyDone's removal at the end of
\* didFinishLoading and didFail count as the first and only one.
TeardownInv ==
    /\ TypeOK
    /\ state = "Uninitialized" =>
          /\ pc = "Idle" /\ phase # "Body" /\ ~registered /\ ~resLoader
          /\ prevPart = NoResponse
    /\ ~terminal =>
          /\ removals = 0
          /\ registered = (state # "Uninitialized" /\ prevPart = NoResponse)
          /\ resLoader = (state # "Uninitialized")
    /\ terminal =>
          /\ ~registered /\ ~tracker /\ ~resLoader
          /\ removals = IF state = "Uninitialized" THEN 0 ELSE 1

\* The call-outs of a handler that has set m_state to Finishing: inside
\* didFinishLoading, didFail, or the HTTP-error branch of
\* didReceiveResponse.
FinishingCallouts == {"FinPart", "FinLoading", "FinOnePart", "FinLoadDone", "FailError",
                      "FailLoadDone", "RespHTTPError"}

\* The inductive form of NoFinishingAtRest: a cancelled loader is terminal,
\* and a loader in Finishing that is not yet terminal is inside one of the
\* call-outs of the handler that set Finishing, whose re-checks
\* (wasCancelled() at L776, reachedTerminalState() in notifyDone, the
\* cancel() at L536) all lead to the terminal state.
FinishingInv ==
    /\ TypeOK
    /\ cancelled => terminal
    /\ ~terminal /\ state = "Finishing" => pc \in FinishingCallouts

\* The inductive form of FollowedWithinMax: a live loader has counted at
\* most the maximum number of redirects (the post-increment at L286 only
\* passes the maximum on the redirect it refuses, which ends the load),
\* and a redirect awaiting redirectReceived's continuation was counted
\* before it is followed.
RedirectInv ==
    /\ TypeOK
    /\ FollowedWithinMax
    /\ ~terminal => redirectCount <= MaxRedirects
    /\ pc = "RedirAwait" /\ ~terminal => followed < redirectCount

\* The call-outs between a new response reaching the loader and its
\* response policy: the previous multipart part's flush (L488-499) and
\* ResourceLoader::didReceiveResponse with its policy continuation.
NewResponseCallouts == {"PartResponse", "PartFinish", "RespReceived", "RespPolicy"}

\* The inductive form of CacheConsistent: a pending revalidation is at the
\* revalidated URL; once a 304 has put the old resource back in the cache
\* the load is past its request phase and is not multipart, so no later
\* redirect or response (L276, L488, L501) can replace the 304 response the
\* old resource is restored with, nor is another response on its way to
\* its policy; and a load past a non-304 response, multipart ones
\* included, is no longer revalidating.
CacheInv ==
    /\ TypeOK
    /\ CacheConsistent
    /\ revalidating => atOldURL
    /\ cacheEntry = "Old" =>
          /\ phase # "Request" /\ ~multipart /\ pc \notin NewResponseCallouts
    /\ multipart \/ pc \in NewResponseCallouts => ~revalidating

\* The inductive form of BodyAfterRevalidation: a load in its body phase
\* is no longer revalidating (L445, L452-456 end it before the phase
\* starts, and only the request phase's redirects touch it); until the
\* load is done its resource has not failed, unless it ended or the
\* HTTP-error branch of didReceiveResponse is about to cancel it
\* (L529-536); and a load in its body phase is, with the same exceptions,
\* Initialized.
BodyInv ==
    /\ TypeOK
    /\ phase = "Body" => ~revalidating
    /\ phase # "Done" /\ ~terminal /\ pc # "RespHTTPError" =>
          resStatus # "LoadError"
    /\ phase = "Body" /\ ~terminal /\ pc # "RespHTTPError" =>
          state = "Initialized"

\* The refinement mapping to the abstract lifecycle: a loader is Created
\* until init succeeds, Live until it reaches its terminal state, then
\* Ended; the request count is m_requestCountTracker and the resource's
\* back pointer is the resource's loader.
LifeOf == IF terminal THEN "Ended"
          ELSE IF state = "Uninitialized" THEN "Created" ELSE "Live"

LC == INSTANCE LoaderLifecycle WITH life <- LifeOf, counted <- tracker,
                                    attached <- resLoader

\* The loader implements the abstract lifecycle: whatever order handlers,
\* call-outs and reentrant cancels run in, it is registered and attached
\* only from a successful init to its end, removed from the
\* DocumentLoader once, holds the request count no longer than it lives,
\* never comes back from its terminal state, and ends.
ImplementsLifecycle == LC!Spec

(***************************************************************************)
(* What the spec says of the loader and the code does not do; each is     *)
(* checked by a run that expects a violation.                              *)
(***************************************************************************)

\* Spec 4.7/8: termination notifies the document once ("no double
\* notify"): CachedResourceLoader::loadDone is called at most once.
LoadDoneOnce ==
    Len(loadDones) <= 1

\* Spec 3: once terminal, no further mutation of the CachedResource.
NoResourceMutationAfterTerminal ==
    [][terminal => UNCHANGED <<resData, resResp, resStatus, resErr, cacheEntry>>]_vars

\* Spec 8: a response the cross-origin access-control check rejects is
\* never delivered to the resource as its response.
CorsRejectedNeverDelivered ==
    resResp.corsOK

\* Spec 7: a load that ends in error leaves no stale entry in the memory
\* cache (failure outside a preload, cancellation, HTTP error status).
FailedLoadEvicted ==
    resStatus = "LoadError" /\ ~opts.preloaded => cacheEntry # "New"
====
