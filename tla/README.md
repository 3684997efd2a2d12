# Verification of WebCore's SubresourceLoader

This directory holds TLA+ models of the code under `src/`, TLC configurations
that model-check them, and TLAPS proofs. The repository's source under `src/`
is three files:

| File | What it is | Modelled |
|------|------------|----------|
| `loader/SubresourceLoader.cpp` | the loader of one subresource (image, script, XHR...): a reentrant state machine driven by the network transport and cancelled by clients | yes: `SubresourceLoader.tla`, `LoaderLifecycle.tla` (what it promises), `CrossOriginRedirect.tla` (its origin bookkeeping over a redirect chain), compared with the Fetch standard's decisions) |
| `dom/PointerEvent.h` | an event record with constructors, accessors and pointer-type predicates | no: it changes no state after construction |
| `css/color/CSSUnresolvedColor.cpp` | a variant over color kinds with dispatching methods | no: it consists of pure functions of the variant, and spec.md puts color serialization out of scope |

## The system

A `SubresourceLoader` drives one `CachedResource`.

- **The transport's handlers.** The network transport delivers, in order:
  - redirects (`willSendRequestInternal`);
  - responses (`didReceiveResponse`); there is more than one only for multipart content;
  - body chunks (`didReceiveBuffer`);
  - and either the end (`didFinishLoading`) or a failure (`didFail`).
- **The document's cancel.** The document can cancel a live loader at any time (`cancelIfNotFinishing`).
- **Reentrancy.** All of this happens on one thread, but every call that notifies someone else can synchronously cancel the very loader that made it. This covers:
  - the resource's clients (`responseReceived`, `redirectReceived`, `finishLoading`, `error`);
  - the base class `ResourceLoader`, which notifies the frame loader client;
  - and `CachedResourceLoader::loadDone` inside `notifyDone`.

  After each of these calls the code re-checks `reachedTerminalState()` or `wasCancelled()`, at some call sites and not at others. Getting those re-checks right is what makes the loader hard to test.
- **The callees.** The loader calls `ResourceLoader`, `CachedResource`, `MemoryCache`, `CachedResourceLoader` and `DocumentLoader`. None of them is in this repository; the parts the loader uses are modelled from the spec.

## The model: `SubresourceLoader.tla`

### State

| Variable | Code |
|----------|------|
| `state` | `m_state` |
| `terminal`, `cancelled` | `ResourceLoader::reachedTerminalState()`, `wasCancelled()` |
| `tracker` | `m_requestCountTracker` engaged |
| `registered`, `removals` | membership in `DocumentLoader`'s loader set; calls of `removeSubresourceLoader` |
| `loadDones` | the sequence of `loadDone(type)` calls |
| `redirectCount`, `followed` | `m_redirectCount`; redirects handed back to the transport |
| `crossOrigin`, `revalidating`, `cacheEntry` | `CachedResource::isCrossOrigin`, `resourceToRevalidate`; what `MemoryCache` holds for the key |
| `resResp`, `resStatus`, `resErr`, `resLoader`, `resData` | the resource's response, status, error flag, loader back pointer, and data versions |
| `multipart`, `prevPart` | `m_loadingMultipartContent`, `m_previousPartResponse` |
| `atOldURL` | the request's URL is still the revalidated resource's URL (it changes on a redirect, L296) |
| `opts` | the load's fetch options, resource type and preload flag, chosen in `Init` |

Data is abstracted:

- A response is a record of what the handlers test:
  - whether the early checks reject it (invalid headers, service-worker CSP, the range flag);
  - its status class;
  - the access-control verdict;
  - the multipart flag.
- A redirect is a verdict of the checks at L303-336, whether its URL is valid (L214), whether it stays at the URL being revalidated (L296), and whether it goes cross-origin.
- The resource's data buffer is a count of versions. Whether `resourceData()` is null is not distinguished, so the flush at L490 (`resourceData()->copy()`) after a cancel inside L488, where the buffer may already be released, is shown only as a mutation after the end (hazard at L490), not as a null dereference.

### Call-outs as resume points

Each handler is split at its call-outs. `pc` names the call-out that the running handler is inside:

- The handler's first step runs up to the call-out (for example `DidFinishLoadingStart`).
- `ReentrantCancel` is enabled while `pc` is a call-out. It models a client that calls `ResourceLoader::cancel` there. `pc` stays where it is, because the cancel returns into the handler.
- The resume action (for example `FinLoadingResume`) makes the code's own re-check and continues.

Every call-out of the modelled handlers is a resume point of its own, the two of the multipart flush (L488, L490) and of `didFinishLoading` (L776, L777) included, so a client's cancel can land at each of them, also where the code has no re-check.

### Cancel

`Cancel(nested)` is `ResourceLoader::cancel` as one step:

1. `willCancel`, which moves to Finishing, ends any revalidation, records the error and removes the resource from the cache, but only if the loader is Initialized;
2. then `didCancel`, `notifyDone` and `releaseResources`.

`nested` is a second cancel entered from inside `loadDone`, which reports `loadDone` twice. `Cancel` itself is not split at its own call-outs, because the nested outcomes it can have are exactly these two:

- a cancel from inside `loadDone` finds the loader still in the DocumentLoader's set and not yet terminal, so it runs `didCancel` and `notifyDone` again: two `loadDone`s, and one removal (the outer `removeSubresourceLoader` finds the loader gone);
- a cancel from inside `cancelLoad` or the resource's `error` call runs before `didCancel`; the outer `didCancel` then finds the loader terminal, so the result is that of one cancel;
- a cancel from inside `removeSubresourceLoader` is impossible: the loader is already out of the set and in Finishing, where `cancelIfNotFinishing` does nothing.

### Actions and the source lines they model

| Action | Lines |
|--------|-------|
| `InitSucceeded`, `InitFailed` | `init`, L186-203 |
| `WillSendRequest`, `RedirContinue`, `RedirManualResume` | L210-345 |
| `ReceiveResponse`, `ResponseAfterRevalidation`, `ResponseCalloutReturn`, `RespReceivedResume`, `RespPolicyResume`, `RespHTTPErrorResume` | L384-541 |
| `ReceiveBuffer`, `BufferResume` | L552-580 |
| `Finish`, `FinLoadingResume`, `FinOnePartResume`, `FinLoadDoneResume` | L732-795 |
| `Fail`, `FailErrorResume`, `FailLoadDoneResume` | L797-833 |
| `ExternalCancel` | L178-184 |
| `ReentrantCancel` | modelled from the spec |

`PROJECT.json`'s `map` gives each definition's exact lines.

The operators whose names end in a bug description are defined just before the definition they could replace:

- `WillCancelIOS`
- `KeepsRevalidationAnyURL`
- `TooManyRedirectsOffByOne`
- `FinLoadDoneNoRecheck`
- `FinLoadDoneNoRelease`
- `RemoveAndReleaseKeepLoader`
- `RespHTTPErrorNoCancel`
- `EndRevalidationForgotten`

Each is a plausible bug in the code. Replacing its definition with it makes TLC find the property listed with it in `PROJECT.json`'s `mutants` violated.

### Fairness

- **`WF_vars(InitSucceeded \/ InitFailed)`.** `CachedResource::load` completes the loader's creation.
- **`WF_vars(HandlerStep)`.** A handler always resumes after its call-out. The redirect and response-policy continuations are `CompletionHandler`s, which must be called.
- **`WF_vars(Fail)`.** The transport ends every load at the latest by its timeout.
- **No fairness on cancellation.** Nothing forces a cancel.

## The abstract lifecycle: `LoaderLifecycle.tla`

`LoaderLifecycle` states what one loader promises the objects around it, with every handler, call-out and reentrant cancel abstracted away. Its variables are `life` (Created, Live, Ended), `registered`, `counted`, `attached` and `removals`. Its steps are:

- `Start`: init succeeds, the loader is registered and attached to its resource;
- `Abort`: init fails, and the loader ends without having been registered;
- `ReleaseCount`: the request count is released early (multipart, or the start of the final notification);
- `FinishOnePart`: a live loader leaves the DocumentLoader's subresource loaders for its multipart loaders (L498);
- `End`: the loader is removed once and holds nothing any more.

Its `Spec` adds weak fairness on creation and on `End`, so every loader ends.

`SubresourceLoader.tla` maps onto it through `LC == INSTANCE LoaderLifecycle WITH life <- LifeOf, counted <- tracker, attached <- resLoader`. `LifeOf` is Ended once `terminal`, Created while `m_state` is Uninitialized, and Live otherwise. `registered` and `removals` map to themselves. Every handler step, call-out and resume of the detailed model is a stutter of the abstract one, except:

- `InitSucceeded` and `InitFailed`, which are `Start` and `Abort`;
- the early release of `m_requestCountTracker` (L521, `notifyDone`), which is `ReleaseCount`;
- the move to the next multipart part (`NextPart`, L493-499), which is `FinishOnePart` while the loader is still registered;
- every `Cancel` of an initialized loader and the final `RemoveAndRelease` of `didFinishLoading` and `didFail`, which are `End`.

The `loadDone` double report (the `load_done_once` run) does not break the mapping, because the abstract lifecycle says nothing of `loadDone`.

## Cross-origin redirects: `CrossOriginRedirect.tla`

This module follows one loader's cross-origin state across a chain of redirects:

- `Redirect(loc, creds, acao)` is `updateRequestAfterRedirection`'s same-origin refusal (L310) and then `checkRedirectionCrossOriginAccessControl` (L667-722). `creds` is a Location with embedded credentials; the scheme half of the URL check at L677 is not modelled (every Location is HTTP(S)). It updates the sticky cross-origin flag, makes `m_origin` opaque on a hop to a new origin of a load that already was cross-origin, applies `redirectAsGETIfNeeded` to the method (L707), and then sets the Origin header as the code does: in CORS mode to a new origin the headers are rebuilt with `m_origin` (L712-715, `ResetsAccessControl`), and `addHTTPOriginIfNeeded` adds one only when there is none and the method is not GET (L719, `AddOriginIfNeeded`).
- `FinalResponse(acao)` is `checkResponseCrossOriginAccessControl` (L644-660).

Origins are model values; `SecurityOrigin::canRequest` is same-origin comparison, and an opaque origin can request nothing. Access-Control-Allow-Credentials is left out: Fetch requires it exactly where the loader does, so it changes no comparison. Next to the code's variables the module keeps the two flags the Fetch standard's HTTP-redirect fetch keeps: the tainted-origin flag (`tainted`) and the "cors" response tainting (`corsTainted`). They change only when a redirect is followed.

The standard's decisions are definitions of the module: `FetchOriginValue` (the serialized request origin), `FetchAllowsRedirect` and `FetchAllowsResponse`. The properties compare the code with them:

- **`OriginTaintedAsFetch`.** `m_origin` is opaque exactly when Fetch's tainted-origin flag is set, and the Origin header of a CORS request is Fetch's serialized origin (`"null"` once tainted). A mutant that rebuilds the headers only on the first cross-origin hop breaks it.
- **`RedirectAsFetch`** (an action property). Every redirect the loader follows, Fetch follows, and every one it refuses, Fetch refuses.
- **`ResponseAsFetch`** (an action property). The final response is accepted exactly when Fetch's CORS check passes.
- **`CrossOriginInv`.** The inductive form of all of them. While the load runs, the sticky flag says whether a URL of another origin was fetched, and `m_origin` is the document's origin until the chain is tainted.

## Runs

`MC_SubresourceLoader.tla` sets the bounds:

- one redirect (so both a followed redirect and a refused "too many" one occur);
- three responses: the first multipart response still goes through the single-part branch (`m_loadingMultipartContent` is set in its policy continuation, L517), the second only records itself as the previous part and moves the loader to the multipart set (L493-499), and the third flushes the second through `responseReceived` and `finishLoading` (L488-490);
- one chunk, which can land after a part boundary;
- all three resource types and all three redirect modes.

`Init` also lets the options, the cross-origin flag and the revalidation flag range over all their values.

| Run | Expect | What it shows |
|-----|--------|---------------|
| `loader` | pass (1,342,736 states) | `TypeOK` and the deep invariants below hold, every load ends (`EventuallyTerminal`), and the loader implements `LoaderLifecycle`'s full `Spec`, fairness included (`ImplementsLifecycle`) |
| `cross_origin` | pass (564 states) | over every chain of up to three redirects between three origins (`MC_CrossOriginRedirect`), in all fetch modes, with and without credentials, for GET and POST, the code decides as Fetch does |
| `tainted_origin_hidden` | violation | `TaintedOriginHidden`: outside CORS mode a POST keeps the Origin header of its first request after `m_origin` became opaque, because L712-715 rebuild headers only in CORS mode and L719 adds a header only when none is present |
| `load_done_once` | violation | `LoadDoneOnce`: a cancel from inside `loadDone` makes `notifyDone` call `loadDone` twice |
| `mutation_after_terminal` | violation | `NoResourceMutationAfterTerminal`: `didReceiveBuffer` updates the resource after a reentrant cancel (no re-check after L573) |
| `cors_304` | violation | `CorsRejectedNeverDelivered`: a 304 revalidation response skips `checkResponseCrossOriginAccessControl` |
| `failed_load_evicted` | violation | `FailedLoadEvicted`: the HTTP-error path sets Finishing before `cancel()`, so `willCancel` keeps the errored resource in the memory cache |

The properties of `loader`:

- **`RemovedExactlyOnce`.** The loader is removed from the DocumentLoader at most once, and once if init succeeded. This covers all ways a load ends, including nested cancels.
- **`TeardownComplete`.** A terminal loader holds no registration, request count or resource back pointer.
- **`TeardownInv`.** The inductive form of the two properties above.
- **`CacheConsistent`.** The old resource of a revalidation is back in the memory cache only for a 304 answered at its own URL, and it keeps that 304 as its response. A redirect to another URL must end the revalidation first (L296-301), and no later redirect, response or multipart part may replace the response. Dropping the URL comparison at L296 breaks it.
- **`FollowedWithinMax`.** The redirect limit, at the off-by-one boundary of L286.
- **`NoFinishingAtRest`.** Finishing is never the state in which a handler returns to the transport.
- **`FinishingInv`.** A cancelled loader is terminal, and a live loader in Finishing is inside a call-out of `didFinishLoading`, `didFail` or the HTTP-error branch. This is the inductive form of `NoFinishingAtRest`.
- **`RedirectInv`.** A live loader's `m_redirectCount` stays within the limit, and a redirect awaiting its continuation has been counted. This is the inductive form of `FollowedWithinMax`.
- **`CacheInv`.** A pending revalidation is at the revalidated URL; after a 304 restored the old resource, the loader is past the request phase, single-part and not between a new response and its policy; and no revalidation is pending while a new or multipart response is delivered. This is the inductive form of `CacheConsistent`.
- **`ImplementsLifecycle`.** The refinement of `LoaderLifecycle` described above, with its liveness.
- **`BodyAfterRevalidation`.** The assertions of L566-568: body data arrives only when the loader is Initialized, not revalidating, and the load has not failed.
- **`BodyInv`.** Its inductive form. A load in the body phase is not revalidating. Until the load is done, its resource has not failed, unless the load ended or the HTTP-error branch (L529-536) is about to cancel it. A load in the body phase is Initialized, with the same exceptions.

The bounds are enough for each property:

- **Nested cancels.** Every call-out is reached with and without a nested cancel.
- **Redirect limit.** The limit is exercised both below and at its boundary.
- **Multipart.** A third response is the first that flushes a previous part, so three is the least bound that reaches L488-490.
- **Chunks.** One chunk after any part boundary is what `BodyAfterRevalidation` needs; a second chunk repeats the same shape.
- **Larger bounds.** Larger bounds repeat the same shapes.

## Proofs (`SubresourceLoader_proofs.tla`, TLAPS)

The proofs hold for every value of the constants that `ConstantsAssumption` allows.

- **`TypeCorrect`** proves `Spec => []TypeOK`. It rests on one lemma per kind of step:
  - `CancelTyped` and `CancelStepTyped`;
  - `GoToTyped`, `NotifyDoneTyped` and `RemoveAndReleaseTyped`;
  - `ResponseAfterRevalidationTyped`;
  - and `TypeStep`, which has one case per action.
- **`TeardownCorrect`** proves `Spec => []TeardownInv`. `TeardownInv` strengthens `RemovedExactlyOnce` and `TeardownComplete` so that it is inductive:
  - A loader still in Uninitialized runs no handler, is not in the body phase, is not registered, and is not its resource's loader.
  - Before the loader is terminal, nothing has removed it, it is pointed at exactly when init succeeded, and it is in the DocumentLoader's subresource set exactly when init succeeded and no multipart part has moved it to the multipart set (L498).
  - Once terminal, it was removed once if init succeeded, and holds nothing.

  The first conjunct is what makes the removal at the end of `didFinishLoading` and `didFail` the first one. The second makes `Cancel` from Uninitialized harmless.

  The step proof (`TeardownStep`) sorts every action into one of three kinds:
  - a cancel (`CancelTeardown`, `InitializedTeardown`);
  - a quiet step of an initialized loader, which leaves the registry, the back pointer and the removal count alone and only releases the request count (`QuietTeardown`);
  - the move to the next multipart part, which takes the loader out of the registry and records a previous part (`NextPartTeardown`); this is why the second conjunct says "registered exactly when initialized and no previous part is recorded";
  - or the final removal (`RemoveAndReleaseTeardown`).
- **`RemovedOnce`** and **`TornDown`** derive `RemovedExactlyOnce` and `TeardownComplete` from `TeardownCorrect`.
- **`Refinement`** proves `Spec => LC!SafetySpec`: the initial state maps to `LoaderLifecycle`'s, and every step maps to one of its steps or to a stutter. It uses `TeardownInv`, which says that a loader that is not terminal has not been removed and is registered exactly when it is initialized. The lemmas follow the same kinds of step: `CancelEnds`, `QuietRefines`, `NextPartRefines` (the abstract `FinishOnePart`, or a stutter when the loader is out of the set already) and `RemoveAndReleaseEnds`.
- **`FinishingCorrect`** proves `Spec => []FinishingInv`; **`FinishingTransient`** derives `NoFinishingAtRest` from it. `NoFinishingAtRest` alone is not inductive: a call-out that is resumed needs to know it was entered from Finishing.
- **`RedirectCorrect`** proves `Spec => []RedirectInv`; **`RedirectsBounded`** derives `FollowedWithinMax`. The strengthening is needed because `followed` only grows in `RedirContinue`, after the counter was checked in `WillSendRequest`.
- **`CacheCorrect`** proves `Spec => []CacheInv`; **`CacheKept`** derives `CacheConsistent`. `CacheConsistent` alone is not inductive: a 304 needs to know that the revalidation it ends is at the original URL (`revalidating => atOldURL`, kept by L296-301 on every redirect), and a new response, a flushed part or the last part of `didFinishLoading` after a 304 would overwrite the NotModified response, which `CacheInv` shows cannot come.
- **`BodyCorrect`** proves `Spec => []BodyInv`, and **`BodyAsserted`** derives the action property `BodyAfterRevalidation` from it.
  - `BufferEntry` shows that the only step from between handlers into `didReceiveBuffer`'s call-out is `ReceiveBuffer`. That step's guard (body phase, not terminal, no handler running) then meets `BodyInv`.
  - `BodyInv` has to speak of the request phase too. A 304 moves a request-phase load into the body phase without touching the resource's status, so the status must already be clean before the body starts.

`CrossOriginRedirect_proofs.tla` proves, for every set of origins and every redirect bound:

- **`InvCorrect`** (`Spec => []CrossOriginInv`);
- **`OriginTainted`** (`OriginTaintedAsFetch`);
- **`TypeCorrect`** (`TypeOK`), from `InvCorrect`;
- **`RedirectFetch`** and **`ResponseFetch`** (the two action properties), from the lemmas `RedirectVerdict` and `ResponseVerdict`, which decide one step given `CrossOriginInv`;

What is only model-checked:

- **Liveness**: `EventuallyTerminal`, and the fairness part of `ImplementsLifecycle` (`LoaderLifecycle`'s `WF` conditions). They need fairness and ENABLED, which TLAPS does not handle here.

## Not modelled

- `PointerEvent.h`, which contains no state machine.
- `CSSUnresolvedColor.cpp`, whose pure dispatch functions are not modelled yet.
- The QUICK_LOOK preview loader, which JavaFX does not build.
- The iOS branches of `willCancel` and `releaseResources`. They are not in this build; `WillCancelIOS` shows what they would break.
- Resource timing, referrer policy and logging, which have no effect on the loader's control flow.
- The interaction of `CrossOriginRedirect` with the rest of the loader: `SubresourceLoader.tla` abstracts a redirect's cross-origin check to its verdict, and `CrossOriginRedirect.tla` leaves out cancels and call-outs. The two share only the verdict.
- The headers other than Origin that `cleanHTTPRequestHeadersForAccessControl` removes, and the credential stripping, which change header contents and no decision.
- The service-worker branches, which this build does not enable.
- Several loaders sharing one `CachedResourceLoader` request count. The count lives in `CachedResourceLoader`, which is not in this repository, so a model of it would be modelled from the spec only.

## Plan

1. **Several loaders of one document.** They share the `CachedResourceLoader` request count, and the model would check that the count returns to zero.
2. **Composing the two loader modules.** The cross-origin verdict of `WillSendRequest` would be computed by `CrossOriginRedirect`'s `Redirect`, so that cancels inside `redirectReceived` meet the origin bookkeeping.
3. **An abstract loader lifecycle with results.** Pending, then Loaded, Failed or Cancelled, reported once. It would be stated as where the `loadDone` finding breaks it.
