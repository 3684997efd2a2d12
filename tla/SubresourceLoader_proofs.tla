--------------------- MODULE SubresourceLoader_proofs ----------------------
(***************************************************************************)
(* Proofs about the SubresourceLoader model, for every value of the        *)
(* constants that ConstantsAssumption allows.                              *)
(***************************************************************************)
EXTENDS SubresourceLoader, TLAPS

\* Appending one or two completion kinds keeps a sequence of kinds.
LEMMA AppendKinds ==
    ASSUME NEW s \in Seq(CompletionKinds)
    PROVE  /\ Append(s, "Cancel") \in Seq(CompletionKinds)
           /\ Append(s, "Finish") \in Seq(CompletionKinds)
           /\ s \o <<"Cancel", "Cancel">> \in Seq(CompletionKinds)
BY DEF CompletionKinds

\* Cancel, from any typed state, leads to a typed state.
LEMMA CancelTyped ==
    ASSUME TypeOK, NEW nested \in BOOLEAN, Cancel(nested)
    PROVE  /\ state' \in {"Uninitialized", "Initialized", "Finishing"}
           /\ revalidating' \in BOOLEAN /\ resErr' \in BOOLEAN
           /\ cacheEntry' \in {"New", "Old", "None"}
           /\ resStatus' \in {"Pending", "Loaded", "Cached", "LoadError"}
           /\ loadDones' \in Seq(CompletionKinds)
           /\ removals' \in Nat
           /\ registered' \in BOOLEAN /\ tracker' \in BOOLEAN
           /\ resLoader' \in BOOLEAN /\ terminal' \in BOOLEAN
           /\ cancelled' \in BOOLEAN
           /\ phase' \in {"Request", "Body", "Done"}
<1> DEFINE didCancel == state # "Uninitialized"
<1>0. /\ state \in {"Uninitialized", "Initialized", "Finishing"}
      /\ cacheEntry \in {"New", "Old", "None"}
      /\ resStatus \in {"Pending", "Loaded", "Cached", "LoadError"}
      /\ loadDones \in Seq(CompletionKinds)
      /\ removals \in Nat
      /\ revalidating \in BOOLEAN /\ resErr \in BOOLEAN
      /\ registered \in BOOLEAN /\ resLoader \in BOOLEAN
  BY DEF TypeOK
<1>1. loadDones' \in Seq(CompletionKinds)
  <2>1. CASE ~didCancel
    BY <1>0, <2>1 DEF Cancel
  <2>2. CASE didCancel /\ nested
    BY <1>0, <2>2, AppendKinds DEF Cancel
  <2>3. CASE didCancel /\ ~nested
    BY <1>0, <2>3, AppendKinds DEF Cancel
  <2>4. QED
    BY <2>1, <2>2, <2>3
<1>2. WillCancel
  BY DEF Cancel
<1>3. /\ state' \in {"Uninitialized", "Initialized", "Finishing"}
      /\ revalidating' \in BOOLEAN /\ resErr' \in BOOLEAN
      /\ cacheEntry' \in {"New", "Old", "None"}
  BY <1>0, <1>2 DEF WillCancel
<1>4. /\ resStatus' \in {"Pending", "Loaded", "Cached", "LoadError"}
      /\ removals' \in Nat
  BY <1>0 DEF Cancel
<1>6. /\ registered' \in BOOLEAN /\ tracker' \in BOOLEAN
      /\ resLoader' \in BOOLEAN /\ terminal' \in BOOLEAN
      /\ cancelled' \in BOOLEAN
      /\ phase' \in {"Request", "Body", "Done"}
  BY Zenon DEF Cancel
<1>5. QED
  BY <1>1, <1>3, <1>4, <1>6

\* The records the model stores as the resource's response are typed.
LEMMA ResponsesTyped ==
    /\ NoResponse \in ResourceResponses
    /\ \A r \in Responses : AsResource(r) \in ResourceResponses
    /\ \A st \in Statuses :
          [status |-> st, opaque |-> TRUE, corsOK |-> TRUE] \in ResourceResponses
BY DEF NoResponse, ResourceResponses, Responses, AsResource, Statuses

\* A step made of Cancel and typed values for the variables Cancel leaves
\* to its caller is typed.
LEMMA CancelStepTyped ==
    ASSUME TypeOK, NEW nested \in BOOLEAN, Cancel(nested),
           opts' = opts, cur' \in Responses, pc' \in Callouts \cup {"Idle"},
           redirectCount' \in Nat, followed' \in Nat, crossOrigin' \in BOOLEAN,
           resResp' \in ResourceResponses, resData' \in Nat,
           multipart' \in BOOLEAN, prevPart' \in ResourceResponses,
           parts' \in Nat, chunks' \in Nat, atOldURL' \in BOOLEAN
    PROVE  TypeOK'
<1>1. opts \in Options
  BY DEF TypeOK
<1> QED
  BY <1>1, CancelTyped DEF TypeOK

\* The shared handler steps keep the state typed.
LEMMA GoToTyped ==
    ASSUME TypeOK, NEW label \in Callouts \cup {"Idle"}, GoTo(label)
    PROVE  TypeOK'
BY DEF GoTo, TypeOK

LEMMA NotifyDoneTyped ==
    ASSUME TypeOK, NEW kind \in CompletionKinds, NEW next \in Callouts,
           NotifyDoneLoadDone(kind, next)
    PROVE  TypeOK'
<1>1. loadDones' \in Seq(CompletionKinds)
  BY AppendKinds DEF NotifyDoneLoadDone, TypeOK, CompletionKinds
<1>2. pc' \in Callouts \cup {"Idle"} /\ tracker' \in BOOLEAN
  BY DEF NotifyDoneLoadDone
<1> QED
  BY <1>1, <1>2 DEF NotifyDoneLoadDone, TypeOK

LEMMA RemoveAndReleaseTyped ==
    ASSUME TypeOK, RemoveAndRelease
    PROVE  TypeOK'
<1>1. removals' \in Nat
  BY DEF RemoveAndRelease, TypeOK
<1>2. /\ registered' \in BOOLEAN /\ tracker' \in BOOLEAN
      /\ resLoader' \in BOOLEAN /\ terminal' \in BOOLEAN
      /\ pc' \in Callouts \cup {"Idle"}
  BY DEF RemoveAndRelease
<1>3. UNCHANGED <<opts, state, cancelled, cur, phase, loadDones, redirectCount,
                  followed, crossOrigin, revalidating, cacheEntry, resResp,
                  resStatus, resErr, resData, multipart, prevPart, parts, chunks,
                  atOldURL>>
  BY DEF RemoveAndRelease
<1> QED
  BY <1>1, <1>2, <1>3 DEF TypeOK

\* The part a multipart load moves on to is a response of the transport,
\* never the null response, and the DocumentLoader no longer holds the
\* loader among its subresource loaders.
LEMMA NextPartMoves ==
    ASSUME NEW r \in Responses, NextPart(r)
    PROVE  /\ prevPart' \in ResourceResponses /\ prevPart' # NoResponse
           /\ registered' = FALSE /\ pc' = "RespReceived"
<1>1. AsResource(r) \in ResourceResponses /\ AsResource(r).status \in Statuses
  BY ResponsesTyped DEF AsResource, Responses
<1>2. AsResource(r) # NoResponse
  BY <1>1 DEF NoResponse, Statuses
<1> QED
  BY <1>1, <1>2 DEF NextPart

\* Delivering a response after its revalidation ended keeps the state typed.
LEMMA ResponseAfterRevalidationTyped ==
    ASSUME TypeOK, NEW r \in Responses, cur' \in Responses, parts' \in Nat,
           ResponseAfterRevalidation(r)
    PROVE  TypeOK'
<1>0. /\ opts \in Options /\ pc \in Callouts \cup {"Idle"}
      /\ redirectCount \in Nat /\ followed \in Nat /\ crossOrigin \in BOOLEAN
      /\ resResp \in ResourceResponses /\ resData \in Nat
      /\ multipart \in BOOLEAN /\ prevPart \in ResourceResponses
      /\ chunks \in Nat /\ atOldURL \in BOOLEAN
  BY DEF TypeOK
<1>1. CASE /\ \E nested \in BOOLEAN : Cancel(nested)
           /\ UNCHANGED <<opts, pc, redirectCount, followed, crossOrigin, resResp,
                          resData, multipart, prevPart, chunks, atOldURL>>
  BY <1>0, <1>1, CancelStepTyped
<1>2. CASE /\ resResp' = [status |-> r.status, opaque |-> TRUE, corsOK |-> TRUE]
           /\ EndRevalidation
           /\ phase' = "Body"
           /\ pc' = "RespOpaque"
           /\ UNCHANGED <<opts, state, terminal, cancelled, tracker, registered,
                          removals, loadDones, redirectCount, followed, crossOrigin,
                          cacheEntry, resStatus, resErr, resLoader, resData,
                          multipart, prevPart, chunks, atOldURL>>
  <2>1. resResp' \in ResourceResponses
    BY <1>2, ResponsesTyped DEF Responses
  <2>2. /\ revalidating' \in BOOLEAN /\ phase' = "Body"
        /\ pc' \in Callouts \cup {"Idle"}
    BY <1>2 DEF EndRevalidation, Callouts
  <2>3. UNCHANGED <<opts, state, terminal, cancelled, tracker, registered,
                    removals, loadDones, redirectCount, followed, crossOrigin,
                    cacheEntry, resStatus, resErr, resLoader, resData,
                    multipart, prevPart, chunks, atOldURL>>
    BY <1>2
  <2> QED
    BY <2>1, <2>2, <2>3 DEF TypeOK
<1>3. CASE /\ EndRevalidation
           /\ phase' = "Body"
           /\ \/ /\ resResp' = AsResource(r) /\ pc' = "RespReceived"
                 /\ UNCHANGED <<registered, prevPart>>
              \/ /\ resResp' = prevPart /\ pc' = "PartResponse"
                 /\ UNCHANGED <<registered, prevPart>>
              \/ NextPart(r) /\ UNCHANGED resResp
           /\ UNCHANGED <<opts, state, terminal, cancelled, tracker, removals,
                          loadDones, redirectCount, followed, crossOrigin,
                          cacheEntry, resStatus, resErr, resLoader, resData,
                          multipart, chunks, atOldURL>>
  <2>1. /\ resResp' \in ResourceResponses /\ prevPart' \in ResourceResponses
        /\ registered' \in BOOLEAN /\ pc' \in Callouts \cup {"Idle"}
    BY <1>0, <1>3, ResponsesTyped, NextPartMoves DEF Callouts, TypeOK
  <2>2. revalidating' \in BOOLEAN /\ phase' = "Body"
    BY <1>3 DEF EndRevalidation
  <2>3. UNCHANGED <<opts, state, terminal, cancelled, tracker, removals,
                    loadDones, redirectCount, followed, crossOrigin,
                    cacheEntry, resStatus, resErr, resLoader, resData,
                    multipart, chunks, atOldURL>>
    BY <1>3
  <2> QED
    BY <2>1, <2>2, <2>3 DEF TypeOK
<1> QED
  BY <1>1, <1>2, <1>3 DEF ResponseAfterRevalidation

\* The initial states are typed.
LEMMA InitTyped == Init => TypeOK
<1> SUFFICES ASSUME Init PROVE TypeOK
  OBVIOUS
<1>1. cur \in Responses
  BY DEF Init, Responses, Statuses
<1>2. resResp \in ResourceResponses /\ prevPart \in ResourceResponses
  BY ResponsesTyped DEF Init
<1>3. loadDones \in Seq(CompletionKinds)
  BY DEF Init
<1> QED
  BY <1>1, <1>2, <1>3 DEF Init, TypeOK

\* Every step of the loader, from a typed state, leads to a typed state.
LEMMA TypeStep == TypeOK /\ [Next]_vars => TypeOK'
<1> SUFFICES ASSUME TypeOK, [Next]_vars PROVE TypeOK'
  OBVIOUS
<1>0. /\ opts \in Options /\ cur \in Responses
      /\ pc \in Callouts \cup {"Idle"}
      /\ redirectCount \in Nat /\ followed \in Nat /\ crossOrigin \in BOOLEAN
      /\ resResp \in ResourceResponses /\ resData \in Nat
      /\ multipart \in BOOLEAN /\ prevPart \in ResourceResponses
      /\ parts \in Nat /\ chunks \in Nat /\ atOldURL \in BOOLEAN
  BY DEF TypeOK
<1>1. CASE InitSucceeded
  BY <1>1 DEF InitSucceeded, TypeOK
<1>2. CASE InitFailed
  BY <1>0, <1>2, CancelStepTyped DEF InitFailed, CancelFrame
<1>3. CASE ExternalCancel
  BY <1>0, <1>3, CancelStepTyped DEF ExternalCancel, CancelFrame
<1>4. CASE ReentrantCancel
  BY <1>0, <1>4, CancelStepTyped DEF ReentrantCancel, CancelFrame
<1>5. CASE WillSendRequest
  <2> PICK validURL \in BOOLEAN, verdict \in Verdicts, sameURL \in BOOLEAN,
           crossTarget \in BOOLEAN :
        \/ /\ ~validURL \/ opts.redirect = "Error"
           /\ \E nested \in BOOLEAN : Cancel(nested)
           /\ CancelFrame
        \/ /\ validURL /\ opts.redirect = "Manual"
           /\ resResp' = [status |-> "RedirectLoc", opaque |-> TRUE, corsOK |-> TRUE]
           /\ pc' = "RedirManual"
           /\ UNCHANGED <<opts, state, terminal, cancelled, cur, phase, tracker,
                          registered, removals, loadDones, redirectCount,
                          followed, crossOrigin, revalidating, cacheEntry,
                          resStatus, resErr, resLoader, resData, multipart,
                          prevPart, parts, chunks, atOldURL>>
        \/ /\ validURL /\ opts.redirect = "Follow"
           /\ redirectCount' = redirectCount + 1
           /\ \/ /\ TooManyRedirects \/ verdict = "Rejected"
                 /\ \E nested \in BOOLEAN : Cancel(nested)
                 /\ UNCHANGED <<opts, pc, cur, followed, crossOrigin, resResp,
                                resData, multipart, prevPart, parts, chunks,
                                atOldURL>>
              \/ /\ ~TooManyRedirects /\ verdict = "Pass"
                 /\ revalidating' = KeepsRevalidation(sameURL)
                 /\ atOldURL' = sameURL
                 /\ crossOrigin' = (crossOrigin \/ crossTarget)
                 /\ pc' = "RedirAwait"
                 /\ UNCHANGED <<opts, state, terminal, cancelled, cur, phase,
                                tracker, registered, removals, loadDones,
                                followed, cacheEntry, resResp, resStatus, resErr,
                                resLoader, resData, multipart, prevPart, parts,
                                chunks>>
    BY <1>5 DEF WillSendRequest
  <2>1. CASE \E nested \in BOOLEAN : Cancel(nested) /\ CancelFrame
    BY <1>0, <2>1, CancelStepTyped DEF CancelFrame
  <2>2. CASE /\ resResp' = [status |-> "RedirectLoc", opaque |-> TRUE, corsOK |-> TRUE]
             /\ pc' = "RedirManual"
             /\ UNCHANGED <<opts, state, terminal, cancelled, cur, phase, tracker,
                            registered, removals, loadDones, redirectCount,
                            followed, crossOrigin, revalidating, cacheEntry,
                            resStatus, resErr, resLoader, resData, multipart,
                            prevPart, parts, chunks, atOldURL>>
    <3>1. resResp' \in ResourceResponses
      BY <2>2, ResponsesTyped DEF Statuses
    <3> QED
      BY <2>2, <3>1 DEF TypeOK, Callouts
  <2>3. CASE /\ redirectCount' = redirectCount + 1
             /\ \E nested \in BOOLEAN : Cancel(nested)
             /\ UNCHANGED <<opts, pc, cur, followed, crossOrigin, resResp,
                            resData, multipart, prevPart, parts, chunks, atOldURL>>
    BY <1>0, <2>3, CancelStepTyped
  <2>4. CASE /\ redirectCount' = redirectCount + 1
             /\ revalidating' = KeepsRevalidation(sameURL)
             /\ atOldURL' = sameURL
             /\ crossOrigin' = (crossOrigin \/ crossTarget)
             /\ pc' = "RedirAwait"
             /\ UNCHANGED <<opts, state, terminal, cancelled, cur, phase,
                            tracker, registered, removals, loadDones,
                            followed, cacheEntry, resResp, resStatus, resErr,
                            resLoader, resData, multipart, prevPart, parts,
                            chunks>>
    BY <2>4 DEF TypeOK, Callouts, KeepsRevalidation
  <2> QED
    BY <2>1, <2>2, <2>3, <2>4
<1>6. CASE ReceiveResponse
  <2> PICK r \in Responses :
        /\ cur' = r
        /\ \/ r.pre = "Invalid" /\ DidFailStart
           \/ /\ \E nested \in BOOLEAN : Cancel(nested)
              /\ UNCHANGED <<opts, pc, redirectCount, followed, crossOrigin,
                             resResp, resData, multipart, prevPart, chunks,
                             atOldURL>>
           \/ /\ resResp' = AsResource(r)
              /\ revalidating' = FALSE
              /\ cacheEntry' = "Old"
              /\ phase' = "Body"
              /\ pc' = "Resp304"
              /\ UNCHANGED <<opts, state, terminal, cancelled, tracker,
                             registered, removals, loadDones, redirectCount,
                             followed, crossOrigin, resStatus, resErr,
                             resLoader, resData, multipart, prevPart, chunks,
                             atOldURL>>
           \/ ResponseAfterRevalidation(r)
    BY <1>6 DEF ReceiveResponse
  <2>1. parts' \in Nat
    BY <1>0, <1>6 DEF ReceiveResponse
  <2>2. CASE r.pre = "Invalid" /\ DidFailStart
    BY ZenonT(30), <2>1, <2>2 DEF DidFailStart, TypeOK, Callouts
  <2>3. CASE /\ \E nested \in BOOLEAN : Cancel(nested)
             /\ UNCHANGED <<opts, pc, redirectCount, followed, crossOrigin,
                            resResp, resData, multipart, prevPart, chunks,
                            atOldURL>>
    BY <1>0, <2>1, <2>3, CancelStepTyped
  <2>4. CASE /\ resResp' = AsResource(r)
             /\ revalidating' = FALSE
             /\ cacheEntry' = "Old"
             /\ phase' = "Body"
             /\ pc' = "Resp304"
             /\ UNCHANGED <<opts, state, terminal, cancelled, tracker,
                            registered, removals, loadDones, redirectCount,
                            followed, crossOrigin, resStatus, resErr,
                            resLoader, resData, multipart, prevPart, chunks,
                            atOldURL>>
    <3>1. resResp' \in ResourceResponses
      BY <2>4, ResponsesTyped
    <3>2. /\ revalidating' \in BOOLEAN /\ cacheEntry' = "Old"
          /\ phase' = "Body" /\ pc' \in Callouts \cup {"Idle"}
      BY <2>4 DEF Callouts
    <3>3. UNCHANGED <<opts, state, terminal, cancelled, tracker,
                      registered, removals, loadDones, redirectCount,
                      followed, crossOrigin, resStatus, resErr,
                      resLoader, resData, multipart, prevPart, chunks,
                      atOldURL>>
      BY <2>4
    <3> QED
      BY <2>1, <3>1, <3>2, <3>3 DEF TypeOK
  <2>5. CASE ResponseAfterRevalidation(r)
    BY <2>1, <2>5, ResponseAfterRevalidationTyped
  <2> QED
    BY <2>2, <2>3, <2>4, <2>5
<1>7. CASE ReceiveBuffer
  BY <1>7 DEF ReceiveBuffer, TypeOK, Callouts
<1>8. CASE Finish
  BY <1>8 DEF Finish, DidFinishLoadingStart, FinishLoadingStatus, TypeOK, Callouts
<1>9. CASE Fail
  BY ZenonT(30), <1>9 DEF Fail, DidFailStart, TypeOK, Callouts
<1>10. CASE HandlerStep
  <2>1. CASE RedirContinue
    BY <1>0, <2>1, CancelStepTyped DEF RedirContinue, GoTo, TypeOK, Callouts
  <2>2. CASE RedirManualResume
    BY <2>2 DEF RedirManualResume, GoTo,
       DidFinishLoadingStart, FinishLoadingStatus, TypeOK, Callouts
  <2>3. CASE ResponseCalloutReturn
    BY <2>3 DEF ResponseCalloutReturn, GoTo, TypeOK
  <2>4. CASE RespReceivedResume
    BY <2>4 DEF RespReceivedResume, GoTo, TypeOK, Callouts
  <2>5. CASE RespPolicyResume
    <3> DEFINE isMultipart == cur.multipart /\ opts.type # "MainResource"
    <3>1. CASE terminal /\ GoTo("Idle")
      BY <3>1, GoToTyped
    <3>2. CASE /\ multipart' = TRUE
               /\ \E nested \in BOOLEAN : Cancel(nested)
               /\ pc' = "Idle"
               /\ UNCHANGED <<opts, cur, redirectCount, followed, crossOrigin,
                              resResp, resData, prevPart, parts, chunks, atOldURL>>
      BY <1>0, <3>2, CancelStepTyped
    <3>3. CASE /\ multipart' = (multipart \/ isMultipart)
               /\ tracker' = (tracker /\ ~isMultipart)
               /\ \/ state' = "Finishing" /\ resStatus' = "LoadError"
                     /\ pc' = "RespHTTPError"
                  \/ pc' = "Idle" /\ UNCHANGED <<state, resStatus>>
               /\ UNCHANGED <<opts, terminal, cancelled, cur, phase, registered,
                              removals, loadDones, redirectCount, followed,
                              crossOrigin, revalidating, cacheEntry, resResp, resErr,
                              resLoader, resData, prevPart, parts, chunks, atOldURL>>
      BY <3>3 DEF TypeOK, Callouts
    <3> QED
      BY <2>5, <3>1, <3>2, <3>3 DEF RespPolicyResume
  <2>6. CASE RespHTTPErrorResume
    BY <1>0, <2>6, GoToTyped, CancelStepTyped DEF RespHTTPErrorResume
  <2>7. CASE BufferResume
    BY <2>7 DEF BufferResume, TypeOK
  <2>8. CASE FinLoadingResume
    <3>1. CASE cancelled /\ GoTo("Idle")
      BY <3>1, GoToTyped
    <3>2. CASE ~cancelled /\ pc' = "FinOnePart" /\ resStatus' \in {"Cached", "LoadError"}
               /\ UNCHANGED <<opts, state, terminal, cancelled, cur, phase, tracker,
                              registered, removals, loadDones, redirectCount, followed,
                              crossOrigin, revalidating, cacheEntry, resResp, resErr,
                              resLoader, resData, multipart, prevPart, parts, chunks,
                              atOldURL>>
      BY <3>2 DEF TypeOK, Callouts
    <3> QED
      BY <2>8, <3>1, <3>2 DEF FinLoadingResume
  <2>9. CASE FinOnePartResume
    BY <2>9, GoToTyped, NotifyDoneTyped DEF FinOnePartResume, Callouts,
       CompletionKinds
  <2>10. CASE FinLoadDoneResume
    BY <2>10, GoToTyped, RemoveAndReleaseTyped DEF FinLoadDoneResume
  <2>11. CASE FailErrorResume
    BY <2>11, GoToTyped, NotifyDoneTyped DEF FailErrorResume, Callouts,
       CompletionKinds
  <2>12. CASE FailLoadDoneResume
    BY <2>12, GoToTyped, RemoveAndReleaseTyped DEF FailLoadDoneResume
  <2>13. CASE PartResponseResume \/ FinPartResume
    BY <2>13 DEF PartResponseResume, FinPartResume, FinishLoadingStatus, TypeOK,
       Callouts
  <2>14. CASE PartFinishResume
    <3>1. cur \in Responses
      BY DEF TypeOK
    <3>2. /\ prevPart' \in ResourceResponses /\ registered' = FALSE
          /\ pc' = "RespReceived"
      BY <2>14, <3>1, NextPartMoves DEF PartFinishResume
    <3>3. UNCHANGED <<opts, state, terminal, cancelled, cur, phase, tracker,
                      removals, loadDones, redirectCount, followed, crossOrigin,
                      revalidating, atOldURL, cacheEntry, resResp, resStatus,
                      resErr, resLoader, resData, multipart, parts, chunks>>
      BY <2>14 DEF PartFinishResume
    <3>4. pc' \in Callouts
      BY <3>2 DEF Callouts
    <3>5. /\ opts' \in Options /\ cur' \in Responses /\ resResp' \in ResourceResponses
          /\ loadDones' \in Seq(CompletionKinds)
          /\ state' \in {"Uninitialized", "Initialized", "Finishing"}
          /\ phase' \in {"Request", "Body", "Done"}
          /\ cacheEntry' \in {"New", "Old", "None"}
          /\ resStatus' \in {"Pending", "Loaded", "Cached", "LoadError"}
      BY <3>3 DEF TypeOK
    <3>6. /\ {terminal', cancelled', tracker', crossOrigin', revalidating',
              atOldURL', resErr', resLoader', multipart'} \subseteq BOOLEAN
          /\ {removals', redirectCount', followed', resData', parts', chunks'}
               \subseteq Nat
      BY <3>3 DEF TypeOK
    <3> QED
      BY <3>2, <3>4, <3>5, <3>6 DEF TypeOK
  <2> QED
    BY <1>10, <2>1, <2>2, <2>3, <2>4, <2>5, <2>6, <2>7, <2>8, <2>9, <2>10,
       <2>11, <2>12, <2>13, <2>14 DEF HandlerStep
<1>11. CASE UNCHANGED vars
  BY <1>11 DEF vars, TypeOK
<1>12. QED
  BY <1>1, <1>2, <1>3, <1>4, <1>5, <1>6, <1>7, <1>8, <1>9, <1>10, <1>11
  DEF Next, TransportEvent

\* The type invariant holds in every reachable state: every variable has
\* the type of the loader field, flag or counter it models.
THEOREM TypeCorrect == Spec => []TypeOK
BY InitTyped, TypeStep, PTL DEF Spec

-----------------------------------------------------------------------------
(***************************************************************************)
(* Teardown.  TeardownInv is inductive; RemovedExactlyOnce and            *)
(* TeardownComplete follow from it.                                        *)
(***************************************************************************)
\* The part of TeardownInv beyond the types.
TeardownRest ==
    /\ state = "Uninitialized" =>
          /\ pc = "Idle" /\ phase # "Body" /\ ~registered /\ ~resLoader
          /\ prevPart = NoResponse
    /\ ~terminal =>
          /\ removals = 0
          /\ registered = (state # "Uninitialized" /\ prevPart = NoResponse)
          /\ resLoader = (state # "Uninitialized")
    /\ terminal =>
          /\ ~registered /\ ~tracker /\ ~resLoader
          /\ removals = IF state = "Uninitialized" THEN 0 ELSE 1

\* A cancel that returns into its handler, or to the transport, keeps the
\* teardown invariant.
LEMMA CancelTeardown ==
    ASSUME TypeOK, TeardownRest, NEW nested \in BOOLEAN, Cancel(nested),
           pc' \in {pc, "Idle"}, prevPart' = prevPart
    PROVE  TeardownRest'
<1>1. /\ (state' = "Uninitialized") = (state = "Uninitialized")
      /\ terminal' /\ ~tracker' /\ phase' = "Done"
  BY DEF Cancel, WillCancel, TypeOK
<1>2. CASE state = "Uninitialized"
  BY <1>1, <1>2 DEF Cancel, TeardownRest, TypeOK
<1>3. CASE state # "Uninitialized"
  BY <1>1, <1>3 DEF Cancel, TeardownRest, TypeOK
<1> QED
  BY <1>2, <1>3

\* A step of a running handler that leaves the registry, the previous
\* multipart part, the resource's back pointer, the removal count and the
\* terminal flag alone, releases the request count at most, and stays out
\* of Uninitialized keeps the teardown invariant.
LEMMA QuietTeardown ==
    ASSUME TypeOK, TeardownRest,
           state # "Uninitialized", state' # "Uninitialized",
           UNCHANGED <<registered, prevPart, resLoader, removals, terminal>>,
           tracker' \in BOOLEAN, tracker' => tracker
    PROVE  TeardownRest'
BY DEF TeardownRest, TypeOK

\* notifyDone's removal and releaseResources on a live initialized loader
\* keep the teardown invariant.
LEMMA RemoveAndReleaseTeardown ==
    ASSUME TypeOK, TeardownRest, ~terminal, state # "Uninitialized",
           RemoveAndRelease
    PROVE  TeardownRest'
BY DEF RemoveAndRelease, TeardownRest, TypeOK

\* A handler is only ever running in an initialized loader, and so is the
\* body phase.
LEMMA RunningInitialized ==
    ASSUME TeardownRest, pc # "Idle" \/ phase = "Body"
    PROVE  state # "Uninitialized"
BY DEF TeardownRest

\* The multipart branch of didReceiveResponse, moving on to the next part
\* (L493-498), takes the loader out of the DocumentLoader's subresource
\* loaders together with recording a previous part, and keeps the
\* teardown invariant.
LEMMA NextPartTeardown ==
    ASSUME TypeOK, TeardownRest, state # "Uninitialized",
           state' # "Uninitialized", registered' = FALSE,
           prevPart' # NoResponse,
           UNCHANGED <<resLoader, removals, terminal, tracker>>
    PROVE  TeardownRest'
BY DEF TeardownRest, TypeOK

\* From an initialized loader, a step that is a cancel or a quiet step
\* keeps the teardown invariant.
LEMMA InitializedTeardown ==
    ASSUME TypeOK, TeardownRest, state # "Uninitialized",
           \/ \E nested \in BOOLEAN : Cancel(nested)
           \/ /\ state' # "Uninitialized"
              /\ UNCHANGED <<registered, prevPart, resLoader, removals, terminal>>
              /\ tracker' \in BOOLEAN /\ (tracker' => tracker)
    PROVE  TeardownRest'
<1>1. CASE \E nested \in BOOLEAN : Cancel(nested)
  <2>1. PICK nested \in BOOLEAN : Cancel(nested)
    BY <1>1
  <2>2. state' # "Uninitialized" /\ terminal' /\ ~tracker'
    BY <2>1 DEF Cancel, WillCancel, TypeOK
  <2> QED
    BY <2>1, <2>2 DEF Cancel, TeardownRest, TypeOK
<1> QED
  BY <1>1, QuietTeardown

\* notifyDone's loadDone call is a quiet step.
LEMMA NotifyDoneQuiet ==
    ASSUME state # "Uninitialized", tracker \in BOOLEAN,
           NEW kind, NEW next, NotifyDoneLoadDone(kind, next)
    PROVE  /\ state' # "Uninitialized"
           /\ UNCHANGED <<registered, prevPart, resLoader, removals, terminal>>
           /\ tracker' \in BOOLEAN /\ (tracker' => tracker)
BY DEF NotifyDoneLoadDone

\* Every step keeps the teardown invariant.
LEMMA TeardownStep == TypeOK /\ TeardownRest /\ [Next]_vars => TeardownRest'
<1> SUFFICES ASSUME TypeOK, TeardownRest, [Next]_vars PROVE TeardownRest'
  OBVIOUS
<1>1. CASE InitSucceeded
  BY <1>1 DEF InitSucceeded, TeardownRest, TypeOK
<1>2. CASE InitFailed
  BY <1>2, CancelTeardown DEF InitFailed, CancelFrame
<1>3. CASE ExternalCancel
  BY <1>3, InitializedTeardown DEF ExternalCancel
<1>4. CASE ReentrantCancel
  <2>1. state # "Uninitialized"
    BY <1>4, RunningInitialized DEF ReentrantCancel, Callouts
  <2> QED
    BY <1>4, <2>1, InitializedTeardown DEF ReentrantCancel
<1>5. CASE WillSendRequest
  <2>1. state = "Initialized"
    BY <1>5 DEF WillSendRequest
  <2>2. CASE \E nested \in BOOLEAN : Cancel(nested)
    BY <2>1, <2>2, InitializedTeardown
  <2>3. CASE ~\E nested \in BOOLEAN : Cancel(nested)
    <3>1. UNCHANGED <<state, registered, prevPart, resLoader, removals,
                      terminal, tracker>>
      BY <1>5, <2>3 DEF WillSendRequest
    <3> QED
      BY <2>1, <3>1, InitializedTeardown DEF TypeOK
  <2> QED
    BY <2>2, <2>3
<1>6. CASE ReceiveResponse
  <2>1. state = "Initialized"
    BY <1>6 DEF ReceiveResponse
  <2>2. CASE \E nested \in BOOLEAN : Cancel(nested)
    BY <2>1, <2>2, InitializedTeardown
  <2>3. CASE ~\E nested \in BOOLEAN : Cancel(nested)
    <3>1. PICK r \in Responses :
            \/ DidFailStart
            \/ UNCHANGED <<state, registered, prevPart, resLoader, removals,
                           terminal, tracker>>
            \/ /\ ResponseAfterRevalidation(r)
               /\ ~\E nested \in BOOLEAN : Cancel(nested)
      BY <1>6, <2>3 DEF ReceiveResponse
    <3>2. CASE DidFailStart
      BY <2>1, <3>2, InitializedTeardown DEF DidFailStart, TypeOK
    <3>3. CASE UNCHANGED <<state, registered, prevPart, resLoader, removals,
                           terminal, tracker>>
      BY <2>1, <3>3, InitializedTeardown DEF TypeOK
    <3>4. CASE ResponseAfterRevalidation(r) /\ ~\E nested \in BOOLEAN : Cancel(nested)
      <4>1. UNCHANGED <<state, resLoader, removals, terminal, tracker>>
        BY <3>4 DEF ResponseAfterRevalidation
      <4>2. CASE NextPart(r)
        BY <2>1, <4>1, <4>2, NextPartMoves, NextPartTeardown
      <4>3. CASE ~NextPart(r)
        <5>1. UNCHANGED <<registered, prevPart>>
          BY <3>4, <4>3 DEF ResponseAfterRevalidation
        <5> QED
          BY <2>1, <4>1, <5>1, InitializedTeardown DEF TypeOK
      <4> QED
        BY <4>2, <4>3
    <3> QED
      BY <3>1, <3>2, <3>3, <3>4
  <2> QED
    BY <2>2, <2>3
<1>7. CASE ReceiveBuffer
  BY <1>7, RunningInitialized, InitializedTeardown DEF ReceiveBuffer, TypeOK
<1>8. CASE Finish
  BY <1>8, InitializedTeardown DEF Finish, DidFinishLoadingStart, TypeOK
<1>9. CASE Fail
  BY <1>9, InitializedTeardown DEF Fail, DidFailStart, TypeOK
<1>10. CASE HandlerStep
  <2>1. state # "Uninitialized"
    BY ZenonT(30), <1>10, RunningInitialized
    DEF HandlerStep, RedirContinue, RedirManualResume, ResponseCalloutReturn,
        PartResponseResume, PartFinishResume, FinPartResume,
        RespReceivedResume, RespPolicyResume, RespHTTPErrorResume,
        BufferResume, FinLoadingResume, FinOnePartResume, FinLoadDoneResume,
        FailErrorResume, FailLoadDoneResume
  <2>2. CASE FinLoadDoneResume \/ FailLoadDoneResume
    BY SMTT(20), <2>1, <2>2, RemoveAndReleaseTeardown, InitializedTeardown
    DEF FinLoadDoneResume, FailLoadDoneResume, GoTo, TypeOK
  <2>3. CASE RedirContinue
    BY SMTT(20), <2>1, <2>3, InitializedTeardown DEF RedirContinue, GoTo, TypeOK
  <2>4. CASE RedirManualResume
    BY <2>1, <2>4, InitializedTeardown DEF RedirManualResume, GoTo,
       DidFinishLoadingStart, TypeOK
  <2>5. CASE ResponseCalloutReturn
    BY <2>1, <2>5, InitializedTeardown DEF ResponseCalloutReturn, GoTo, TypeOK
  <2>6. CASE RespReceivedResume
    BY SMTT(20), <2>1, <2>6, InitializedTeardown DEF RespReceivedResume, GoTo, TypeOK
  <2>7. CASE RespPolicyResume
    BY <2>1, <2>7, InitializedTeardown DEF RespPolicyResume, GoTo, TypeOK
  <2>8. CASE RespHTTPErrorResume
    BY <2>1, <2>8, InitializedTeardown DEF RespHTTPErrorResume, GoTo, TypeOK
  <2>9. CASE BufferResume
    BY <2>1, <2>9, InitializedTeardown DEF BufferResume, TypeOK
  <2>10. CASE FinLoadingResume
    BY <2>1, <2>10, InitializedTeardown DEF FinLoadingResume, GoTo, TypeOK
  <2>11. CASE FinOnePartResume
    BY <2>1, <2>11, InitializedTeardown, NotifyDoneQuiet DEF FinOnePartResume,
       GoTo, TypeOK
  <2>12. CASE FailErrorResume
    BY <2>1, <2>12, InitializedTeardown, NotifyDoneQuiet DEF FailErrorResume,
       GoTo, TypeOK
  <2>13. CASE PartResponseResume \/ FinPartResume
    BY <2>1, <2>13, InitializedTeardown
    DEF PartResponseResume, FinPartResume, TypeOK
  <2>14. CASE PartFinishResume
    <3>1. cur \in Responses
      BY DEF TypeOK
    <3>2. /\ registered' = FALSE /\ prevPart' # NoResponse
          /\ UNCHANGED <<state, resLoader, removals, terminal, tracker>>
      BY <2>14, <3>1, NextPartMoves DEF PartFinishResume
    <3> QED
      BY <2>1, <3>2, NextPartTeardown
  <2> QED
    BY SMTT(20), <1>10, <2>2, <2>3, <2>4, <2>5, <2>6, <2>7, <2>8, <2>9, <2>10, <2>11,
       <2>12, <2>13, <2>14 DEF HandlerStep
<1>11. CASE UNCHANGED vars
  BY <1>11 DEF vars, TeardownRest
<1> QED
  BY <1>1, <1>2, <1>3, <1>4, <1>5, <1>6, <1>7, <1>8, <1>9, <1>10, <1>11
  DEF Next, TransportEvent

\* TeardownInv holds in every reachable state.
THEOREM TeardownCorrect == Spec => []TeardownInv
<1>1. Init => TeardownRest
  BY DEF Init, TeardownRest
<1>2. TeardownInv <=> TypeOK /\ TeardownRest
  BY DEF TeardownInv, TeardownRest
<1> QED
  BY <1>1, <1>2, InitTyped, TypeStep, TeardownStep, PTL DEF Spec

\* DocumentLoader::removeSubresourceLoader is called at most once for the
\* loader, and exactly once by the time it is terminal if init succeeded,
\* whichever of didFinishLoading, didFail, cancel and a cancel re-entered
\* from loadDone ends the load.
THEOREM RemovedOnce == Spec => []RemovedExactlyOnce
<1>1. TeardownInv => RemovedExactlyOnce
  BY DEF TeardownInv, RemovedExactlyOnce, TypeOK
<1> QED
  BY <1>1, TeardownCorrect, PTL

\* A terminal loader is out of the document's registry, has released its
\* request count and is no longer the resource's loader.
THEOREM TornDown == Spec => []TeardownComplete
<1>1. TeardownInv => TeardownComplete
  BY DEF TeardownInv, TeardownComplete
<1> QED
  BY <1>1, TeardownCorrect, PTL

-----------------------------------------------------------------------------
(***************************************************************************)
(* Refinement: the loader implements the abstract lifecycle of            *)
(* LoaderLifecycle under the mapping LC (LifeOf, tracker, resLoader).     *)
(* The step proof follows TeardownStep: a cancel or the final removal of  *)
(* a live loader is the abstract End, a quiet step of a running handler   *)
(* releases the count or stutters, and init is Start or Abort.            *)
(***************************************************************************)

\* The loader starts as a fresh abstract loader.
LEMMA InitRefines == Init => LC!Init
BY DEF Init, LC!Init, LifeOf

\* ResourceLoader::cancel of a live, initialized loader ends it.
LEMMA CancelEnds ==
    ASSUME TypeOK, NEW nested \in BOOLEAN, Cancel(nested),
           state # "Uninitialized"
    PROVE  LC!End
<1>1. /\ ~terminal /\ terminal'
      /\ state' # "Uninitialized"
      /\ registered' = FALSE /\ tracker' = FALSE /\ resLoader' = FALSE
      /\ removals' = removals + 1
  BY DEF Cancel, WillCancel, TypeOK
<1> QED
  BY <1>1 DEF LC!End, LifeOf

\* A quiet step of an initialized loader releases the request count or
\* changes nothing the lifecycle sees.
LEMMA QuietRefines ==
    ASSUME TypeOK, TeardownRest,
           state # "Uninitialized", state' # "Uninitialized",
           UNCHANGED <<registered, resLoader, removals, terminal>>,
           tracker' \in BOOLEAN, tracker' => tracker
    PROVE  [LC!Next]_LC!lvars
<1>1. LifeOf' = LifeOf
  BY DEF LifeOf
<1>2. CASE tracker' = tracker
  BY <1>1, <1>2 DEF LC!lvars
<1>3. CASE tracker' # tracker
  <2>1. tracker /\ ~tracker' /\ ~terminal
    BY <1>3 DEF TeardownRest, TypeOK
  <2>2. LC!ReleaseCount
    BY <1>1, <2>1 DEF LC!ReleaseCount, LifeOf
  <2> QED
    BY <2>2 DEF LC!Next
<1> QED
  BY <1>2, <1>3

\* notifyDone's removal and releaseResources on a live loader end it.
LEMMA RemoveAndReleaseEnds ==
    ASSUME ~terminal, state # "Uninitialized", RemoveAndRelease
    PROVE  LC!End
BY DEF RemoveAndRelease, LC!End, LifeOf

\* From an initialized loader, a cancel or a quiet step is an abstract
\* step.
LEMMA InitializedRefines ==
    ASSUME TypeOK, TeardownRest, state # "Uninitialized",
           \/ \E nested \in BOOLEAN : Cancel(nested)
           \/ /\ state' # "Uninitialized"
              /\ UNCHANGED <<registered, resLoader, removals, terminal>>
              /\ tracker' \in BOOLEAN /\ (tracker' => tracker)
    PROVE  [LC!Next]_LC!lvars
<1>1. CASE \E nested \in BOOLEAN : Cancel(nested)
  BY <1>1, CancelEnds DEF LC!Next
<1> QED
  BY <1>1, QuietRefines

\* The move to the next multipart part (L498) takes a live loader out of
\* the DocumentLoader's subresource loaders: finishing one part, or a
\* stutter when it is out already.
LEMMA NextPartRefines ==
    ASSUME TypeOK, TeardownRest, state # "Uninitialized",
           state' # "Uninitialized", registered' = FALSE,
           UNCHANGED <<resLoader, removals, terminal, tracker>>
    PROVE  [LC!Next]_LC!lvars
<1>1. LifeOf' = LifeOf
  BY DEF LifeOf
<1>2. CASE registered
  <2>1. ~terminal
    BY <1>2 DEF TeardownRest
  <2>2. LC!FinishOnePart
    BY <1>1, <1>2, <2>1 DEF LC!FinishOnePart, LifeOf
  <2> QED
    BY <2>2 DEF LC!Next
<1>3. CASE ~registered
  BY <1>1, <1>3 DEF LC!lvars, TypeOK
<1> QED
  BY <1>2, <1>3

\* Every step of the loader is a step of the abstract lifecycle or leaves
\* it unchanged.
LEMMA RefineStep == TypeOK /\ TeardownRest /\ [Next]_vars => [LC!Next]_LC!lvars
<1> SUFFICES ASSUME TypeOK, TeardownRest, [Next]_vars PROVE [LC!Next]_LC!lvars
  OBVIOUS
<1>1. CASE InitSucceeded
  <2>1. LC!Start
    BY <1>1 DEF InitSucceeded, LC!Start, LifeOf
  <2> QED
    BY <2>1 DEF LC!Next
<1>2. CASE InitFailed
  <2>1. /\ state = "Uninitialized" /\ ~terminal /\ terminal'
        /\ state' = "Uninitialized" /\ tracker' = FALSE
        /\ UNCHANGED <<registered, resLoader, removals>>
    BY <1>2 DEF InitFailed, Cancel, WillCancel, TypeOK
  <2>2. LC!Abort
    BY <2>1 DEF LC!Abort, LifeOf
  <2> QED
    BY <2>2 DEF LC!Next
<1>3. CASE ExternalCancel
  BY <1>3, InitializedRefines DEF ExternalCancel
<1>4. CASE ReentrantCancel
  <2>1. state # "Uninitialized"
    BY <1>4, RunningInitialized DEF ReentrantCancel, Callouts
  <2> QED
    BY <1>4, <2>1, InitializedRefines DEF ReentrantCancel
<1>5. CASE WillSendRequest
  <2>1. state = "Initialized"
    BY <1>5 DEF WillSendRequest
  <2>2. CASE \E nested \in BOOLEAN : Cancel(nested)
    BY <2>1, <2>2, InitializedRefines
  <2>3. CASE ~\E nested \in BOOLEAN : Cancel(nested)
    <3>1. UNCHANGED <<state, registered, prevPart, resLoader, removals,
                      terminal, tracker>>
      BY <1>5, <2>3 DEF WillSendRequest
    <3> QED
      BY <2>1, <3>1, InitializedRefines DEF TypeOK
  <2> QED
    BY <2>2, <2>3
<1>6. CASE ReceiveResponse
  <2>1. state = "Initialized"
    BY <1>6 DEF ReceiveResponse
  <2>2. CASE \E nested \in BOOLEAN : Cancel(nested)
    BY <2>1, <2>2, InitializedRefines
  <2>3. CASE ~\E nested \in BOOLEAN : Cancel(nested)
    <3>1. PICK r \in Responses :
            \/ DidFailStart
            \/ UNCHANGED <<state, registered, prevPart, resLoader, removals,
                           terminal, tracker>>
            \/ /\ ResponseAfterRevalidation(r)
               /\ ~\E nested \in BOOLEAN : Cancel(nested)
      BY <1>6, <2>3 DEF ReceiveResponse
    <3>2. CASE DidFailStart
      BY <2>1, <3>2, InitializedRefines DEF DidFailStart, TypeOK
    <3>3. CASE UNCHANGED <<state, registered, prevPart, resLoader, removals,
                           terminal, tracker>>
      BY <2>1, <3>3, InitializedRefines DEF TypeOK
    <3>4. CASE ResponseAfterRevalidation(r) /\ ~\E nested \in BOOLEAN : Cancel(nested)
      <4>1. UNCHANGED <<state, resLoader, removals, terminal, tracker>>
        BY <3>4 DEF ResponseAfterRevalidation
      <4>2. CASE NextPart(r)
        BY <2>1, <4>1, <4>2, NextPartMoves, NextPartRefines
      <4>3. CASE ~NextPart(r)
        <5>1. UNCHANGED registered
          BY <3>4, <4>3 DEF ResponseAfterRevalidation
        <5> QED
          BY <2>1, <4>1, <5>1, InitializedRefines DEF TypeOK
      <4> QED
        BY <4>2, <4>3
    <3> QED
      BY <3>1, <3>2, <3>3, <3>4
  <2> QED
    BY <2>2, <2>3
<1>7. CASE ReceiveBuffer
  BY <1>7, RunningInitialized, InitializedRefines DEF ReceiveBuffer, TypeOK
<1>8. CASE Finish
  BY <1>8, InitializedRefines DEF Finish, DidFinishLoadingStart, TypeOK
<1>9. CASE Fail
  BY <1>9, InitializedRefines DEF Fail, DidFailStart, TypeOK
<1>10. CASE HandlerStep
  <2>1. state # "Uninitialized"
    BY <1>10, RunningInitialized
    DEF HandlerStep, RedirContinue, RedirManualResume, ResponseCalloutReturn,
        PartResponseResume, PartFinishResume, FinPartResume,
        RespReceivedResume, RespPolicyResume, RespHTTPErrorResume,
        BufferResume, FinLoadingResume, FinOnePartResume, FinLoadDoneResume,
        FailErrorResume, FailLoadDoneResume
  <2>2. CASE FinLoadDoneResume \/ FailLoadDoneResume
    <3>1. CASE RemoveAndRelease /\ ~terminal
      BY SMTT(20), <2>1, <3>1, RemoveAndReleaseEnds DEF LC!Next
    <3>2. CASE ~(RemoveAndRelease /\ ~terminal)
      BY SMTT(20), <2>1, <2>2, <3>2, InitializedRefines
      DEF FinLoadDoneResume, FailLoadDoneResume, GoTo, TypeOK
    <3> QED
      BY <3>1, <3>2
  <2>3. CASE RedirContinue
    BY SMTT(20), <2>1, <2>3, InitializedRefines DEF RedirContinue, GoTo, TypeOK
  <2>4. CASE RedirManualResume
    BY SMTT(20), <2>1, <2>4, InitializedRefines DEF RedirManualResume, GoTo,
       DidFinishLoadingStart, TypeOK
  <2>5. CASE ResponseCalloutReturn
    BY SMTT(20), <2>1, <2>5, InitializedRefines DEF ResponseCalloutReturn, GoTo, TypeOK
  <2>6. CASE RespReceivedResume
    BY SMTT(20), <2>1, <2>6, InitializedRefines DEF RespReceivedResume, GoTo, TypeOK
  <2>7. CASE RespPolicyResume
    BY SMTT(20), <2>1, <2>7, InitializedRefines DEF RespPolicyResume, GoTo, TypeOK
  <2>8. CASE RespHTTPErrorResume
    BY SMTT(20), <2>1, <2>8, InitializedRefines DEF RespHTTPErrorResume, GoTo, TypeOK
  <2>9. CASE BufferResume
    BY SMTT(20), <2>1, <2>9, InitializedRefines DEF BufferResume, TypeOK
  <2>10. CASE FinLoadingResume
    BY SMTT(20), <2>1, <2>10, InitializedRefines DEF FinLoadingResume, GoTo, TypeOK
  <2>11. CASE FinOnePartResume
    BY SMTT(20), <2>1, <2>11, InitializedRefines, NotifyDoneQuiet DEF FinOnePartResume,
       GoTo, TypeOK
  <2>12. CASE FailErrorResume
    BY SMTT(20), <2>1, <2>12, InitializedRefines, NotifyDoneQuiet DEF FailErrorResume,
       GoTo, TypeOK
  <2>13. CASE PartResponseResume \/ FinPartResume
    BY <2>1, <2>13, InitializedRefines
    DEF PartResponseResume, FinPartResume, TypeOK
  <2>14. CASE PartFinishResume
    <3>1. cur \in Responses
      BY DEF TypeOK
    <3>2. /\ registered' = FALSE
          /\ UNCHANGED <<state, resLoader, removals, terminal, tracker>>
      BY <2>14, <3>1, NextPartMoves DEF PartFinishResume
    <3> QED
      BY <2>1, <3>2, NextPartRefines
  <2> QED
    BY SMTT(20), <1>10, <2>2, <2>3, <2>4, <2>5, <2>6, <2>7, <2>8, <2>9, <2>10, <2>11,
       <2>12, <2>13, <2>14 DEF HandlerStep
<1>11. CASE UNCHANGED vars
  BY <1>11 DEF vars, LC!lvars, LifeOf
<1> QED
  BY <1>1, <1>2, <1>3, <1>4, <1>5, <1>6, <1>7, <1>8, <1>9, <1>10, <1>11
  DEF Next, TransportEvent

\* The loader implements the safety part of its abstract lifecycle: every
\* interleaving of handlers, call-outs and reentrant cancels registers
\* and attaches the loader only at a successful init, releases the request
\* count at most once, and ends it once, removing it from the
\* DocumentLoader exactly then.
THEOREM Refinement == Spec => LC!SafetySpec
<1>1. TypeOK /\ TeardownRest <=> TeardownInv
  BY DEF TeardownInv, TeardownRest
<1> QED
  BY <1>1, InitRefines, RefineStep, TeardownCorrect, PTL DEF Spec, LC!SafetySpec

-----------------------------------------------------------------------------
(***************************************************************************)
(* NoFinishingAtRest, through its inductive form FinishingInv.            *)
(***************************************************************************)
FinishingRest ==
    /\ cancelled => terminal
    /\ ~terminal /\ state = "Finishing" => pc \in FinishingCallouts

\* A cancel ends the loader, so it keeps FinishingRest whatever it leaves
\* pc at.
LEMMA CancelFinishing ==
    ASSUME NEW nested, Cancel(nested)
    PROVE  FinishingRest'
BY DEF Cancel, FinishingRest

\* A step that leaves m_state, the terminal and the cancelled flags alone
\* keeps FinishingRest unless it leaves a finishing call-out for another
\* place while the loader is live.
LEMMA QuietFinishing ==
    ASSUME FinishingRest, UNCHANGED <<state, terminal, cancelled>>,
           \/ pc \notin FinishingCallouts
           \/ terminal
           \/ pc' \in FinishingCallouts
    PROVE  FinishingRest'
BY DEF FinishingRest

\* didFinishLoading and didFail set Finishing and stop at their first
\* call-out.
LEMMA StartFinishing ==
    ASSUME FinishingRest, DidFinishLoadingStart \/ DidFailStart
    PROVE  FinishingRest'
BY DEF FinishingRest, DidFinishLoadingStart, DidFailStart, FinishingCallouts

\* A handler that ends the loader (notifyDone's removal and
\* releaseResources) keeps FinishingRest.
LEMMA RemoveAndReleaseFinishing ==
    ASSUME FinishingRest, RemoveAndRelease
    PROVE  FinishingRest'
BY DEF FinishingRest, RemoveAndRelease

\* Every step keeps FinishingRest.
LEMMA FinishingStep == TypeOK /\ FinishingRest /\ [Next]_vars => FinishingRest'
<1> SUFFICES ASSUME TypeOK, FinishingRest, [Next]_vars PROVE FinishingRest'
  OBVIOUS
<1>1. CASE InitSucceeded
  BY <1>1 DEF InitSucceeded, FinishingRest
<1>2. CASE InitFailed
  BY <1>2, CancelFinishing DEF InitFailed
<1>3. CASE ExternalCancel
  BY <1>3, CancelFinishing DEF ExternalCancel
<1>4. CASE ReentrantCancel
  BY SMTT(20), <1>4, CancelFinishing DEF ReentrantCancel
<1>5. CASE WillSendRequest
  BY SMTT(20), <1>5, CancelFinishing, QuietFinishing DEF WillSendRequest, FinishingCallouts
<1>6. CASE ReceiveResponse
  BY <1>6, CancelFinishing, QuietFinishing, StartFinishing
  DEF ReceiveResponse, ResponseAfterRevalidation, EndRevalidation, FinishingCallouts
<1>7. CASE ReceiveBuffer
  BY <1>7, QuietFinishing DEF ReceiveBuffer, FinishingCallouts
<1>8. CASE Finish
  BY <1>8, StartFinishing DEF Finish
<1>9. CASE Fail
  BY <1>9, StartFinishing DEF Fail
<1>10. CASE HandlerStep
  <2>1. CASE RedirContinue
    BY <2>1, CancelFinishing, QuietFinishing DEF RedirContinue, GoTo, FinishingCallouts
  <2>2. CASE RedirManualResume
    BY <2>2, QuietFinishing, StartFinishing DEF RedirManualResume, GoTo
  <2>3. CASE ResponseCalloutReturn
    BY <2>3, QuietFinishing DEF ResponseCalloutReturn, GoTo, FinishingCallouts
  <2>4. CASE RespReceivedResume
    BY SMTT(20), <2>4, QuietFinishing DEF RespReceivedResume, GoTo, FinishingCallouts
  <2>5. CASE RespPolicyResume
    <3>1. pc = "RespPolicy"
      BY <2>5 DEF RespPolicyResume
    <3>2. CASE \E nested \in BOOLEAN : Cancel(nested)
      BY <3>2, CancelFinishing
    <3>3. CASE ~\E nested \in BOOLEAN : Cancel(nested)
      <4>1. /\ UNCHANGED <<terminal, cancelled>>
            /\ \/ UNCHANGED state /\ pc' = "Idle"
               \/ state' = "Finishing" /\ pc' = "RespHTTPError"
               \/ GoTo("Idle")
        BY <2>5, <3>3 DEF RespPolicyResume, GoTo
      <4>2. CASE UNCHANGED state /\ pc' = "Idle"
        BY <3>1, <4>1, <4>2, QuietFinishing DEF FinishingCallouts
      <4>3. CASE state' = "Finishing" /\ pc' = "RespHTTPError"
        BY <4>1, <4>3 DEF FinishingRest, FinishingCallouts
      <4>4. CASE GoTo("Idle")
        BY <3>1, <4>4, QuietFinishing DEF GoTo, FinishingCallouts
      <4> QED
        BY <4>1, <4>2, <4>3, <4>4
    <3> QED
      BY <3>2, <3>3
  <2>6. CASE RespHTTPErrorResume
    BY <2>6, CancelFinishing, QuietFinishing DEF RespHTTPErrorResume, GoTo
  <2>7. CASE BufferResume
    BY SMTT(20), <2>7, QuietFinishing DEF BufferResume, FinishingCallouts
  <2>8. CASE FinLoadingResume
    BY <2>8, QuietFinishing DEF FinLoadingResume, GoTo, FinishingRest, FinishingCallouts
  <2>9. CASE FinOnePartResume
    BY <2>9, QuietFinishing DEF FinOnePartResume, GoTo, NotifyDoneLoadDone, FinishingCallouts
  <2>10. CASE FinLoadDoneResume
    BY <2>10, QuietFinishing, RemoveAndReleaseFinishing DEF FinLoadDoneResume, GoTo
  <2>11. CASE FailErrorResume
    BY <2>11, QuietFinishing DEF FailErrorResume, GoTo, NotifyDoneLoadDone, FinishingCallouts
  <2>12. CASE FailLoadDoneResume
    BY <2>12, QuietFinishing, RemoveAndReleaseFinishing DEF FailLoadDoneResume, GoTo
  <2>13. CASE PartResponseResume \/ PartFinishResume
    BY <2>13, QuietFinishing
    DEF PartResponseResume, PartFinishResume, NextPart, FinishingCallouts
  <2>14. CASE FinPartResume
    BY <2>14, QuietFinishing DEF FinPartResume, FinishingCallouts
  <2> QED
    BY SMTT(20), <1>10, <2>1, <2>2, <2>3, <2>4, <2>5, <2>6, <2>7, <2>8, <2>9, <2>10,
       <2>11, <2>12, <2>13, <2>14 DEF HandlerStep
<1>11. CASE UNCHANGED vars
  BY <1>11 DEF vars, FinishingRest
<1> QED
  BY <1>1, <1>2, <1>3, <1>4, <1>5, <1>6, <1>7, <1>8, <1>9, <1>10, <1>11
  DEF Next, TransportEvent

\* A cancelled loader has reached its terminal state, and m_state is
\* Finishing only while didFinishLoading, didFail or the HTTP-error branch
\* of didReceiveResponse waits in one of its call-outs.
THEOREM FinishingCorrect == Spec => []FinishingInv
<1>1. Init => FinishingRest
  BY DEF Init, FinishingRest
<1>2. FinishingInv <=> TypeOK /\ FinishingRest
  BY DEF FinishingInv, FinishingRest
<1> QED
  BY <1>1, <1>2, InitTyped, TypeStep, FinishingStep, PTL DEF Spec

\* No handler of the loader returns to the transport with m_state left at
\* Finishing: didFinishLoading, didFail and the HTTP-error branch of
\* didReceiveResponse end the load on every path, whatever reentrant
\* cancel lands in their call-outs.
THEOREM FinishingTransient == Spec => []NoFinishingAtRest
<1>1. FinishingInv => NoFinishingAtRest
  BY DEF FinishingInv, NoFinishingAtRest, FinishingCallouts
<1> QED
  BY <1>1, FinishingCorrect, PTL

-----------------------------------------------------------------------------
(***************************************************************************)
(* FollowedWithinMax, through its inductive form RedirectInv.             *)
(***************************************************************************)
RedirectRest ==
    /\ FollowedWithinMax
    /\ ~terminal => redirectCount <= MaxRedirects
    /\ pc = "RedirAwait" /\ ~terminal => followed < redirectCount

\* A step that counts and follows no redirect, never revives a terminal
\* loader and reaches the redirect continuation only from itself keeps
\* RedirectRest.
LEMMA RedirectFrame ==
    ASSUME TypeOK, RedirectRest,
           UNCHANGED <<redirectCount, followed>>,
           terminal' \in BOOLEAN, terminal => terminal',
           pc' = "RedirAwait" /\ ~terminal' => pc = "RedirAwait" /\ ~terminal
    PROVE  RedirectRest'
BY SMTT(20) DEF RedirectRest, FollowedWithinMax, TypeOK

\* A cancel counts no redirect, and ends the loader.
LEMMA CancelRedirect ==
    ASSUME TypeOK, RedirectRest, NEW nested, Cancel(nested),
           UNCHANGED <<redirectCount, followed>>
    PROVE  RedirectRest'
BY RedirectFrame DEF Cancel, TypeOK

\* A step that only moves pc elsewhere than the redirect continuation.
LEMMA GoToRedirect ==
    ASSUME TypeOK, RedirectRest, NEW label, GoTo(label), label # "RedirAwait"
    PROVE  RedirectRest'
BY RedirectFrame DEF GoTo, TypeOK

\* willSendRequestInternal: the post-increment of m_redirectCount at L286
\* refuses the redirect that passes the maximum, and a redirect that
\* passes every check waits for redirectReceived's continuation.
LEMMA WillSendRequestRedirect ==
    ASSUME TypeOK, RedirectRest, WillSendRequest
    PROVE  RedirectRest'
<1>0. ~terminal
  BY DEF WillSendRequest
<1>1. ~terminal /\ redirectCount <= MaxRedirects /\ followed <= redirectCount
  BY <1>0 DEF RedirectRest, FollowedWithinMax
<1>2. PICK validURL \in BOOLEAN, verdict \in Verdicts :
        \/ /\ ~validURL \/ opts.redirect = "Error"
           /\ \E nested \in BOOLEAN : Cancel(nested)
           /\ CancelFrame
        \/ /\ validURL /\ opts.redirect = "Manual"
           /\ pc' = "RedirManual"
           /\ UNCHANGED <<terminal, redirectCount, followed>>
        \/ /\ validURL /\ opts.redirect = "Follow"
           /\ redirectCount' = redirectCount + 1
           /\ \/ /\ TooManyRedirects \/ verdict = "Rejected"
                 /\ \E nested \in BOOLEAN : Cancel(nested)
                 /\ UNCHANGED followed
              \/ /\ ~TooManyRedirects /\ verdict = "Pass"
                 /\ pc' = "RedirAwait"
                 /\ UNCHANGED <<terminal, followed>>
  BY DEF WillSendRequest
<1>3. CASE \E nested \in BOOLEAN : Cancel(nested)
  <2>1. terminal' = TRUE
    BY <1>3 DEF Cancel
  <2>2. redirectCount' \in {redirectCount, redirectCount + 1} /\ followed' = followed
    BY <1>2, <1>3 DEF CancelFrame
  <2> QED
    BY <1>1, <2>1, <2>2, ConstantsAssumption DEF RedirectRest, FollowedWithinMax, TypeOK
<1>4. CASE ~\E nested \in BOOLEAN : Cancel(nested)
  BY <1>1, <1>2, <1>4, ConstantsAssumption
  DEF RedirectRest, FollowedWithinMax, TooManyRedirects, TypeOK
<1> QED
  BY SMTT(20), <1>3, <1>4

\* The continuation of redirectReceived follows a counted redirect.
LEMMA RedirContinueRedirect ==
    ASSUME TypeOK, RedirectRest, RedirContinue
    PROVE  RedirectRest'
<1>1. CASE GoTo("Idle")
  BY <1>1, GoToRedirect
<1>2. CASE /\ ~terminal
           /\ \E nested \in BOOLEAN : Cancel(nested)
           /\ UNCHANGED <<redirectCount, followed>>
  BY <1>2, CancelRedirect
<1>3. CASE /\ ~terminal
           /\ followed' = followed + 1
           /\ pc' = "Idle"
           /\ UNCHANGED <<terminal, redirectCount>>
  <2>0. pc = "RedirAwait"
    BY DEF RedirContinue
  <2>1. followed < redirectCount /\ redirectCount <= MaxRedirects
    BY <1>3, <2>0 DEF RedirectRest
  <2> QED
    BY <1>3, <2>1, ConstantsAssumption DEF RedirectRest, FollowedWithinMax, TypeOK
<1> QED
  BY <1>1, <1>2, <1>3 DEF RedirContinue

\* Every step keeps RedirectRest.
LEMMA RedirectStep == TypeOK /\ RedirectRest /\ [Next]_vars => RedirectRest'
<1> SUFFICES ASSUME TypeOK, RedirectRest, [Next]_vars PROVE RedirectRest'
  OBVIOUS
<1>1. CASE InitSucceeded
  BY <1>1, RedirectFrame DEF InitSucceeded, TypeOK
<1>2. CASE InitFailed
  BY <1>2, CancelRedirect DEF InitFailed, CancelFrame
<1>3. CASE ExternalCancel
  BY <1>3, CancelRedirect DEF ExternalCancel, CancelFrame
<1>4. CASE ReentrantCancel
  BY <1>4, CancelRedirect DEF ReentrantCancel, CancelFrame
<1>5. CASE WillSendRequest
  BY <1>5, WillSendRequestRedirect
<1>6. CASE ReceiveResponse
  <2>1. PICK r \in Responses :
          \/ DidFailStart
          \/ /\ \E nested \in BOOLEAN : Cancel(nested)
             /\ UNCHANGED <<pc, redirectCount, followed>>
          \/ UNCHANGED <<terminal, redirectCount, followed>> /\ pc' = "Resp304"
          \/ ResponseAfterRevalidation(r)
    BY <1>6 DEF ReceiveResponse
  <2>2. CASE DidFailStart
    BY <2>2, RedirectFrame DEF DidFailStart, TypeOK
  <2>3. CASE /\ \E nested \in BOOLEAN : Cancel(nested)
             /\ UNCHANGED <<pc, redirectCount, followed>>
    BY <2>3, CancelRedirect
  <2>4. CASE UNCHANGED <<terminal, redirectCount, followed>> /\ pc' = "Resp304"
    BY <2>4, RedirectFrame DEF TypeOK
  <2>5. CASE ResponseAfterRevalidation(r)
    <3>1. UNCHANGED <<redirectCount, followed>>
      BY <2>5 DEF ResponseAfterRevalidation
    <3>2. CASE \E nested \in BOOLEAN : Cancel(nested)
      BY <3>1, <3>2, CancelRedirect
    <3>3. CASE ~\E nested \in BOOLEAN : Cancel(nested)
      <4>1. UNCHANGED terminal /\ pc' # "RedirAwait"
        BY <2>5, <3>3 DEF ResponseAfterRevalidation, NextPart
      <4> QED
        BY SMTT(20), <3>1, <4>1, RedirectFrame DEF TypeOK
    <3> QED
      BY SMTT(20), <3>2, <3>3
  <2> QED
    BY <2>1, <2>2, <2>3, <2>4, <2>5
<1>7. CASE ReceiveBuffer
  BY SMTT(20), <1>7, RedirectFrame DEF ReceiveBuffer, TypeOK
<1>8. CASE Finish
  BY SMTT(20), <1>8, RedirectFrame DEF Finish, DidFinishLoadingStart, TypeOK
<1>9. CASE Fail
  BY <1>9, RedirectFrame DEF Fail, DidFailStart, TypeOK
<1>10. CASE HandlerStep
  <2>1. CASE RedirContinue
    BY <2>1, RedirContinueRedirect
  <2>2. CASE RedirManualResume
    BY <2>2, GoToRedirect, RedirectFrame
    DEF RedirManualResume, DidFinishLoadingStart, TypeOK
  <2>3. CASE ResponseCalloutReturn
    BY <2>3, GoToRedirect DEF ResponseCalloutReturn
  <2>4. CASE RespReceivedResume
    BY SMTT(20), <2>4, GoToRedirect DEF RespReceivedResume
  <2>5. CASE RespPolicyResume
    BY <2>5, GoToRedirect, CancelRedirect, RedirectFrame
    DEF RespPolicyResume, Cancel, TypeOK
  <2>6. CASE RespHTTPErrorResume
    BY SMTT(20), <2>6, GoToRedirect, CancelRedirect DEF RespHTTPErrorResume
  <2>7. CASE BufferResume
    BY SMTT(20), <2>7, RedirectFrame DEF BufferResume, TypeOK
  <2>8. CASE FinLoadingResume
    BY SMTT(20), <2>8, GoToRedirect, RedirectFrame DEF FinLoadingResume, TypeOK
  <2>9. CASE FinOnePartResume
    BY SMTT(20), <2>9, GoToRedirect, RedirectFrame DEF FinOnePartResume, NotifyDoneLoadDone, TypeOK
  <2>10. CASE FinLoadDoneResume
    BY ZenonT(30), <2>10, GoToRedirect, RedirectFrame DEF FinLoadDoneResume, RemoveAndRelease, TypeOK
  <2>11. CASE FailErrorResume
    BY <2>11, GoToRedirect, RedirectFrame DEF FailErrorResume, NotifyDoneLoadDone, TypeOK
  <2>12. CASE FailLoadDoneResume
    BY ZenonT(30), <2>12, GoToRedirect, RedirectFrame DEF FailLoadDoneResume, RemoveAndRelease, TypeOK
  <2>13. CASE PartResponseResume \/ PartFinishResume \/ FinPartResume
    BY <2>13, RedirectFrame
    DEF PartResponseResume, PartFinishResume, FinPartResume, NextPart, TypeOK
  <2> QED
    BY SMTT(20), <1>10, <2>1, <2>2, <2>3, <2>4, <2>5, <2>6, <2>7, <2>8, <2>9, <2>10,
       <2>11, <2>12, <2>13 DEF HandlerStep
<1>11. CASE UNCHANGED vars
  BY <1>11 DEF vars, RedirectRest, FollowedWithinMax
<1> QED
  BY <1>1, <1>2, <1>3, <1>4, <1>5, <1>6, <1>7, <1>8, <1>9, <1>10, <1>11
  DEF Next, TransportEvent

\* willSendRequestInternal's m_redirectCount (L286) never passes
\* options().maxRedirectCount while the loader lives, and a redirect whose
\* redirectReceived continuation is pending has been counted.
THEOREM RedirectCorrect == Spec => []RedirectInv
<1>1. Init => RedirectRest
  BY ConstantsAssumption DEF Init, RedirectRest, FollowedWithinMax
<1>2. RedirectInv <=> TypeOK /\ RedirectRest
  BY DEF RedirectInv, RedirectRest
<1> QED
  BY <1>1, <1>2, InitTyped, TypeStep, RedirectStep, PTL DEF Spec

\* willSendRequestInternal follows at most options().maxRedirectCount
\* redirects, whatever cancels land in redirectReceived's continuation.
THEOREM RedirectsBounded == Spec => []FollowedWithinMax
<1>1. RedirectInv => FollowedWithinMax
  BY DEF RedirectInv
<1> QED
  BY <1>1, RedirectCorrect, PTL

-----------------------------------------------------------------------------
(***************************************************************************)
(* CacheConsistent, through its inductive form CacheInv.                  *)
(***************************************************************************)
CacheRest ==
    /\ CacheConsistent
    /\ revalidating => atOldURL
    /\ cacheEntry = "Old" =>
          /\ phase # "Request" /\ ~multipart /\ pc \notin NewResponseCallouts
    /\ multipart \/ pc \in NewResponseCallouts => ~revalidating

\* A cancel ends any revalidation and never puts the old resource back in
\* the cache (willCancel, L835-865).
LEMMA CancelCache ==
    ASSUME TypeOK, CacheRest, NEW nested, Cancel(nested),
           UNCHANGED <<opts, resResp, atOldURL>>,
           pc' \in {pc, "Idle"},
           multipart' => multipart \/ pc \in NewResponseCallouts
    PROVE  CacheRest'
<1>1. /\ revalidating' => revalidating
      /\ (cacheEntry' = "Old") = (cacheEntry = "Old")
      /\ phase' = "Done"
  BY DEF Cancel, WillCancel, TypeOK
<1> QED
  BY SMTT(20), <1>1 DEF CacheRest, CacheConsistent, NewResponseCallouts, TypeOK

\* A step that leaves the cache entry, the response, the revalidation and
\* its URL, the phase and the multipart flag alone, and enters none of the
\* new-response call-outs, keeps CacheRest.
LEMMA QuietCache ==
    ASSUME CacheRest,
           UNCHANGED <<cacheEntry, resResp, revalidating, atOldURL, phase,
                       multipart>>,
           pc' \notin NewResponseCallouts
    PROVE  CacheRest'
BY DEF CacheRest, CacheConsistent

\* Every step keeps CacheRest.
LEMMA CacheStep == TypeOK /\ CacheRest /\ [Next]_vars => CacheRest'
<1> SUFFICES ASSUME TypeOK, CacheRest, [Next]_vars PROVE CacheRest'
  OBVIOUS
<1>1. CASE InitSucceeded
  BY <1>1 DEF InitSucceeded, CacheRest, CacheConsistent
<1>2. CASE InitFailed \/ ExternalCancel \/ ReentrantCancel
  <2>1. PICK nested \in BOOLEAN : Cancel(nested) /\ CancelFrame
    BY <1>2 DEF InitFailed, ExternalCancel, ReentrantCancel
  <2> QED
    BY <2>1, CancelCache DEF CancelFrame
<1>3. CASE WillSendRequest
  <2>1. CASE \E nested \in BOOLEAN : Cancel(nested)
    <3>1. PICK nested \in BOOLEAN : Cancel(nested)
      BY <2>1
    <3>2. UNCHANGED <<opts, resResp, pc, multipart, atOldURL>>
      BY ZenonT(30), <1>3, <3>1 DEF WillSendRequest, CancelFrame, Cancel
    <3> QED
      BY <3>1, <3>2, CancelCache
  <2>2. CASE ~\E nested \in BOOLEAN : Cancel(nested)
    <3>0. phase = "Request"
      BY <1>3 DEF WillSendRequest
    <3>1. cacheEntry # "Old" /\ (multipart => ~revalidating)
      BY <3>0 DEF CacheRest
    <3>2. PICK sameURL \in BOOLEAN :
            \/ /\ pc' = "RedirManual"
               /\ UNCHANGED <<revalidating, cacheEntry, multipart, atOldURL>>
            \/ /\ revalidating' = KeepsRevalidation(sameURL)
               /\ atOldURL' = sameURL
               /\ pc' = "RedirAwait"
               /\ UNCHANGED <<cacheEntry, multipart>>
      BY ZenonT(30), <1>3, <2>2 DEF WillSendRequest
    <3>3. /\ UNCHANGED <<cacheEntry, multipart>>
          /\ revalidating' => revalidating /\ atOldURL'
          /\ pc' \notin NewResponseCallouts
      <4>1. CASE pc' = "RedirManual"
             /\ UNCHANGED <<revalidating, cacheEntry, multipart, atOldURL>>
        BY <4>1 DEF CacheRest, NewResponseCallouts
      <4>2. CASE /\ revalidating' = KeepsRevalidation(sameURL)
                 /\ atOldURL' = sameURL
                 /\ pc' = "RedirAwait"
                 /\ UNCHANGED <<cacheEntry, multipart>>
        BY <4>2 DEF KeepsRevalidation, NewResponseCallouts
      <4> QED
        BY <3>2, <4>1, <4>2
    <3> QED
      BY <3>1, <3>3 DEF CacheRest, CacheConsistent
  <2> QED
    BY <2>1, <2>2
<1>4. CASE ReceiveResponse
  <2>0. phase = "Request" \/ multipart
    BY <1>4 DEF ReceiveResponse
  <2>1. cacheEntry # "Old" /\ (revalidating => ~multipart /\ atOldURL)
    BY <2>0 DEF CacheRest
  <2>2. CASE \E nested \in BOOLEAN : Cancel(nested)
    <3>1. PICK nested \in BOOLEAN : Cancel(nested)
      BY <2>2
    <3>2. UNCHANGED <<opts, resResp, pc, multipart, atOldURL>>
      BY <1>4, <3>1 DEF ReceiveResponse, ResponseAfterRevalidation, DidFailStart,
         Cancel, EndRevalidation, NextPart
    <3> QED
      BY <3>1, <3>2, CancelCache
  <2>3. CASE ~\E nested \in BOOLEAN : Cancel(nested)
    <3>1. PICK r \in Responses :
            \/ /\ r.pre = "Invalid" /\ DidFailStart
            \/ /\ r.pre = "Ok" /\ revalidating /\ r.status = "NotModified"
               /\ resResp' = AsResource(r)
               /\ revalidating' = FALSE /\ cacheEntry' = "Old"
               /\ phase' = "Body" /\ pc' = "Resp304"
               /\ UNCHANGED <<multipart, atOldURL>>
            \/ /\ ResponseAfterRevalidation(r)
               /\ ~\E nested \in BOOLEAN : Cancel(nested)
      BY <1>4, <2>3 DEF ReceiveResponse
    <3>2. CASE r.pre = "Invalid" /\ DidFailStart
      BY <3>2, <2>1 DEF DidFailStart, CacheRest, CacheConsistent
    <3>3. CASE /\ r.pre = "Ok" /\ revalidating /\ r.status = "NotModified"
               /\ resResp' = AsResource(r)
               /\ revalidating' = FALSE /\ cacheEntry' = "Old"
               /\ phase' = "Body" /\ pc' = "Resp304"
               /\ UNCHANGED <<multipart, atOldURL>>
      <4>1. ~multipart' /\ atOldURL' /\ resResp'.status = "NotModified"
        BY <3>3, <2>1 DEF AsResource
      <4> QED
        BY <3>3, <4>1 DEF CacheRest, CacheConsistent, NewResponseCallouts
    <3>4. CASE ResponseAfterRevalidation(r) /\ ~\E nested \in BOOLEAN : Cancel(nested)
      <4>1. UNCHANGED cacheEntry /\ revalidating' = FALSE
        BY ZenonT(30), <3>4 DEF ResponseAfterRevalidation, EndRevalidation
      <4> QED
        BY SMTT(20), <2>1, <4>1 DEF CacheRest, CacheConsistent
    <3> QED
      BY <3>1, <3>2, <3>3, <3>4
  <2> QED
    BY <2>2, <2>3
<1>5. CASE ReceiveBuffer \/ Fail
  BY <1>5 DEF ReceiveBuffer, Fail, DidFailStart, CacheRest, CacheConsistent,
     NewResponseCallouts
<1>6. CASE Finish
  <2>1. cacheEntry = "Old" => ~multipart
    BY DEF CacheRest
  <2>2. /\ cacheEntry = "Old" => UNCHANGED resResp
        /\ UNCHANGED <<cacheEntry, revalidating, atOldURL, multipart>>
        /\ pc' \notin NewResponseCallouts /\ phase' = "Done"
    BY <1>6, <2>1 DEF Finish, DidFinishLoadingStart, NewResponseCallouts
  <2> QED
    BY <2>2 DEF CacheRest, CacheConsistent
<1>7. CASE HandlerStep
  <2>1. CASE RedirContinue
    <3>1. pc = "RedirAwait"
      BY <2>1 DEF RedirContinue
    <3>2. CASE \E nested \in BOOLEAN : Cancel(nested)
      <4>1. PICK nested \in BOOLEAN : Cancel(nested)
        BY <3>2
      <4>2. UNCHANGED <<opts, resResp, atOldURL, multipart>> /\ pc' = "Idle"
        BY <2>1, <4>1 DEF RedirContinue, GoTo, Cancel
      <4> QED
        BY SMTT(20), <4>1, <4>2, CancelCache
    <3>3. CASE ~\E nested \in BOOLEAN : Cancel(nested)
      <4>1. /\ UNCHANGED <<cacheEntry, resResp, revalidating, atOldURL, phase,
                           multipart>>
            /\ pc' = "Idle"
        BY <2>1, <3>3 DEF RedirContinue, GoTo
      <4> QED
        BY SMTT(20), <4>1, QuietCache DEF NewResponseCallouts
    <3> QED
      BY <3>2, <3>3
  <2>2. CASE RedirManualResume
    <3>1. CASE GoTo("Idle")
      BY <3>1, QuietCache DEF GoTo, NewResponseCallouts
    <3>2. CASE DidFinishLoadingStart
      <4>1. /\ cacheEntry = "Old" => UNCHANGED resResp
            /\ UNCHANGED <<cacheEntry, revalidating, atOldURL, multipart>>
            /\ pc' \notin NewResponseCallouts /\ phase' = "Done"
        BY SMTT(20), <3>2 DEF DidFinishLoadingStart, CacheRest, NewResponseCallouts
      <4> QED
        BY <4>1 DEF CacheRest, CacheConsistent
    <3> QED
      BY <2>2, <3>1, <3>2 DEF RedirManualResume
  <2>3. CASE ResponseCalloutReturn \/ BufferResume \/ FinPartResume
    BY <2>3, QuietCache DEF ResponseCalloutReturn, BufferResume, FinPartResume,
       GoTo, NewResponseCallouts
  <2>4. CASE RespReceivedResume \/ PartResponseResume
    <3>1. /\ UNCHANGED <<cacheEntry, resResp, revalidating, atOldURL, phase,
                         multipart>>
          /\ pc \in NewResponseCallouts
      BY <2>4 DEF RespReceivedResume, PartResponseResume, GoTo, NewResponseCallouts
    <3> QED
      BY SMTT(20), <3>1 DEF CacheRest, CacheConsistent
  <2>5. CASE PartFinishResume
    <3>1. /\ UNCHANGED <<cacheEntry, resResp, revalidating, atOldURL, phase,
                         multipart>>
          /\ pc \in NewResponseCallouts
      BY SMTT(20), <2>5 DEF PartFinishResume, NextPart, NewResponseCallouts
    <3> QED
      BY <3>1 DEF CacheRest, CacheConsistent
  <2>6. CASE RespPolicyResume
    <3>0. pc = "RespPolicy"
      BY <2>6 DEF RespPolicyResume
    <3>1. pc = "RespPolicy" /\ cacheEntry # "Old" /\ ~revalidating
      BY <3>0 DEF CacheRest, NewResponseCallouts
    <3>2. CASE \E nested \in BOOLEAN : Cancel(nested)
      <4>1. PICK nested \in BOOLEAN : Cancel(nested)
        BY <3>2
      <4>2. UNCHANGED <<opts, resResp, atOldURL>> /\ pc' = "Idle"
        BY <2>6, <4>1 DEF RespPolicyResume, GoTo, Cancel
      <4> QED
        BY SMTT(20), <3>1, <4>1, <4>2, CancelCache DEF NewResponseCallouts
    <3>3. CASE ~\E nested \in BOOLEAN : Cancel(nested)
      <4>1. /\ UNCHANGED <<cacheEntry, resResp, revalidating, atOldURL, phase>>
            /\ pc' \notin NewResponseCallouts
        BY <2>6, <3>3 DEF RespPolicyResume, GoTo, NewResponseCallouts
      <4> QED
        BY SMTT(20), <3>1, <4>1 DEF CacheRest, CacheConsistent
    <3> QED
      BY <3>2, <3>3
  <2>7. CASE RespHTTPErrorResume
    <3>1. CASE GoTo("Idle")
      BY <3>1, QuietCache DEF GoTo, NewResponseCallouts
    <3>2. CASE \E nested \in BOOLEAN : Cancel(nested)
      <4>1. PICK nested \in BOOLEAN : Cancel(nested)
        BY <3>2
      <4>2. UNCHANGED <<opts, resResp, atOldURL, multipart>> /\ pc' = "Idle"
        BY ZenonT(30), <2>7, <4>1 DEF RespHTTPErrorResume, GoTo, Cancel
      <4> QED
        BY <4>1, <4>2, CancelCache
    <3> QED
      BY SMTT(20), <2>7, <3>1, <3>2 DEF RespHTTPErrorResume
  <2>8. CASE FinLoadingResume \/ FinOnePartResume \/ FinLoadDoneResume
    BY <2>8, QuietCache DEF FinLoadingResume, FinOnePartResume, FinLoadDoneResume,
       GoTo, NotifyDoneLoadDone, RemoveAndRelease, NewResponseCallouts
  <2>9. CASE FailErrorResume \/ FailLoadDoneResume
    BY ZenonT(30), <2>9, QuietCache DEF FailErrorResume, FailLoadDoneResume, GoTo,
       NotifyDoneLoadDone, RemoveAndRelease, NewResponseCallouts
  <2> QED
    BY SMTT(20), <1>7, <2>1, <2>2, <2>3, <2>4, <2>5, <2>6, <2>7, <2>8, <2>9 DEF HandlerStep
<1>8. CASE UNCHANGED vars
  BY SMTT(20), <1>8 DEF vars, CacheRest, CacheConsistent
<1> QED
  BY <1>1, <1>2, <1>3, <1>4, <1>5, <1>6, <1>7, <1>8 DEF Next, TransportEvent

\* A pending revalidation is at the revalidated URL (L296-301 ends it on
\* a redirect elsewhere); after revalidationSucceeded (L439-450) the loader
\* is past the request phase, single-part and between no new response and
\* its policy, and no revalidation is pending once a new or a multipart
\* response is delivered (L452-456 ends it).
THEOREM CacheCorrect == Spec => []CacheInv
<1>1. Init => CacheRest
  BY DEF Init, CacheRest, CacheConsistent, NewResponseCallouts
<1>2. CacheInv <=> TypeOK /\ CacheRest
  BY DEF CacheInv, CacheRest
<1> QED
  BY <1>1, <1>2, InitTyped, TypeStep, CacheStep, PTL DEF Spec

\* The old resource of a revalidation is back in the memory cache only
\* for a 304 answered at the revalidated URL, and keeps that 304 as its
\* response, whatever order redirects (L296-301), responses, multipart
\* parts (L488-499) and cancels come in.
THEOREM CacheKept == Spec => []CacheConsistent
<1>1. CacheInv => CacheConsistent
  BY DEF CacheInv
<1> QED
  BY <1>1, CacheCorrect, PTL
-----------------------------------------------------------------------------
(***************************************************************************)
(* BodyAfterRevalidation, through the inductive form BodyInv.             *)
(***************************************************************************)
BodyRest ==
    /\ phase = "Body" => ~revalidating
    /\ phase # "Done" /\ ~terminal /\ pc # "RespHTTPError" =>
          resStatus # "LoadError"
    /\ phase = "Body" /\ ~terminal /\ pc # "RespHTTPError" =>
          state = "Initialized"

\* Every cancel ends the load's phases (Cancel sets phase to Done).
LEMMA CancelBody ==
    ASSUME NEW nested, Cancel(nested)
    PROVE  BodyRest'
BY DEF Cancel, BodyRest

\* A step outside the HTTP-error call-out that keeps the phase, the
\* revalidation and m_state, never undoes the terminal state and never
\* fails the resource keeps BodyRest.
LEMMA BodyFrame ==
    ASSUME BodyRest, pc # "RespHTTPError",
           UNCHANGED <<phase, revalidating, state>>,
           terminal => terminal',
           resStatus' = "LoadError" => resStatus = "LoadError"
    PROVE  BodyRest'
BY DEF BodyRest

\* Every step keeps BodyRest.
LEMMA BodyStep == TypeOK /\ BodyRest /\ [Next]_vars => BodyRest'
<1> SUFFICES ASSUME TypeOK, BodyRest, [Next]_vars PROVE BodyRest'
  OBVIOUS
<1>1. CASE InitSucceeded
  BY <1>1 DEF InitSucceeded, BodyRest
<1>2. CASE InitFailed \/ ExternalCancel \/ ReentrantCancel
  BY <1>2, CancelBody DEF InitFailed, ExternalCancel, ReentrantCancel
<1>3. CASE WillSendRequest
  <2>1. CASE \E nested \in BOOLEAN : Cancel(nested)
    BY <2>1, CancelBody
  <2>2. CASE ~\E nested \in BOOLEAN : Cancel(nested)
    <3>1. /\ phase = "Request" /\ phase' = "Request"
          /\ pc = "Idle" /\ ~terminal
          /\ UNCHANGED <<terminal, resStatus>>
          /\ pc' # "RespHTTPError"
      BY ZenonT(30), <1>3, <2>2 DEF WillSendRequest
    <3> QED
      BY <3>1 DEF BodyRest
  <2> QED
    BY <2>1, <2>2
<1>4. CASE ReceiveResponse
  <2>1. pc = "Idle" /\ ~terminal /\ state = "Initialized" /\ phase # "Done"
    BY <1>4 DEF ReceiveResponse
  <2>2. resStatus # "LoadError"
    BY <2>1 DEF BodyRest
  <2>3. CASE \E nested \in BOOLEAN : Cancel(nested)
    BY <2>3, CancelBody
  <2>4. CASE ~\E nested \in BOOLEAN : Cancel(nested)
    <3>1. PICK r \in Responses :
            \/ DidFailStart
            \/ /\ revalidating' = FALSE /\ pc' = "Resp304"
               /\ UNCHANGED <<state, terminal, resStatus>>
            \/ /\ ResponseAfterRevalidation(r)
               /\ ~\E nested \in BOOLEAN : Cancel(nested)
      BY <1>4, <2>4 DEF ReceiveResponse
    <3>2. CASE DidFailStart
      BY <3>2 DEF DidFailStart, BodyRest
    <3>3. CASE /\ revalidating' = FALSE /\ pc' = "Resp304"
               /\ UNCHANGED <<state, terminal, resStatus>>
      BY <2>1, <2>2, <3>3 DEF BodyRest
    <3>4. CASE ResponseAfterRevalidation(r) /\ ~\E nested \in BOOLEAN : Cancel(nested)
      <4>1. /\ revalidating' = FALSE
            /\ pc' \in {"RespOpaque", "RespReceived", "PartResponse"}
            /\ UNCHANGED <<state, terminal, resStatus>>
        BY <3>4 DEF ResponseAfterRevalidation, EndRevalidation, NextPart
      <4> QED
        BY SMTT(20), <2>1, <2>2, <4>1 DEF BodyRest
    <3> QED
      BY <3>1, <3>2, <3>3, <3>4
  <2> QED
    BY <2>3, <2>4
<1>5. CASE ReceiveBuffer
  BY <1>5, BodyFrame DEF ReceiveBuffer
<1>6. CASE Finish \/ Fail
  BY <1>6 DEF Finish, Fail, DidFinishLoadingStart, DidFailStart, BodyRest
<1>7. CASE HandlerStep
  <2>1. CASE RedirContinue
    <3>1. CASE \E nested \in BOOLEAN : Cancel(nested)
      BY <3>1, CancelBody
    <3>2. CASE ~\E nested \in BOOLEAN : Cancel(nested)
      <4>1. /\ pc = "RedirAwait"
            /\ UNCHANGED <<phase, revalidating, state, terminal, resStatus>>
        BY <2>1, <3>2 DEF RedirContinue, GoTo
      <4> QED
        BY <4>1, BodyFrame
    <3> QED
      BY <3>1, <3>2
  <2>7. CASE RedirManualResume
    <3>1. CASE DidFinishLoadingStart
      BY <3>1 DEF DidFinishLoadingStart, BodyRest
    <3>2. CASE ~DidFinishLoadingStart
      <4>1. /\ pc = "RedirManual"
            /\ UNCHANGED <<phase, revalidating, state, terminal, resStatus>>
        BY <2>7, <3>2 DEF RedirManualResume, GoTo
      <4> QED
        BY <4>1, BodyFrame
    <3> QED
      BY <3>1, <3>2
  <2>2. CASE ResponseCalloutReturn \/ RespReceivedResume \/ BufferResume
    <3>1. /\ pc # "RespHTTPError"
          /\ UNCHANGED <<phase, revalidating, state, terminal, resStatus>>
      <4>1. CASE ResponseCalloutReturn
        BY <4>1 DEF ResponseCalloutReturn, GoTo
      <4>2. CASE RespReceivedResume
        BY <4>2 DEF RespReceivedResume, GoTo
      <4>3. CASE BufferResume
        BY <4>3 DEF BufferResume
      <4> QED
        BY <2>2, <4>1, <4>2, <4>3
    <3> QED
      BY <3>1, BodyFrame
  <2>3. CASE RespPolicyResume
    <3>1. CASE \E nested \in BOOLEAN : Cancel(nested)
      BY <3>1, CancelBody
    <3>2. CASE ~\E nested \in BOOLEAN : Cancel(nested)
      <4>1. pc = "RespPolicy"
        BY <2>3 DEF RespPolicyResume
      <4>2. \/ UNCHANGED <<phase, revalidating, state, terminal, resStatus>>
            \/ pc' = "RespHTTPError" /\ UNCHANGED <<phase, revalidating, terminal>>
        BY <2>3, <3>2 DEF RespPolicyResume, GoTo
      <4> QED
        BY SMTT(20), <4>1, <4>2, BodyFrame DEF BodyRest
    <3> QED
      BY <3>1, <3>2
  <2>4. CASE RespHTTPErrorResume
    <3>1. CASE \E nested \in BOOLEAN : Cancel(nested)
      BY <3>1, CancelBody
    <3>2. CASE ~\E nested \in BOOLEAN : Cancel(nested)
      <4>1. terminal /\ terminal' /\ UNCHANGED <<phase, revalidating, state>>
        BY <2>4, <3>2 DEF RespHTTPErrorResume, GoTo
      <4> QED
        BY <4>1 DEF BodyRest
    <3> QED
      BY <3>1, <3>2
  <2>5. CASE FinLoadingResume \/ FinOnePartResume \/ FinLoadDoneResume
    <3>1. /\ pc # "RespHTTPError"
          /\ UNCHANGED <<phase, revalidating, state>>
          /\ terminal => terminal'
          /\ resStatus' = "LoadError" => resStatus = "LoadError"
      <4>1. CASE FinLoadingResume
        BY <4>1 DEF FinLoadingResume, GoTo
      <4>2. CASE FinOnePartResume
        BY <4>2 DEF FinOnePartResume, GoTo, NotifyDoneLoadDone
      <4>3. CASE FinLoadDoneResume
        BY <4>3 DEF FinLoadDoneResume, GoTo, RemoveAndRelease
      <4> QED
        BY SMTT(20), <2>5, <4>1, <4>2, <4>3
    <3> QED
      BY <3>1, BodyFrame
  <2>6. CASE FailErrorResume \/ FailLoadDoneResume
    <3>1. /\ pc # "RespHTTPError"
          /\ UNCHANGED <<phase, revalidating, state, resStatus>>
          /\ terminal => terminal'
      <4>1. CASE FailErrorResume
        BY SMTT(20), <4>1 DEF FailErrorResume, GoTo, NotifyDoneLoadDone
      <4>2. CASE FailLoadDoneResume
        BY SMTT(20), <4>2 DEF FailLoadDoneResume, GoTo, RemoveAndRelease
      <4> QED
        BY SMTT(20), <2>6, <4>1, <4>2
    <3> QED
      BY <3>1, BodyFrame
  <2>8. CASE PartResponseResume \/ PartFinishResume \/ FinPartResume
    BY SMTT(20), <2>8, BodyFrame
    DEF PartResponseResume, PartFinishResume, FinPartResume, NextPart,
        FinishLoadingStatus
  <2> QED
    BY <1>7, <2>1, <2>2, <2>3, <2>4, <2>5, <2>6, <2>7, <2>8 DEF HandlerStep
<1>8. CASE UNCHANGED vars
  BY <1>8 DEF vars, BodyRest
<1> QED
  BY SMTT(20), <1>1, <1>2, <1>3, <1>4, <1>5, <1>6, <1>7, <1>8 DEF Next, TransportEvent

\* A load in didReceiveBuffer's body phase has finished its revalidation,
\* and until it is done its resource has failed only if the load ended or
\* the HTTP-error branch is about to cancel it.
THEOREM BodyCorrect == Spec => []BodyInv
<1>1. Init => BodyRest
  BY DEF Init, BodyRest
<1>2. BodyInv <=> TypeOK /\ BodyRest
  BY DEF BodyInv, BodyRest
<1> QED
  BY <1>1, <1>2, InitTyped, TypeStep, BodyStep, PTL DEF Spec

\* The only step from between handlers into didReceiveBuffer's call-out is
\* the transport delivering a chunk: every other handler starts at another
\* call-out, and every resume starts inside one.
LEMMA BufferEntry ==
    ASSUME [Next]_vars, pc = "Idle", pc' = "Buffer"
    PROVE  ReceiveBuffer
<1>1. ~(InitSucceeded \/ InitFailed \/ ExternalCancel \/ ReentrantCancel)
  BY SMTT(20) DEF InitSucceeded, InitFailed, ExternalCancel, ReentrantCancel, CancelFrame,
     Callouts
<1>2. ~WillSendRequest
  BY ZenonT(30) DEF WillSendRequest, CancelFrame
<1>3. ~ReceiveResponse
  BY DEF ReceiveResponse, DidFailStart, ResponseAfterRevalidation, NextPart
<1>4. ~(Finish \/ Fail)
  BY SMTT(20) DEF Finish, Fail, DidFinishLoadingStart, DidFailStart
<1>5. ~HandlerStep
  BY DEF HandlerStep, RedirContinue, RedirManualResume, ResponseCalloutReturn,
     RespReceivedResume, RespPolicyResume, RespHTTPErrorResume, BufferResume,
     PartResponseResume, PartFinishResume, FinPartResume, NextPart,
     FinLoadingResume, FinOnePartResume, FinLoadDoneResume, FailErrorResume,
     FailLoadDoneResume
<1>6. ~UNCHANGED vars
  BY DEF vars
<1> QED
  BY SMTT(20), <1>1, <1>2, <1>3, <1>4, <1>5, <1>6 DEF Next, TransportEvent

\* didReceiveBuffer's assertions (L566-568) hold whenever the transport
\* delivers a chunk: the loader is Initialized, its resource is not being
\* revalidated and has not failed.
THEOREM BodyAsserted == Spec => BodyAfterRevalidation
<1>1. BodyInv /\ [Next]_vars =>
        [pc = "Idle" /\ pc' = "Buffer" =>
            /\ state = "Initialized"
            /\ ~revalidating
            /\ resStatus # "LoadError"]_vars
  <2> SUFFICES ASSUME BodyInv, [Next]_vars, pc = "Idle", pc' = "Buffer"
               PROVE  state = "Initialized" /\ ~revalidating /\ resStatus # "LoadError"
    OBVIOUS
  <2>1. ReceiveBuffer
    BY BufferEntry
  <2>2. phase = "Body" /\ ~terminal
    BY <2>1 DEF ReceiveBuffer
  <2> QED
    BY <2>2 DEF BodyInv
<1> QED
  BY <1>1, BodyCorrect, PTL DEF Spec, BodyAfterRevalidation
====
