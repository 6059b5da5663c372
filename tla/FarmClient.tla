----------------------------- MODULE FarmClient -----------------------------
(***************************************************************************)
(* A caller of the client package: bundleAndUpload, then renderMediaOnFarm *)
(* or renderStillOnFarm with that bundle, against a farm that is external. *)
(* The caller may abort its signal at any time, a request or its answer    *)
(* may be lost, and the deadline may pass; JavaScript sees each only where *)
(* it awaits.  A fetch whose signal is aborted rejects, whatever became of *)
(* the request, unless its answer was in before.                           *)
(***************************************************************************)

VARIABLES
    pc,        \* the await the call is in, or what it does in between
    hooked,    \* options.waitForCompletion is given
    aborted,   \* the caller's signal
    late,      \* Date.now() has reached the deadline
    id,        \* the call knows a renderId
    status,    \* the last status it was given
    why,       \* what abandon will rethrow, and how the call settled
    bundle,    \* external: what the farm has of the bundle
    request,   \* external: the enqueue request
    render,    \* external: the render at the farm
    cancels    \* history: the cancel request, "none" if none was sent

client == <<hooked, pc, id, status, why>>
farm == <<bundle, request, render>>
vars == <<client, aborted, late, farm, cancels>>

Terminal == {"complete", "failed", "canceled"}
\* The awaits on a fetch that carries the caller's signal.
Signaled == {"register", "put", "finalize", "enqueuing", "poll"}
Walkaways == {"timeout", "abort"}

Init ==
    /\ pc = "archive" /\ hooked \in BOOLEAN /\ id = FALSE /\ status = "none" /\ why = "none"
    /\ aborted = FALSE /\ late = FALSE
    /\ bundle \in {"none", "registered"} /\ request = "none" /\ render = "none"
    /\ cancels = "none"

Settles(reason) == pc' = "settled" /\ why' = reason

(***************************************************************************)
(* bundleAndUpload.                                                        *)
(***************************************************************************)

\* The version check, the bundler and the archive, none of which look at
\* the signal.
Archive ==
    /\ pc = "archive"
    /\ (pc' = "register" /\ UNCHANGED why) \/ Settles("error")
    /\ UNCHANGED <<hooked, id, status, aborted, late, farm, cancels>>

Register ==
    /\ pc = "register"
    /\ pc' = IF bundle = "registered" THEN "enqueue" ELSE "put"
    /\ UNCHANGED <<hooked, id, status, why, aborted, late, farm, cancels>>

Put ==
    /\ pc = "put"
    /\ bundle' = IF bundle = "none" THEN "stored" ELSE bundle
    /\ pc' = "finalize"
    /\ UNCHANGED <<hooked, id, status, why, aborted, late, request, render, cancels>>

Finalize ==
    /\ pc = "finalize"
    /\ bundle' = "registered"
    /\ pc' = "enqueue"
    /\ UNCHANGED <<hooked, id, status, why, aborted, late, request, render, cancels>>

\* A refusal, a malformed answer, or no answer to what the farm may have done.
UploadFails ==
    /\ pc \in {"register", "put", "finalize"}
    /\ bundle' \in {bundle, CASE pc = "put" /\ bundle = "none" -> "stored"
                              [] pc = "finalize" -> "registered"
                              [] OTHER -> bundle}
    /\ Settles("error")
    /\ UNCHANGED <<hooked, id, status, aborted, late, request, render, cancels>>

(***************************************************************************)
(* Enqueue.                                                                *)
(***************************************************************************)

\* The still's gl check and the request schema, then the POST.
Enqueue ==
    /\ pc = "enqueue"
    /\ \/ pc' = "enqueuing" /\ request' = "flying" /\ UNCHANGED why
       \/ Settles("error") /\ UNCHANGED request
    /\ UNCHANGED <<hooked, id, status, aborted, late, bundle, render, cancels>>

\* The farm takes or loses the request, also after the caller has gone.
FarmTakes ==
    /\ request = "flying"
    /\ \/ request' = "taken" /\ render' = "live"
       \/ request' = "lost" /\ UNCHANGED render
    /\ UNCHANGED <<client, aborted, late, bundle, cancels>>

Waiting == IF hooked THEN "callback" ELSE "poll"

Enqueued ==
    /\ pc = "enqueuing" /\ request = "taken"
    /\ id' = TRUE
    /\ pc' = Waiting
    /\ UNCHANGED <<hooked, status, why, aborted, late, farm, cancels>>

EnqueueFails ==
    /\ pc = "enqueuing"
    /\ Settles("error")
    /\ UNCHANGED <<hooked, id, status, aborted, late, farm, cancels>>

(***************************************************************************)
(* The wait.                                                               *)
(***************************************************************************)

\* abandon: the cancel request goes without the caller's signal.
abandon(reason) == pc' = "cancel" /\ why' = reason

\* An answer to the poll, or from the caller's callback.
Answered ==
    /\ pc \in {"poll", "callback"}
    /\ status' = render
    /\ pc' = "got"
    /\ UNCHANGED <<hooked, id, why, aborted, late, farm, cancels>>

\* The poll or the callback rejects: walking away only if the signal says so.
WaitFails ==
    /\ pc \in {"poll", "callback"}
    /\ IF aborted THEN abandon("abort") ELSE Settles("error")
    /\ UNCHANGED <<hooked, id, status, aborted, late, farm, cancels>>

\* The fetches reject on abort; all but the poll before there is a renderId.
FetchAborted ==
    /\ pc \in Signaled \ {"poll"} /\ aborted
    /\ Settles("abort")
    /\ UNCHANGED <<hooked, id, status, aborted, late, farm, cancels>>

PollAborted ==
    /\ pc = "poll" /\ aborted
    /\ abandon("abort")
    /\ UNCHANGED <<hooked, id, status, aborted, late, farm, cancels>>

\* Slip: an ended render is looked at after the deadline.
DecideLate ==
    /\ pc = "got"
    /\ \/ Settles("error")
       \/ /\ late /\ ~hooked
          /\ abandon("timeout")
       \/ /\ ~late \/ hooked
          /\ \/ status = "complete" /\ Settles("result")
             \/ status \in {"failed", "canceled"} /\ Settles("ended")
             \/ status = "live" /\ pc' = "sleep" /\ UNCHANGED why
    /\ UNCHANGED <<hooked, id, status, aborted, late, farm, cancels>>

\* Slip: no deadline.
DecidePatiently ==
    /\ pc = "got"
    /\ \/ status = "complete" /\ Settles("result")
       \/ status \in {"failed", "canceled"} /\ Settles("ended")
       \/ status = "live" /\ ~hooked /\ pc' = "sleep" /\ UNCHANGED why
    /\ UNCHANGED <<hooked, id, status, aborted, late, farm, cancels>>

\* What a status leads to. The caller's onProgress may throw first; a still
\* needs a measured size; a callback must bring an end.
Decide ==
    /\ pc = "got"
    /\ \/ Settles("error")
       \/ status = "complete" /\ Settles("result")
       \/ status \in {"failed", "canceled"} /\ Settles("ended")
       \/ /\ status = "live" /\ ~hooked
          /\ IF late THEN abandon("timeout") ELSE pc' = "sleep" /\ UNCHANGED why
    /\ UNCHANGED <<hooked, id, status, aborted, late, farm, cancels>>

\* The timer fires, or the signal ends the sleep.
Sleep ==
    /\ pc = "sleep"
    /\ IF aborted THEN abandon("abort") ELSE pc' = "poll" /\ UNCHANGED why
    /\ UNCHANGED <<hooked, id, status, aborted, late, farm, cancels>>

\* POST cancel: taken by a farm that no longer stops an ended render, taken
\* with its answer lost, or lost; its failure is swallowed.
Cancel ==
    /\ pc = "cancel"
    /\ pc' = "settled"
    /\ \/ cancels' = "taken" /\ render' = IF render = "live" THEN "canceled" ELSE render
       \/ cancels' = "lost" /\ UNCHANGED render
    /\ UNCHANGED <<hooked, id, status, why, aborted, late, bundle, request>>

(***************************************************************************)
(* The caller, the clock, the farm.                                        *)
(***************************************************************************)

Abort ==
    /\ ~aborted
    /\ aborted' = TRUE
    /\ UNCHANGED <<client, late, farm, cancels>>

Deadline ==
    /\ id /\ ~late
    /\ late' = TRUE
    /\ UNCHANGED <<client, aborted, farm, cancels>>

RenderEnds ==
    /\ render = "live"
    /\ render' \in Terminal
    /\ UNCHANGED <<client, aborted, late, bundle, request, cancels>>

\* Another caller uploads the same bundle.
OthersRegister ==
    /\ bundle # "registered"
    /\ bundle' = "registered"
    /\ UNCHANGED <<client, aborted, late, request, render, cancels>>

\* What the call does by itself, and the settling of every fetch, which the
\* runtime bounds; the callback is the caller's and may never return.
Call ==
    \/ Archive \/ Register \/ Put \/ Finalize \/ UploadFails
    \/ Enqueue \/ Enqueued \/ EnqueueFails
    \/ (pc = "poll" /\ Answered) \/ (pc = "poll" /\ WaitFails)
    \/ FetchAborted \/ PollAborted \/ Decide \/ Sleep \/ Cancel

Next ==
    \/ Call \/ Answered \/ WaitFails
    \/ FarmTakes \/ Abort \/ Deadline \/ RenderEnds \/ OthersRegister

Spec == Init /\ [][Next]_vars

FairSpec == Spec /\ WF_vars(Call)

(***************************************************************************)
(* Properties.                                                             *)
(***************************************************************************)

TypeOK ==
    /\ pc \in Signaled \cup {"archive", "enqueue", "callback", "got", "sleep", "cancel", "settled"}
    /\ {hooked, id, aborted, late} \subseteq BOOLEAN
    /\ status \in Terminal \cup {"none", "live"}
    /\ why \in Walkaways \cup {"none", "error", "result", "ended"}
    /\ bundle \in {"none", "stored", "registered"}
    /\ request \in {"none", "flying", "taken", "lost"}
    /\ render \in Terminal \cup {"none", "live"}
    /\ cancels \in {"none", "taken", "lost"}

(* "Cancels what it abandons": a settled call that walked away from a render *)
(* whose id it knows has sent the cancel, which no longer lets it live if it *)
(* arrived; a call that ended in any other way, above all with a render that *)
(* reached its own end, has sent none.                                       *)
CancelsWhatItAbandons ==
    pc = "settled" =>
        /\ (cancels # "none") <=> (why \in Walkaways /\ id)
        /\ cancels # "none" => status \notin Terminal
        /\ cancels = "taken" => render \in Terminal

(* A call whose signal is aborted or whose deadline has passed settles, at   *)
(* whatever await it was and whatever was lost, unless it waits for the      *)
(* caller's own callback.                                                    *)
CallSettles == (aborted \/ late) ~> (pc \in {"settled", "callback"})
=============================================================================
