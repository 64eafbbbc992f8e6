------------------------------ MODULE Exchange ------------------------------
(***************************************************************************)
(* One exchange of src/src/proxy.rs after its dispatch, in the small steps *)
(* that Upstream takes as one: the request body, which Hyper polls in the  *)
(* task of the connection; forward, which cancels the body in a task of    *)
(* its own when the answer comes first, fails or is not wanted any more;   *)
(* and the answer, which may become a WebSocket tunnel and is then bridged *)
(* by a third task.  The exchange's permit goes back when both halves are  *)
(* over, the client's lease when the tunnel is.                            *)
(***************************************************************************)
EXTENDS Naturals

CONSTANT NULL

\* None of Option<bool> is neither TRUE nor FALSE.
ASSUME ExchangeAssumption == NULL \notin BOOLEAN

VARIABLES
    is_complete, is_cancelled,   \* UploadState
    waker,       \* UploadState.waker holds the waker of the connection's task
    woken,       \* that task has been woken
    poll,        \* where it is in TrackedRequestBody::poll_frame
    terminal,    \* TrackedRequestBody.terminal
    handler,     \* where forward is
    cancelling,  \* where forward's call of UploadState::cancel is
    tunnel,      \* the owner of the response half
    up, down,    \* the upgraded streams
    lease,       \* the tunnel holds the client's connection and stream
    req_done, resp_done,   \* ExchangeLatch
    permit       \* ExchangeLatch.resource is held

exchangeVars == <<is_complete, is_cancelled, waker, woken, poll, terminal, handler, cancelling,
                  tunnel, up, down, lease, req_done, resp_done, permit>>

uploadVars == <<is_complete, is_cancelled, waker, woken>>
bodyVars == <<poll, terminal>>
ioVars == <<up, down, lease>>
exchangeLatchVars == <<req_done, resp_done, permit>>

\* TrackedRequestBody::new: a request without a body is complete at once.
ExchangeInit ==
    /\ terminal \in {NULL, TRUE}
    /\ is_complete = (terminal # NULL) /\ is_cancelled = FALSE
    /\ waker = FALSE /\ woken = TRUE
    /\ poll = IF terminal = NULL THEN "idle" ELSE "ended"
    /\ handler = "dispatch" /\ cancelling = "no"
    /\ tunnel = "none" /\ up = "none" /\ down = "none" /\ lease = TRUE
    /\ req_done = NULL /\ resp_done = NULL /\ permit = TRUE

-----------------------------------------------------------------------------
(* ExchangeLatch.                                                          *)

\* complete: the first result of each half stands, the second half releases the resource.
latch_complete(request, response) ==
    /\ req_done'  = IF req_done = NULL THEN request ELSE req_done
    /\ resp_done' = IF resp_done = NULL THEN response ELSE resp_done
    /\ permit' = (permit /\ (req_done' = NULL \/ resp_done' = NULL))

request_done(clean) == latch_complete(clean, NULL)
latch_response_done(reusable) == latch_complete(NULL, reusable)

-----------------------------------------------------------------------------
(* The request body, in the task of the connection.                        *)

\* observe_terminal: mark_complete, or cancel from the body itself.
observe_terminal(clean) ==
    /\ terminal' = clean
    /\ poll' = "ended"
    /\ waker' = FALSE
    /\ is_complete' = (is_complete \/ clean)
    /\ is_cancelled' = (is_cancelled \/ (~clean /\ ~is_complete))
    /\ UNCHANGED woken

\* poll_frame begins; a cancelled body ends.
PollStarts ==
    /\ poll = "idle" /\ woken
    /\ \/ is_cancelled /\ observe_terminal(FALSE)
       \/ /\ ~is_cancelled
          /\ woken' = FALSE /\ poll' = "register"
          /\ UNCHANGED <<is_complete, is_cancelled, waker, terminal>>
    /\ UNCHANGED <<handler, cancelling, tunnel, ioVars, exchangeLatchVars>>

register ==
    /\ poll = "register"
    /\ waker' = TRUE /\ poll' = "recheck"
    /\ UNCHANGED <<is_complete, is_cancelled, woken, terminal, handler, cancelling, tunnel, ioVars,
                   exchangeLatchVars>>

\* The rest of poll_frame: the second look at the flag, then the client's body has nothing
\* yet, a frame, its end, or an error.
Recheck_Mutant ==
    /\ poll = "recheck"
    /\ \/ poll' \in {"idle", "frame"} /\ UNCHANGED <<uploadVars, terminal>>
       \/ \E clean \in BOOLEAN : observe_terminal(clean)
    /\ UNCHANGED <<handler, cancelling, tunnel, ioVars, exchangeLatchVars>>

Recheck ==
    /\ poll = "recheck"
    /\ \/ is_cancelled /\ observe_terminal(FALSE)
       \/ ~is_cancelled /\ poll' \in {"idle", "frame"} /\ UNCHANGED <<uploadVars, terminal>>
       \/ ~is_cancelled /\ \E clean \in BOOLEAN : observe_terminal(clean)
    /\ UNCHANGED <<handler, cancelling, tunnel, ioVars, exchangeLatchVars>>

\* Hyper sends the frame it has taken, when the upstream lets it, and polls again.
FrameSent ==
    /\ poll = "frame"
    /\ poll' = "idle" /\ woken' = TRUE
    /\ UNCHANGED <<is_complete, is_cancelled, waker, terminal, handler, cancelling, tunnel, ioVars,
                   exchangeLatchVars>>

\* The client sends more.
ClientSends ==
    /\ poll = "idle" /\ ~woken
    /\ woken' = TRUE
    /\ UNCHANGED <<is_complete, is_cancelled, waker, bodyVars, handler, cancelling, tunnel, ioVars,
                   exchangeLatchVars>>

\* TrackedRequestBody::drop: Hyper has sent or discarded everything, or has given up on the
\* request before its end.
RequestBodyDropped ==
    /\ poll \in {"idle", "frame", "ended"}
    /\ poll' = "gone"
    /\ terminal' = IF terminal = NULL THEN FALSE ELSE terminal
    /\ is_cancelled' = (is_cancelled \/ (terminal = NULL /\ ~is_complete))
    /\ waker' = FALSE
    /\ request_done(terminal')
    /\ UNCHANGED <<is_complete, woken, handler, cancelling, tunnel, ioVars>>

-----------------------------------------------------------------------------
(* forward.                                                                *)

\* UploadState::cancel, each of its steps on its own: the flag, then the waker.
CancelStep ==
    /\ cancelling \in {"check", "store", "wake"}
    /\ cancelling' = CASE cancelling = "check" -> IF is_complete THEN "done" ELSE "store"
                       [] cancelling = "store" -> "wake"
                       [] cancelling = "wake"  -> "done"
    /\ is_cancelled' = (is_cancelled \/ cancelling = "store")
    /\ waker' = (waker /\ cancelling # "wake")
    /\ woken' = (woken \/ (waker /\ cancelling = "wake"))
    /\ UNCHANGED <<is_complete, bodyVars, handler, tunnel, ioVars, exchangeLatchVars>>

\* The dispatch fails: the response half is over, then UploadCancellationGuard::drop.
ForwardFails ==
    /\ handler = "dispatch"
    /\ latch_response_done(FALSE)
    /\ handler' = "over" /\ cancelling' = "check"
    /\ UNCHANGED <<uploadVars, bodyVars, tunnel, ioVars>>

\* forward is dropped while it waits: the upload is cancelled, then ResponseHalfGuard::drop.
ForwardDropped ==
    /\ handler = "dispatch"
    /\ handler' = "dropped" /\ cancelling' = "check"
    /\ UNCHANGED <<uploadVars, bodyVars, tunnel, ioVars, exchangeLatchVars>>

HalfGuardDropped ==
    /\ handler = "dropped" /\ cancelling = "done"
    /\ handler' = "over"
    /\ latch_response_done(FALSE)
    /\ UNCHANGED <<uploadVars, bodyVars, cancelling, tunnel, ioVars>>

\* The head of the answer: an upload that is not complete is cancelled.
HeadArrives ==
    /\ handler = "dispatch"
    /\ handler' = "head"
    /\ cancelling' = IF is_complete THEN "done" ELSE "check"
    /\ UNCHANGED <<uploadVars, bodyVars, tunnel, ioVars, exchangeLatchVars>>

\* A plain answer is streamed.  A handshake is refused before or after the upstream's stream
\* may be upgraded (the latter over HTTP/2 only), or bridged.
ResponseTaken ==
    /\ handler = "head" /\ cancelling = "done"
    /\ handler' = "over"
    /\ \/ tunnel' = "body" /\ UNCHANGED <<up, down, exchangeLatchVars>>
       \/ latch_response_done(FALSE) /\ UNCHANGED <<tunnel, up, down>>
       \/ tunnel' = "rejected" /\ up' = "future" /\ UNCHANGED <<down, exchangeLatchVars>>
       \/ tunnel' = "pending" /\ up' = "future" /\ down' = "future" /\ UNCHANGED exchangeLatchVars
    /\ UNCHANGED <<uploadVars, bodyVars, cancelling, lease>>

-----------------------------------------------------------------------------
(* The answer: ExchangeResponseBody, RejectedH2UpgradeCleanup and the bridge. *)

\* ExchangeResponseBody::complete or fail.
BodyEnds ==
    /\ tunnel = "body"
    /\ tunnel' = "over"
    /\ \E reusable \in BOOLEAN : latch_response_done(reusable)
    /\ UNCHANGED <<uploadVars, bodyVars, handler, cancelling, ioVars>>

\* Hyper fulfils an upgrade; the stream is then in the future until it is taken.
Upgraded ==
    /\ \/ up = "future" /\ up' = "open" /\ UNCHANGED down
       \/ down = "future" /\ down' = "open" /\ UNCHANGED up
    /\ UNCHANGED <<uploadVars, bodyVars, handler, cancelling, tunnel, lease, exchangeLatchVars>>

\* bridge_upgrades: both are there; or one has failed, and the response half ends before the
\* guard is dropped with what is left of the other.
Bridged ==
    /\ tunnel = "pending"
    /\ \/ up = "open" /\ down = "open" /\ tunnel' = "active" /\ UNCHANGED exchangeLatchVars
       \/ "future" \in {up, down} /\ tunnel' = "upgrade_failed" /\ latch_response_done(FALSE)
    /\ UNCHANGED <<uploadVars, bodyVars, handler, cancelling, ioVars>>

\* The streams go first: the tunnel ends by itself or its task is dropped (ActiveBridgeGuard,
\* PendingBridgeGuard), a refused stream is reset (RejectedH2UpgradeCleanup).
drop_streams ==
    /\ \/ tunnel \in {"pending", "active", "upgrade_failed"}
       \/ tunnel = "rejected" /\ up = "open"
       \/ tunnel = "rejected" /\ up = "future"        \* it failed, or the cleanup is dropped
    /\ tunnel' = "dropped"
    /\ up' = "closed"
    /\ down' = IF down = "none" THEN "none" ELSE "closed"
    /\ UNCHANGED <<uploadVars, bodyVars, handler, cancelling, lease, exchangeLatchVars>>

\* Then the response half, and the client's lease last.
finish_exchange_Mutant ==
    /\ tunnel \in {"active", "dropped"}
    /\ tunnel' = IF tunnel = "active" THEN "active" ELSE "finished"
    /\ latch_response_done(FALSE)
    /\ UNCHANGED <<uploadVars, bodyVars, handler, cancelling, ioVars>>

finish_exchange ==
    /\ tunnel = "dropped"
    /\ tunnel' = "finished"
    /\ latch_response_done(FALSE)
    /\ UNCHANGED <<uploadVars, bodyVars, handler, cancelling, ioVars>>

drop_leases ==
    /\ tunnel = "finished"
    /\ tunnel' = "over" /\ lease' = FALSE
    /\ UNCHANGED <<uploadVars, bodyVars, handler, cancelling, up, down, exchangeLatchVars>>

\* Everybody is done.
Done ==
    /\ poll = "gone" /\ handler = "over" /\ cancelling = "done" /\ tunnel \in {"none", "over"}
    /\ UNCHANGED exchangeVars

ExchangeNext ==
    \/ PollStarts \/ register \/ Recheck \/ FrameSent \/ ClientSends \/ RequestBodyDropped
    \/ CancelStep \/ ForwardFails \/ ForwardDropped \/ HalfGuardDropped \/ HeadArrives
    \/ ResponseTaken
    \/ BodyEnds \/ Upgraded \/ Bridged \/ drop_streams \/ finish_exchange \/ drop_leases \/ Done

ExchangeSpec == ExchangeInit /\ [][ExchangeNext]_exchangeVars

\* The runtime runs a task that is ready; Hyper polls a body whose task has been woken, drops
\* one that has ended, and the upstream takes or refuses a frame some day.  The client and
\* the upstream owe nothing else: no fairness for ClientSends or for the head of the answer.
ExchangeFairness ==
    /\ WF_exchangeVars(PollStarts) /\ WF_exchangeVars(register) /\ WF_exchangeVars(Recheck)
    /\ WF_exchangeVars(FrameSent)
    /\ WF_exchangeVars(poll = "ended" /\ RequestBodyDropped)
    /\ WF_exchangeVars(CancelStep) /\ WF_exchangeVars(HalfGuardDropped)
    /\ WF_exchangeVars(ResponseTaken)
    /\ WF_exchangeVars(finish_exchange) /\ WF_exchangeVars(drop_leases)

-----------------------------------------------------------------------------
(* Properties.                                                             *)

\* Nothing is given back while it is still in use, whichever task ends first: the permit
\* only when Hyper has let go of the request and the upstream's upgraded stream is closed
\* (when an upgrade fails, the statement after next closes it), the client's lease only
\* when both streams are closed and the response half is over.
IoBeforePermits ==
    /\ ~permit => poll = "gone" /\ (up \in {"none", "closed"} \/ tunnel = "upgrade_failed")
    /\ ~lease => up = "closed" /\ down \in {"none", "closed"} /\ resp_done # NULL

\* An upload that forward cancels ends, even if the client never sends another byte: the
\* wake-up cannot fall between the look at the flag and the registration of the waker.
CancelledUploadEnds == is_cancelled ~> poll = "gone"
=============================================================================
