------------------------------ MODULE Upstream ------------------------------
(***************************************************************************)
(* The HTTP/1 side of src/src/proxy.rs: admission, the pool of idle        *)
(* connections, name resolution, connecting, the exchange with its two     *)
(* halves, WebSocket tunnels, and the retirement of connections.           *)
(*                                                                         *)
(* An exchange is a call of Proxy::forward together with the background    *)
(* tasks that inherit what it owns.  The future of forward, the response   *)
(* body and the tunnel may be dropped at any moment, because the client    *)
(* goes away.  A connection is a socket, Hyper's sender for it and the     *)
(* task (driver) that runs it; aborting a task does not end it at once.    *)
(***************************************************************************)
EXTENDS Naturals, Sequences, FiniteSets

CONSTANTS
    Exchanges,       \* calls of forward, and the tasks they leave behind
    Conns,           \* connections to the upstream
    None,            \* "no connection"
    MaxActive,       \* config.max_active_upstreams
    MaxResolvers,    \* config.max_blocking_resolvers
    PoolCapacity     \* UPSTREAM_IDLE_POOL_CAPACITY

ASSUME UpstreamAssumption ==
    /\ None \notin Conns
    /\ MaxActive \in Nat \ {0} /\ MaxResolvers \in Nat \ {0} /\ PoolCapacity \in Nat \ {0}

VARIABLES
    domain,      \* the configured upstream is named by a domain, not by an address
    active,      \* free permits of Proxy.active
    resolvers,   \* free permits of Proxy.resolvers
    idle,        \* the pool of idle connections
    driver,      \* each connection's task
    onWire,      \* history: halves of the last exchange not yet through
    phase,       \* where each exchange is
    conn,        \* the connection it owns
    tries,       \* pooled connections it may still try
    task,        \* its blocking name lookup
    upload,      \* its request body, inside Hyper
    request,     \* ExchangeLatch.request_done
    response     \* ExchangeLatch.response_done

vars == <<domain, active, resolvers, idle, driver, onWire, phase, conn, tries, task, upload,
          request, response>>

Phases ==
    {"idle", "select", "pooled", "reselect", "resolve", "dial", "selected", "dispatched",
     "streaming_reuse", "streaming_once", "tunnel", "response_over",
     "parking", "parked", "retiring", "cleanup"}

Init ==
    /\ domain \in BOOLEAN
    /\ active = MaxActive
    /\ resolvers = MaxResolvers
    /\ idle = <<>>
    /\ driver = [c \in Conns |-> "none"]
    /\ onWire = [c \in Conns |-> {}]
    /\ phase = [e \in Exchanges |-> "idle"]
    /\ conn = [e \in Exchanges |-> None]
    /\ tries = [e \in Exchanges |-> 0]
    /\ task = [e \in Exchanges |-> "none"]
    /\ upload = [e \in Exchanges |-> "none"]
    /\ request = [e \in Exchanges |-> "none"]
    /\ response = [e \in Exchanges |-> "none"]

poolVars    == <<idle, onWire>>
latchVars   == <<upload, request, response>>
permitVars  == <<active, resolvers>>

Goto(e, next) == phase' = [phase EXCEPT ![e] = next]

\* The exchange and its tasks are over and its permit goes back.
GiveBack(e) ==
    /\ active' = active + 1
    /\ Goto(e, "idle")

-----------------------------------------------------------------------------
(* Proxy::forward up to the choice of a connection.                        *)

\* Without a permit the answer is 503 and nothing changes.
forward(e) ==
    /\ phase[e] = "idle" /\ active > 0
    /\ active' = active - 1
    /\ Goto(e, "select")
    /\ tries' = [tries EXCEPT ![e] = PoolCapacity]
    /\ UNCHANGED <<resolvers, domain, poolVars, driver, conn, task, latchVars>>

\* select_exchange takes the oldest idle connection and waits for its sender.
TakePooled(e) ==
    /\ phase[e] = "select" /\ tries[e] > 0 /\ idle # <<>>
    /\ conn' = [conn EXCEPT ![e] = Head(idle)]
    /\ idle' = Tail(idle)
    /\ tries' = [tries EXCEPT ![e] = @ - 1]
    /\ Goto(e, "pooled")
    /\ UNCHANGED <<domain, permitVars, driver, onWire, task, latchVars>>

\* JoinHandle::abort.
abort(c) == driver' = [driver EXCEPT ![c] = IF @ = "ended" THEN @ ELSE "aborted"]

\* The sender is ready, or it is not and retire_parts waits for the old driver.
PooledReady(e) ==
    /\ phase[e] = "pooled"
    /\ \/ /\ driver[conn[e]] = "live"
          /\ Goto(e, "selected")
          /\ UNCHANGED driver
       \/ /\ abort(conn[e])
          /\ Goto(e, "reselect")
    /\ tries' = [tries EXCEPT ![e] = IF phase'[e] = "selected" THEN 0 ELSE @]
    /\ UNCHANGED <<permitVars, domain, poolVars, conn, task, latchVars>>

\* The old driver has ended; the exchange keeps its permit and chooses again.
Reselect_Mutant(e) ==
    /\ phase[e] = "reselect"
    /\ conn' = [conn EXCEPT ![e] = None]
    /\ Goto(e, "select")
    /\ UNCHANGED <<permitVars, domain, poolVars, driver, tries, task, latchVars>>

Reselect(e) ==
    /\ phase[e] = "reselect" /\ driver[conn[e]] = "ended"
    /\ driver' = [driver EXCEPT ![conn[e]] = "none"]
    /\ conn' = [conn EXCEPT ![e] = None]
    /\ Goto(e, "select")
    /\ UNCHANGED <<permitVars, domain, poolVars, tries, task, latchVars>>

-----------------------------------------------------------------------------
(* Proxy::connect.                                                         *)

\* A socket is opened, then TLS and the HTTP/1 handshake follow, all under one deadline.
\* Which of the unused names it gets makes no difference.
Dial(e) ==
    LET unused == {c \in Conns : driver[c] = "none"}
        new    == CHOOSE c \in unused : TRUE
    IN  /\ unused # {}
        /\ driver' = [driver EXCEPT ![new] = "dialing"]
        /\ conn' = [conn EXCEPT ![e] = new]
        /\ Goto(e, "dial")

\* No idle connection is left, or as many as the pool holds have been tried.
connect(e) ==
    /\ phase[e] = "select" /\ (idle = <<>> \/ tries[e] = 0)
    /\ tries' = [tries EXCEPT ![e] = 0]
    /\ \/ /\ ~domain
          /\ Dial(e)
          /\ UNCHANGED <<permitVars, task>>
       \/ /\ domain /\ resolvers > 0
          /\ resolvers' = resolvers - 1
          /\ task' = [task EXCEPT ![e] = "queued"]
          /\ Goto(e, "resolve")
          /\ UNCHANGED <<active, driver, conn>>
       \/ /\ domain /\ resolvers = 0
          /\ GiveBack(e)
          /\ UNCHANGED <<resolvers, driver, conn, task>>
    /\ UNCHANGED <<domain, poolVars, latchVars>>

\* The lookup runs on a thread of the blocking pool.  An abort only keeps a lookup that
\* has not started from starting.
TaskStarts(e) ==
    /\ task[e] = "queued"
    /\ task' = [task EXCEPT ![e] = "started"]
    /\ UNCHANGED <<permitVars, domain, poolVars, driver, phase, conn, tries, latchVars>>

TaskEnds(e) ==
    /\ \/ task[e] = "started"
       \/ task[e] = "queued" /\ phase[e] = "cleanup"
    /\ task' = [task EXCEPT ![e] = "finished"]
    /\ UNCHANGED <<permitVars, domain, poolVars, driver, phase, conn, tries, latchVars>>

\* resolve_domain has joined the lookup: observed() returns R, then the result counts.
observed(e) ==
    /\ phase[e] = "resolve" /\ task[e] = "finished"
    /\ resolvers' = resolvers + 1
    /\ task' = [task EXCEPT ![e] = "none"]
    /\ \/ Dial(e) /\ UNCHANGED active
       \/ GiveBack(e) /\ UNCHANGED <<driver, conn>>
    /\ UNCHANGED <<domain, poolVars, tries, latchVars>>

\* The deadline passes, or the client goes away, before the lookup is joined: a task
\* inherits both permits.
schedule_resolver_cleanup(e) ==
    /\ phase[e] = "resolve"
    /\ Goto(e, "cleanup")
    /\ UNCHANGED <<permitVars, domain, poolVars, driver, conn, tries, task, latchVars>>

CleanupJoined(e) ==
    /\ phase[e] = "cleanup" /\ task[e] = "finished"
    /\ task' = [task EXCEPT ![e] = "none"]
    /\ resolvers' = resolvers + 1
    /\ GiveBack(e)
    /\ UNCHANGED <<domain, poolVars, driver, conn, tries, latchVars>>

\* The end of connect; a failure, the deadline or a cancellation drops the socket before
\* the permit (ActivePhase).
Connected(e) ==
    /\ phase[e] = "dial"
    /\ driver' = [driver EXCEPT ![conn[e]] = "live"]
    /\ Goto(e, "selected")
    /\ UNCHANGED <<permitVars, domain, poolVars, conn, tries, task, latchVars>>

DialFails(e) ==
    /\ phase[e] = "dial"
    /\ driver' = [driver EXCEPT ![conn[e]] = "none"]
    /\ conn' = [conn EXCEPT ![e] = None]
    /\ GiveBack(e)
    /\ UNCHANGED <<resolvers, domain, poolVars, tries, task, latchVars>>

-----------------------------------------------------------------------------
(* The exchange.                                                           *)

\* schedule_retirement: the driver is aborted and a task waits for it with the permit.
schedule_retirement(e) ==
    /\ abort(conn[e])
    /\ Goto(e, "retiring")

\* The future of forward fails or is dropped while it owns an undispatched connection,
\* or waits for an old driver.
Abandon(e) ==
    \/ /\ phase[e] = "select"
       /\ GiveBack(e)
       /\ tries' = [tries EXCEPT ![e] = 0]
       /\ UNCHANGED <<resolvers, domain, poolVars, driver, conn, task, latchVars>>
    \/ /\ phase[e] \in {"pooled", "reselect", "selected"}
       /\ schedule_retirement(e)
       /\ tries' = [tries EXCEPT ![e] = 0]
       /\ UNCHANGED <<permitVars, domain, poolVars, conn, task, latchVars>>

\* The selected sender is ready and the request goes to Hyper; a body that is empty is
\* complete from the start.
Dispatch(e) ==
    /\ phase[e] = "selected" /\ driver[conn[e]] = "live"
    /\ onWire' = [onWire EXCEPT ![conn[e]] = {"request", "response"}]
    /\ \E u \in {"sending", "complete"} : upload' = [upload EXCEPT ![e] = u]
    /\ request' = [request EXCEPT ![e] = "none"]
    /\ response' = [response EXCEPT ![e] = "none"]
    /\ Goto(e, "dispatched")
    /\ UNCHANGED <<domain, permitVars, idle, driver, conn, tries, task>>

\* ExchangeLatch::complete, with the halves as they are now: the resource is taken when
\* both are there, and finish_exchange_resource parks the connection or retires it.
complete_Mutant(e, req, res, halfway) ==
    /\ request' = [request EXCEPT ![e] = req]
    /\ response' = [response EXCEPT ![e] = res]
    /\ \/ /\ req = "none" \/ res = "none"
          /\ Goto(e, halfway)
          /\ UNCHANGED driver
       \/ /\ req # "none" /\ res = "reuse"
          /\ Goto(e, "parking")
          /\ UNCHANGED driver
       \/ /\ req # "none" /\ res = "retire"
          /\ schedule_retirement(e)

complete(e, req, res, halfway) ==
    /\ request' = [request EXCEPT ![e] = req]
    /\ response' = [response EXCEPT ![e] = res]
    /\ \/ /\ req = "none" \/ res = "none"
          /\ Goto(e, halfway)
          /\ UNCHANGED driver
       \/ /\ req = "clean" /\ res = "reuse"
          /\ Goto(e, "parking")
          /\ UNCHANGED driver
       \/ /\ req # "none" /\ res # "none" /\ ~(req = "clean" /\ res = "reuse")
          /\ schedule_retirement(e)

response_done(e, res) == complete(e, request[e], res, "response_over")

\* The body has been read to its end by Hyper, or the client's upload fails.
UploadEnds(e) ==
    /\ upload[e] = "sending"
    /\ \E u \in {"complete", "cancelled"} : upload' = [upload EXCEPT ![e] = u]
    /\ UNCHANGED <<permitVars, domain, poolVars, driver, phase, conn, tries, task, request, response>>

\* Hyper drops TrackedRequestBody: it has sent or discarded the body, or its driver is gone.
BodyDropped(e) ==
    /\ upload[e] # "none" /\ request[e] = "none"
    /\ upload[e] # "sending" \/ driver[conn[e]] = "ended"
    /\ onWire' = IF upload[e] = "complete"
                 THEN [onWire EXCEPT ![conn[e]] = @ \ {"request"}] ELSE onWire
    /\ complete(e, IF upload[e] = "complete" THEN "clean" ELSE "cut", response[e], phase[e])
    /\ upload' = [upload EXCEPT ![e] = IF @ = "sending" THEN "cancelled" ELSE @]
    /\ UNCHANGED <<domain, permitVars, idle, conn, tries, task>>

\* UploadState::cancel.
cancel_Mutant(e) == UNCHANGED upload

cancel(e) == upload' = [upload EXCEPT ![e] = IF @ = "sending" THEN "cancelled" ELSE @]

\* The head of the response: an upload that is not complete is cancelled; then a body to
\* relay, a tunnel, or a response that cannot be used.
ResponseHead(e) ==
    /\ phase[e] = "dispatched" /\ driver[conn[e]] = "live"
    /\ cancel(e)
    /\ \/ /\ \E next \in {"streaming_reuse", "streaming_once", "tunnel"} : Goto(e, next)
          /\ UNCHANGED <<driver, request, response>>
       \/ response_done(e, "retire")
    /\ UNCHANGED <<permitVars, domain, poolVars, conn, tries, task>>

\* send_request fails, or the future of forward is dropped while it waits for the head.
DispatchFails(e) ==
    /\ phase[e] = "dispatched"
    /\ cancel(e)
    /\ response_done(e, "retire")
    /\ UNCHANGED <<permitVars, domain, poolVars, conn, tries, task>>

\* ExchangeResponseBody: read to its end, or failed or dropped before.
ResponseEnds(e) ==
    /\ phase[e] \in {"streaming_reuse", "streaming_once"}
    /\ \/ /\ onWire' = [onWire EXCEPT ![conn[e]] = @ \ {"response"}]
          /\ response_done(e, IF phase[e] = "streaming_reuse" THEN "reuse" ELSE "retire")
       \/ /\ response_done(e, "retire")
          /\ UNCHANGED onWire
    /\ UNCHANGED <<domain, permitVars, idle, conn, tries, task, upload>>

\* bridge_upgrades: the upgrade fails, a side closes or fails, or the bridge is dropped;
\* its streams are gone before the latch is told.
TunnelEnds(e) ==
    /\ phase[e] = "tunnel"
    /\ response_done(e, "retire")
    /\ UNCHANGED <<permitVars, domain, poolVars, conn, tries, task, upload>>

-----------------------------------------------------------------------------
(* The end of a connection's use.                                          *)

\* park_or_retire, after both halves; the exchange's body is forgotten.
Park(e) ==
    /\ phase[e] = "parking"
    /\ \/ /\ driver[conn[e]] = "live" /\ Len(idle) < PoolCapacity
          /\ idle' = Append(idle, conn[e])
          /\ conn' = [conn EXCEPT ![e] = None]
          /\ Goto(e, "parked")
          /\ UNCHANGED driver
       \/ /\ schedule_retirement(e)
          /\ UNCHANGED <<idle, conn>>
    /\ UNCHANGED <<domain, permitVars, onWire, tries, task, latchVars>>

Forget(e) ==
    /\ upload' = [upload EXCEPT ![e] = "none"]
    /\ request' = [request EXCEPT ![e] = "none"]
    /\ response' = [response EXCEPT ![e] = "none"]

\* The connection is visible in the pool before the permit goes back.
Parked(e) ==
    /\ phase[e] = "parked"
    /\ GiveBack(e)
    /\ Forget(e)
    /\ UNCHANGED <<resolvers, domain, poolVars, driver, conn, tries, task>>

\* The task of schedule_retirement, or retire_parts, has joined the driver.
Retired(e) ==
    /\ phase[e] = "retiring" /\ driver[conn[e]] = "ended"
    /\ driver' = [driver EXCEPT ![conn[e]] = "none"]
    /\ conn' = [conn EXCEPT ![e] = None]
    /\ GiveBack(e)
    /\ Forget(e)
    /\ onWire' = [onWire EXCEPT ![conn[e]] = {}]
    /\ UNCHANGED <<domain, resolvers, idle, tries, task>>

\* A driver ends: the upstream closes, the upgrade has taken the socket over, or the
\* abort takes effect.
DriverEnds(c) ==
    /\ driver[c] \in {"live", "aborted"}
    /\ driver' = [driver EXCEPT ![c] = "ended"]
    /\ UNCHANGED <<permitVars, domain, poolVars, phase, conn, tries, task, latchVars>>
-----------------------------------------------------------------------------
Step(e) ==
    \/ forward(e) \/ TakePooled(e) \/ PooledReady(e) \/ Reselect(e) \/ connect(e)
    \/ TaskStarts(e) \/ TaskEnds(e) \/ observed(e) \/ schedule_resolver_cleanup(e)
    \/ CleanupJoined(e) \/ Connected(e) \/ DialFails(e) \/ Abandon(e) \/ Dispatch(e)
    \/ UploadEnds(e) \/ BodyDropped(e) \/ ResponseHead(e) \/ DispatchFails(e)
    \/ ResponseEnds(e) \/ TunnelEnds(e) \/ Park(e) \/ Parked(e) \/ Retired(e)

Next ==
    \/ \E e \in Exchanges : Step(e)
    \/ \E c \in Conns : DriverEnds(c)

Spec == Init /\ [][Next]_vars

\* The runtime runs its tasks, an aborted task ends, a name lookup returns, and Hyper
\* drops a body that is finished or has been woken because it is cancelled.  Neither the
\* client nor the upstream need do anything.
Fairness ==
    /\ \A e \in Exchanges :
          /\ WF_vars(TaskStarts(e) \/ TaskEnds(e)) /\ WF_vars(CleanupJoined(e))
          /\ WF_vars(schedule_resolver_cleanup(e)) /\ WF_vars(DialFails(e))
          /\ WF_vars(BodyDropped(e)) /\ WF_vars(Park(e)) /\ WF_vars(Parked(e))
          /\ WF_vars(Reselect(e)) /\ WF_vars(Retired(e))
    /\ \A c \in Conns : WF_vars(driver[c] = "aborted" /\ DriverEnds(c))

LiveSpec == Spec /\ Fairness
-----------------------------------------------------------------------------
(* Properties.                                                             *)

\* Every variable of the upstream side has its type.
TypeOK ==
    /\ active \in Nat /\ resolvers \in Nat
    /\ idle \in Seq(Conns)
    /\ driver \in [Conns -> {"none", "dialing", "live", "aborted", "ended"}]
    /\ onWire \in [Conns -> SUBSET {"request", "response"}]
    /\ phase \in [Exchanges -> Phases]
    /\ conn \in [Exchanges -> Conns \cup {None}]
    /\ tries \in [Exchanges -> 0 .. PoolCapacity]
    /\ task \in [Exchanges -> {"none", "queued", "started", "finished"}]
    /\ upload \in [Exchanges -> {"none", "sending", "complete", "cancelled"}]
    /\ request \in [Exchanges -> {"none", "clean", "cut"}]
    /\ response \in [Exchanges -> {"none", "reuse", "retire"}]

Busy == {e \in Exchanges : phase[e] # "idle"}

\* Besides the types: whoever gives up at whatever moment, each permit is either free or
\* held by exactly one exchange or the task that cleans up after it, and a lookup that
\* nobody waits for any more still has its own.
PermitsAddUp ==
    LET resolving == {e \in Exchanges : phase[e] \in {"resolve", "cleanup"}}
    IN  /\ TypeOK
        /\ active + Cardinality(Busy) = MaxActive
        /\ resolvers + Cardinality(resolving) = MaxResolvers
        /\ {e \in Exchanges : task[e] # "none"} = resolving

Open(c) ==
    \/ driver[c] \in {"dialing", "live", "aborted"}
    \/ \E e \in Exchanges : conn[e] = c /\ phase[e] = "tunnel"

\* The permits add up, and every connection that has a task belongs to one place: one slot of the pool, or one
\* exchange, which holds a permit; so no task is left running that nobody will join, and the
\* sockets to the upstream, those of drivers that are still ending included, never exceed
\* the active permits and the slots of the pool.
OneOwner ==
    /\ PermitsAddUp
    /\ \A c \in Conns : driver[c] # "none" =>
          Cardinality({e \in Busy : conn[e] = c}) + Cardinality({i \in DOMAIN idle : idle[i] = c}) = 1
    /\ \A e \in Exchanges : conn[e] # None => driver[conn[e]] # "none"
    /\ Cardinality({c \in Conns : Open(c)}) <= MaxActive + PoolCapacity
    /\ Len(idle) <= PoolCapacity

\* A connection is offered for another exchange only when the last request has gone out
\* completely and the last response has been read to its end: no exchange can meet the
\* remains of another one.
CleanReuse ==
    /\ \A i \in DOMAIN idle : onWire[idle[i]] = {}
    /\ \A e \in Exchanges : phase[e] \in {"pooled", "selected", "parking"} => onWire[conn[e]] = {}

\* When the response half is over, or a connection attempt or a lookup has been given up,
\* the permit comes back, without the help of the client or the upstream.
PermitsComeBack ==
    \A e \in Exchanges :
        /\ response[e] # "none" ~> phase[e] = "idle"
        /\ phase[e] \in {"retiring", "cleanup"} ~> phase[e] = "idle"
        /\ phase[e] \in {"resolve", "dial", "reselect"} ~> phase[e] \notin {"resolve", "dial", "reselect"}
=============================================================================
