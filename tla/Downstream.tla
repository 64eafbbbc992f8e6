----------------------------- MODULE Downstream -----------------------------
(***************************************************************************)
(* The downstream side of src/src/server.rs: the accept loop with its      *)
(* connection permits, backoff and failure log; the connections with their *)
(* initial-head deadline; and the HTTP/2 streams with the two pools of     *)
(* stream permits.  src/src/capacity.rs has the shared leases.             *)
(*                                                                         *)
(* A permit goes back when the last clone of its lease is dropped.  Clones *)
(* of a socket's lease are held by the connection's task, the handlers of  *)
(* its requests and their tunnels; clones of a stream's lease by the       *)
(* handler, the response body, the request body that is being forwarded    *)
(* and the tunnel.  The last two may outlive the connection.               *)
(***************************************************************************)
EXTENDS Naturals, FiniteSets, FiniteSetsExt

CONSTANTS
    Connections,     \* sockets that clients may open
    Streams,         \* requests that may be in progress
    NoConnection,    \* "no socket"
    MaxDownstream,   \* config.max_downstream_connections
    MaxActive,       \* config.max_active_upstreams
    ProxyMode,       \* config.upstream is set
    LastPower,       \* the last scheduled log event (32)
    StepsOf,         \* number of delays in each class's backoff table (7 and 6)
    MaxFailures      \* bound: accept failures in a row

\* The classes of a recoverable accept error; the first two share a backoff table.
AcceptClasses == {"resource_fd", "resource_memory", "transient"}

\* Config::validate demands headroom for the gateway's own requests.
ASSUME DownstreamAssumption ==
    /\ NoConnection \notin Connections
    /\ MaxDownstream \in Nat \ {0} /\ MaxActive \in Nat \ {0}
    /\ ProxyMode \in BOOLEAN
    /\ ProxyMode => MaxActive < MaxDownstream
    /\ LastPower \in Nat /\ MaxFailures \in Nat
    /\ StepsOf \in [AcceptClasses -> Nat \ {0}]

VARIABLES
    loop,        \* where drive_accept_loop is
    free,        \* free connection permits
    backoff,     \* AcceptBackoff: class and same_class_streak
    log,         \* AcceptFailureLogState: failures, suppressed_since_last
    reported,    \* history: failures accounted for by events of this outage
    conn,        \* state of each socket
    stream,      \* each request: its socket, its pool, the holders of its lease
    owned,       \* free permits of gateway_owned
    fallback     \* free permits of proxy_fallback

downstreamVars == <<loop, free, backoff, log, reported, conn, stream, owned, fallback>>

NoBackoff == [class |-> "none", same_class_streak |-> 0]
NoLog     == [failures |-> 0, suppressed |-> 0]
NoStream  == [conn |-> NoConnection, pool |-> "none", holders |-> {}]
Holders   == {"handler", "response", "upload", "tunnel"}

\* The ones that hold the lease of the socket, and the ones that outlive its task.
OnSocket  == {"handler", "tunnel"}
Outliving == {"upload", "tunnel"}

\* DownstreamStreamAdmission::from_config.
OwnedPermits == IF ProxyMode THEN MaxDownstream - MaxActive ELSE MaxDownstream

DownstreamInit ==
    /\ loop = "acquire"
    /\ free = MaxDownstream
    /\ backoff = NoBackoff
    /\ log = NoLog
    /\ reported = 0
    /\ conn = [c \in Connections |-> "closed"]
    /\ stream = [s \in Streams |-> NoStream]
    /\ owned = OwnedPermits
    /\ fallback = IF ProxyMode THEN MaxActive ELSE 0

-----------------------------------------------------------------------------
(* drive_accept_loop.                                                      *)

AcquirePermit ==
    /\ loop = "acquire" /\ free > 0
    /\ free' = free - 1
    /\ loop' = "accept"
    /\ UNCHANGED <<backoff, log, reported, conn, stream, owned, fallback>>

\* The socket whose lease no clone is left of may be accepted anew: it is another one.
LeaseHolders(c) == {s \in Streams : stream[s].conn = c /\ stream[s].holders \cap OnSocket # {}}

Accepted ==
    LET unused == {c \in Connections : conn[c] = "closed" /\ \A s \in Streams : stream[s].conn # c}
    IN  /\ loop = "accept" /\ unused # {}
        /\ conn' = [conn EXCEPT ![CHOOSE c \in unused : TRUE] = "head"]
        /\ log' = NoLog
        /\ reported' = 0
        /\ backoff' = NoBackoff
        /\ loop' = "acquire"
        /\ UNCHANGED <<free, stream, owned, fallback>>

\* AcceptBackoff::next_delay: the position in the delay table of the class.
next_streak_Mutant(class) == backoff.same_class_streak + 1

next_streak(class) == IF backoff.class = class THEN backoff.same_class_streak + 1 ELSE 1

Delay(b) == Min({b.same_class_streak, StepsOf[b.class]})

\* AcceptFailureLogState::failure; `periodic` is true when the last event is 60 s old.
Scheduled(n) == \E i \in 0 .. LastPower : n = 2 ^ i /\ n <= LastPower

failure(periodic) ==
    LET n == log.failures + 1
    IN  IF Scheduled(n) \/ (n > LastPower /\ periodic)
        THEN /\ log' = [failures |-> n, suppressed |-> 0]
             /\ reported' = reported + log.suppressed + 1
        ELSE /\ log' = [failures |-> n, suppressed |-> log.suppressed + 1]
             /\ UNCHANGED reported

\* A recoverable error: the permit is dropped before the loop sleeps.
AcceptFails_Mutant ==
    /\ loop = "accept" /\ log.failures < MaxFailures
    /\ \E class \in AcceptClasses, periodic \in BOOLEAN :
          /\ backoff' = [class |-> class, same_class_streak |-> next_streak(class)]
          /\ failure(periodic)
    /\ loop' = "sleep"
    /\ UNCHANGED <<free, conn, stream, owned, fallback>>

AcceptFails ==
    /\ loop = "accept" /\ log.failures < MaxFailures
    /\ free' = free + 1
    /\ \E class \in AcceptClasses, periodic \in BOOLEAN :
          /\ backoff' = [class |-> class, same_class_streak |-> next_streak(class)]
          /\ failure(periodic)
    /\ loop' = "sleep"
    /\ UNCHANGED <<conn, stream, owned, fallback>>

Slept ==
    /\ loop = "sleep"
    /\ loop' = "acquire"
    /\ UNCHANGED <<free, backoff, log, reported, conn, stream, owned, fallback>>

\* A fatal error ends the loop and, with it, the process's work.
AcceptFatal ==
    /\ loop = "accept"
    /\ free' = free + 1
    /\ loop' = "stopped"
    /\ UNCHANGED <<backoff, log, reported, conn, stream, owned, fallback>>

-----------------------------------------------------------------------------
(* serve_downstream_connection and the requests it serves.                 *)

loopVars == <<loop, backoff, log, reported>>

\* The semaphore permits that go back when stream s keeps only `left` of its holders:
\* its own, if nobody is left, and the socket's, if the task has gone too.
Release_Mutant(s, left) ==
    LET c == stream[s].conn
    IN  /\ stream' = [stream EXCEPT ![s] = IF left = {} THEN NoStream
                                           ELSE [@ EXCEPT !.holders = left]]
        /\ owned' = owned + (IF left = {} /\ stream[s].pool = "owned" THEN 1 ELSE 0)
        /\ fallback' = fallback + (IF left \subseteq Outliving /\ stream[s].pool = "fallback"
                                   THEN 1 ELSE 0)
        /\ free' = free + (IF /\ conn[c] = "closed" /\ LeaseHolders(c) = {s}
                              /\ left \cap OnSocket = {} THEN 1 ELSE 0)

Release(s, left) ==
    LET c == stream[s].conn
    IN  /\ stream' = [stream EXCEPT ![s] = IF left = {} THEN NoStream
                                           ELSE [@ EXCEPT !.holders = left]]
        /\ owned' = owned + (IF left = {} /\ stream[s].pool = "owned" THEN 1 ELSE 0)
        /\ fallback' = fallback + (IF left = {} /\ stream[s].pool = "fallback" THEN 1 ELSE 0)
        /\ free' = free + (IF /\ conn[c] = "closed" /\ LeaseHolders(c) = {s}
                              /\ left \cap OnSocket = {} THEN 1 ELSE 0)

\* DownstreamStreamAdmission::try_acquire: the pool of an HTTP/2 stream by its path; an
\* HTTP/1 request needs no permit.
PoolOf(path) == IF ProxyMode /\ path = "fallback" THEN "fallback" ELSE "owned"

try_acquire(pool) ==
    \/ pool = "http1" /\ UNCHANGED <<owned, fallback>>
    \/ pool = "owned" /\ owned > 0 /\ owned' = owned - 1 /\ UNCHANGED fallback
    \/ pool = "fallback" /\ fallback > 0 /\ fallback' = fallback - 1 /\ UNCHANGED owned

\* Hyper has parsed a request head; the initial deadline no longer applies.  A stream
\* for which there is no permit is answered 503 at once.
Request(c, s) ==
    /\ conn[c] \in {"head", "serving"}
    /\ stream[s] = NoStream
    /\ conn' = [conn EXCEPT ![c] = "serving"]
    /\ \E pool \in {"http1"} \cup {PoolOf(path) : path \in {"own", "fallback"}} :
          \/ /\ try_acquire(pool)
             /\ stream' = [stream EXCEPT ![s] = [conn |-> c, pool |-> pool,
                                                 holders |-> {"handler"}]]
          \/ /\ <<pool, 0>> \in {<<"owned", owned>>, <<"fallback", fallback>>}
             /\ UNCHANGED <<stream, owned, fallback>>
    /\ UNCHANGED <<loopVars, free>>

\* Proxy::forward puts a clone of the stream's lease into TrackedRequestBody.
Forward(s) ==
    /\ stream[s].holders = {"handler"} /\ ProxyMode /\ stream[s].pool # "owned"
    /\ stream' = [stream EXCEPT ![s].holders = @ \cup {"upload"}]
    /\ UNCHANGED <<loopVars, free, conn, owned, fallback>>

\* The handler returns; finish_downstream_response puts the lease into the body.  A
\* WebSocket bridge, or the cleanup of a rejected one, keeps clones of both leases.
Respond(s) ==
    /\ "handler" \in stream[s].holders
    /\ \E tunnel \in IF ProxyMode /\ stream[s].pool # "owned" THEN {{}, {"tunnel"}} ELSE {{}} :
          Release(s, (stream[s].holders \ {"handler"}) \cup {"response"} \cup tunnel)
    /\ UNCHANGED <<loopVars, conn>>

\* The response body ends, fails or is dropped; or the client resets the stream and the
\* handler's future is dropped.
StreamEnds(s) ==
    /\ stream[s].holders \cap {"handler", "response"} # {}
    /\ Release(s, stream[s].holders \cap Outliving)
    /\ UNCHANGED <<loopVars, conn>>

\* The upstream driver drops the request body, or the tunnel is over.
ExchangeEnds(s, part) ==
    /\ part \in stream[s].holders
    /\ Release(s, stream[s].holders \ {part})
    /\ UNCHANGED <<loopVars, conn>>

\* The connection's task ends, and with it the handler and the body of an HTTP/1 request;
\* the ones of HTTP/2 streams are tasks of their own and end later (StreamEnds).  The
\* client closes or fails, or no head has arrived when initial_head_timeout expires.
Close(c) ==
    LET ours == {s \in Streams : stream[s].conn = c}
        kept(s) == stream[s].holders \cap (IF stream[s].pool = "http1" THEN Outliving ELSE Holders)
    IN  /\ conn[c] \in {"head", "serving"}
        /\ conn' = [conn EXCEPT ![c] = "closed"]
        /\ stream' = [s \in Streams |-> IF s \notin ours THEN stream[s]
                                        ELSE IF kept(s) = {} THEN NoStream
                                        ELSE [stream[s] EXCEPT !.holders = kept(s)]]
        /\ free' = free + (IF \A s \in ours : kept(s) \cap OnSocket = {} THEN 1 ELSE 0)
        /\ UNCHANGED <<loopVars, owned, fallback>>

DownstreamNext ==
    \/ AcquirePermit \/ Accepted \/ AcceptFails \/ Slept \/ AcceptFatal
    \/ \E c \in Connections : Close(c) \/ \E s \in Streams : Request(c, s)
    \/ \E s \in Streams : \/ Forward(s) \/ Respond(s) \/ StreamEnds(s)
                          \/ \E part \in Outliving : ExchangeEnds(s, part)

DownstreamSpec == DownstreamInit /\ [][DownstreamNext]_downstreamVars

\* The runtime runs the loop's task and its timer, and the deadline of a silent connection
\* fires.  Clients need not connect, send or read, tunnels need not end.
DownstreamFairness ==
    /\ WF_downstreamVars(AcquirePermit) /\ WF_downstreamVars(Slept)
    /\ \A c \in Connections : WF_downstreamVars(conn[c] = "head" /\ Close(c))
-----------------------------------------------------------------------------
(* Properties.                                                             *)

\* Every variable of the downstream side has its type.
TypeOK ==
    /\ loop \in {"acquire", "accept", "sleep", "stopped"}
    /\ free \in Nat /\ owned \in Nat /\ fallback \in Nat /\ reported \in Nat
    /\ backoff \in [class : AcceptClasses \cup {"none"}, same_class_streak : Nat]
    /\ log \in [failures : Nat, suppressed : Nat]
    /\ conn \in [Connections -> {"closed", "head", "serving"}]
    /\ stream \in [Streams -> [conn : Connections \cup {NoConnection},
                               pool : {"none", "http1", "owned", "fallback"},
                               holders : SUBSET Holders]]

Leased == {c \in Connections : conn[c] # "closed" \/ LeaseHolders(c) # {}}

\* Besides the types: a connection permit is held by the loop, or by one socket that is
\* open or still has a handler or a tunnel; none is lost in an accept error, a timeout or a
\* tunnel that outlives the socket's task.  The same holds for the stream permits, each pool
\* by itself: requests that wait for the upstream never use up the permits kept for the
\* gateway's own paths.
PermitsAddUp ==
    LET held(pool) == Cardinality({s \in Streams : stream[s].pool = pool})
    IN  /\ TypeOK
        /\ free + Cardinality(Leased) + (IF loop = "accept" THEN 1 ELSE 0) = MaxDownstream
        /\ owned + held("owned") = OwnedPermits
        /\ ProxyMode => fallback + held("fallback") = MaxActive

\* Every failure of an outage is in exactly one log event, as itself or in the number of
\* suppressed ones.
FailuresReported == reported + log.suppressed = log.failures

\* While failures of one class follow each other the delay never shrinks and grows by one
\* table position at most; a failure of another class, and the first one after a success,
\* start with the shortest delay.
BackoffGrows ==
    [][ backoff' # backoff /\ backoff'.class # "none" =>
            IF backoff'.class = backoff.class
            THEN /\ Delay(backoff') >= Delay(backoff)
                 /\ Delay(backoff') <= Delay(backoff) + 1
            ELSE Delay(backoff') = 1 ]_downstreamVars

\* The two together: an outage is neither silent nor a busy loop.
OutagePaced == []FailuresReported /\ BackoffGrows

\* Whatever has failed before, the loop goes on to accept unless as many sockets as there
\* are permits are in use, and a connection that never sends a request is closed.
LoopGoesOn ==
    /\ loop \in {"acquire", "sleep"} ~> \/ loop \in {"accept", "stopped"}
                                        \/ Cardinality(Leased) = MaxDownstream
    /\ \A c \in Connections : conn[c] = "head" ~> conn[c] # "head"
=============================================================================
