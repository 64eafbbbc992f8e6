---------------------------- MODULE MCDownstream ----------------------------
(***************************************************************************)
(* A small instance of the two modules around the server for TLC.  A       *)
(* behaviour is one of Startup (part "startup"), beside a stopped accept   *)
(* loop, or one of Downstream (part "serve"), beside an empty database.    *)
(***************************************************************************)
EXTENDS Startup, Downstream, TLC

VARIABLE part

\* Environments at and next to every limit of Startup: one is off by one, or out of range.
Environment(proxy, downstream, active, limit) ==
    [proxy |-> proxy, scheme |-> "http", protocol |-> "Http1", resolvers |-> 32,
     max_downstream |-> downstream, max_active |-> active, soft_nofile |-> limit,
     touch |-> 1, idle |-> 2, absolute |-> 3]

MCEnvironments ==
    LET proxied == Environment(TRUE, 33, 17, 571)
        adapter == Environment(FALSE, 1, 1, 514)
        most    == 1023                                  \* MAX_PERMITS of Startup
    IN  {proxied, adapter, Environment(TRUE, most, most - 16, NULL),
         [proxied EXCEPT !.soft_nofile = 570], [adapter EXCEPT !.soft_nofile = 513],
         [proxied EXCEPT !.max_downstream = 32], [proxied EXCEPT !.protocol = "Auto"],
         [proxied EXCEPT !.resolvers = 33], [adapter EXCEPT !.resolvers = 0],
         [adapter EXCEPT !.max_downstream = 0],
         [proxied EXCEPT !.max_downstream = most + 1, !.soft_nofile = NULL],
         [adapter EXCEPT !.touch = 3], [adapter EXCEPT !.idle = 4]}

\* The backoff tables shortened to three and two delays.
ShortTables ==
    [class \in AcceptClasses |-> IF class = "transient" THEN 2 ELSE 3]

Stopped ==
    /\ loop = "stopped" /\ free = MaxDownstream /\ owned = OwnedPermits /\ fallback = MaxActive
    /\ backoff = NoBackoff /\ log = NoLog /\ reported = 0
    /\ conn = [c \in Connections |-> "closed"] /\ stream = [s \in Streams |-> NoStream]

MCInit ==
    /\ Init
    /\ \/ part = "startup" /\ Stopped
       \/ part = "serve" /\ user_version = 0 /\ DownstreamInit

MCNext ==
    /\ \/ part = "startup" /\ Next /\ UNCHANGED downstreamVars
       \/ part = "serve" /\ DownstreamNext /\ UNCHANGED vars
    /\ UNCHANGED part

MCSpec == MCInit /\ [][MCNext]_<<part, vars, downstreamVars>> /\ DownstreamFairness
=============================================================================
