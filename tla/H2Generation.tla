---------------------------- MODULE H2Generation ----------------------------
(***************************************************************************)
(* The HTTP/2 side of src/src/proxy.rs: a generation is one HTTP/2         *)
(* connection to the upstream.  It is proved (its initial SETTINGS are     *)
(* read) while one exchange owns it, then published in the pool, where it  *)
(* keeps one slot until its socket is gone, or, when the pool is full,     *)
(* stays private to the exchange that made it, whose permit it keeps.      *)
(*                                                                         *)
(* The upstream may withdraw extended CONNECT (RFC 8441) at any time; the  *)
(* generation is then revoked.  Hyper runs the socket in a task of its     *)
(* own, so that the socket goes away some time after the connection has    *)
(* been dropped.  The two halves of an exchange are in Upstream; here an   *)
(* exchange ends in one step.                                              *)
(***************************************************************************)
EXTENDS Naturals, Sequences, FiniteSets, Functions

CONSTANTS
    Exchanges,      \* calls of forward, and the tasks they leave behind
    Gens,           \* generations
    None,           \* "no generation"
    MaxActive,      \* config.max_active_upstreams
    PoolCapacity,   \* UPSTREAM_IDLE_POOL_CAPACITY
    StreamLimits    \* min(max_active_upstreams, H2_LOCAL_STREAM_CAP, the peer's limit)

ASSUME H2GenerationAssumption ==
    /\ None \notin Gens
    /\ MaxActive \in Nat \ {0} /\ PoolCapacity \in Nat \ {0}
    /\ StreamLimits \subseteq Nat

VARIABLES
    active,       \* free permits of Proxy.active
    pool,         \* entries of Proxy.idle: PoolEntry::H1, H2 or RetiringH2
    state,        \* GenerationControl.state
    selectable,   \* GenerationControl.selectable
    offer,        \* history: extended CONNECT in the last SETTINGS of the peer
    limit,        \* size of the stream semaphore
    streams,      \* its free permits
    master,       \* H2Generation.master has its sender
    published,    \* H2DriverState.published
    driver,       \* the task of spawn_h2_driver
    transport,    \* the socket
    phase,        \* where each exchange is
    gen,          \* the generation it has reserved a stream of, or proves
    private,      \* H2ExchangeOwner.private_generation
    candidates    \* generations it has still to try, by their position in the pool

vars == <<active, pool, state, selectable, offer, limit, streams, master, published,
          driver, transport, phase, gen, private, candidates>>

controlVars  == <<state, selectable>>
genVars      == <<offer, limit, streams, master, published, driver, transport>>
exchangeVars == <<phase, gen, private, candidates>>

States == {"Proving", "LiveDisabled", "LiveEnabled", "Revoked", "Retiring", "Closed"}
Phases == {"idle", "select", "reserve", "handshake", "gate", "selected", "await_drop",
           "Ordinary", "ExtendedConnect"}   \* dispatched, with its H2DispatchKind
Dispatched == {"Ordinary", "ExtendedConnect"}

Slot(k, g) == [entry |-> k, gen |-> g]

NoCandidates == [i \in {} |-> None]

Init ==
    /\ active = MaxActive
    /\ pool = <<>>
    /\ state = [g \in Gens |-> "Closed"]
    /\ selectable = [g \in Gens |-> FALSE]
    /\ offer = [g \in Gens |-> FALSE]
    /\ limit = [g \in Gens |-> 0]
    /\ streams = [g \in Gens |-> 0]
    /\ master = [g \in Gens |-> FALSE]
    /\ published = [g \in Gens |-> FALSE]
    /\ driver = [g \in Gens |-> "none"]
    /\ transport = [g \in Gens |-> "none"]
    /\ phase = [x \in Exchanges |-> "idle"]
    /\ gen = [x \in Exchanges |-> None]
    /\ private = [x \in Exchanges |-> FALSE]
    /\ candidates = [x \in Exchanges |-> NoCandidates]

Goto(x, next) == phase' = [phase EXCEPT ![x] = next]

-----------------------------------------------------------------------------
(* GenerationControl and the pool's slots.                                 *)

\* mark_retiring and the end of H2Generation::retire; the pool's entry of a published
\* generation becomes RetiringH2 (retire_h2_generation).
mark_retiring_Mutant(g) ==
    /\ state' = [state EXCEPT ![g] = IF @ = "Closed" THEN @ ELSE "Retiring"]
    /\ UNCHANGED selectable

mark_retiring(g) ==
    /\ selectable' = [selectable EXCEPT ![g] = FALSE]
    /\ state' = [state EXCEPT ![g] = IF @ = "Closed" THEN @ ELSE "Retiring"]

RetiringSlots_Mutant(g) == SelectSeq(pool, LAMBDA s : s # Slot("H2", g))

RetiringSlots(g) ==
    [i \in DOMAIN pool |-> IF pool[i] = Slot("H2", g) THEN Slot("RetiringH2", g) ELSE pool[i]]

\* The first such entry leaves the pool (position, then remove), if there is one.
DropFirst(entry) ==
    \/ entry \notin Range(pool) /\ UNCHANGED pool
    \/ \E k \in DOMAIN pool :
          /\ pool[k] = entry /\ \A i \in 1 .. k - 1 : pool[i] # entry
          /\ pool' = [i \in 1 .. Len(pool) - 1 |-> IF i < k THEN pool[i] ELSE pool[i + 1]]

retire_h2_generation(g) ==
    /\ mark_retiring(g)
    /\ master' = [master EXCEPT ![g] = FALSE]
    /\ pool' = RetiringSlots(g)

-----------------------------------------------------------------------------
(* select_exchange.                                                        *)

\* forward: the permit, and the generations the pool holds at this moment.
forward(x) ==
    /\ phase[x] = "idle" /\ active > 0
    /\ active' = active - 1
    /\ LET h2 == {i \in DOMAIN pool : pool[i].entry = "H2"}
       IN  candidates' = [candidates EXCEPT ![x] = [i \in h2 |-> pool[i].gen]]
    /\ Goto(x, "select")
    /\ UNCHANGED <<pool, controlVars, genVars, gen, private>>

\* H2Generation::try_reserve of the next candidate, up to the permit of its stream
\* semaphore: it is saturated, closed, or the permit is taken.
try_reserve(x) ==
    \E first \in DOMAIN candidates[x] :
        LET g == candidates[x][first]
        IN  /\ phase[x] = "select" /\ \A i \in DOMAIN candidates[x] : first <= i
            /\ candidates' = [candidates EXCEPT ![x] = Restrict(@, DOMAIN @ \ {first})]
            /\ \/ /\ selectable[g] /\ streams[g] > 0
                  /\ streams' = [streams EXCEPT ![g] = @ - 1]
                  /\ gen' = [gen EXCEPT ![x] = g]
                  /\ Goto(x, "reserve")
                  /\ UNCHANGED <<pool, controlVars, master>>
               \/ /\ selectable[g] /\ streams[g] = 0
                  /\ UNCHANGED <<pool, controlVars, master, phase, gen, streams>>
               \/ /\ ~selectable[g]
                  /\ retire_h2_generation(g)
                  /\ UNCHANGED <<phase, gen, streams>>
            /\ UNCHANGED <<active, offer, limit, published, driver, transport, private>>

\* The permit of a stream goes back to a semaphore that is still there.
Returned(g) == IF driver[g] = "none" THEN streams ELSE [streams EXCEPT ![g] = @ + 1]

\* The rest of try_reserve, under the lock of the generation's sender: another exchange
\* or the driver may have taken the sender since, or the sender is closed.
CloneMaster(x) ==
    LET g == gen[x]
    IN  /\ phase[x] = "reserve"
        /\ \/ /\ master[g]
              /\ candidates' = [candidates EXCEPT ![x] = NoCandidates]
              /\ Goto(x, "selected")
              /\ UNCHANGED <<pool, controlVars, master, streams, gen>>
           \/ /\ retire_h2_generation(g)
              /\ streams' = Returned(g)
              /\ gen' = [gen EXCEPT ![x] = None]
              /\ Goto(x, "select")
              /\ UNCHANGED candidates
        /\ UNCHANGED <<active, offer, limit, published, driver, transport, private>>

\* A generation nobody refers to: its number is new (next_generation).
Unused(g) ==
    /\ driver[g] = "none" /\ transport[g] = "none"
    /\ \A x \in Exchanges : gen[x] # g /\ g \notin Range(candidates[x])

\* connect_h2 after the socket is open.
connect_h2(x) ==
    LET unused == {g \in Gens : Unused(g)}
        new    == CHOOSE g \in unused : TRUE
    IN  /\ phase[x] = "select" /\ DOMAIN candidates[x] = {}
        /\ unused # {}
        /\ gen' = [gen EXCEPT ![x] = new]
        /\ state' = [state EXCEPT ![new] = "Proving"]
        /\ transport' = [transport EXCEPT ![new] = "open"]
        /\ Goto(x, "handshake")
        /\ UNCHANGED <<active, pool, selectable, offer, limit, streams, master, published, driver,
                       private, candidates>>

\* The handshake succeeds, or fails or is dropped: the socket first, then the permit.
Handshake(x) ==
    /\ phase[x] = "handshake"
    /\ \/ Goto(x, "gate") /\ UNCHANGED <<active, state, transport, gen>>
       \/ /\ transport' = [transport EXCEPT ![gen[x]] = "none"]
          /\ state' = [state EXCEPT ![gen[x]] = "Closed"]
          /\ gen' = [gen EXCEPT ![x] = None]
          /\ active' = active + 1
          /\ Goto(x, "idle")
    /\ UNCHANGED <<pool, selectable, offer, limit, streams, master, published, driver,
                   private, candidates>>

\* A SETTINGS frame passes H2ProofIo: the first one installs the state, a later one that
\* withdraws extended CONNECT revokes an enabled generation.
observe_inbound(g) ==
    /\ transport[g] = "open" /\ state[g] \in {"Proving", "LiveEnabled", "LiveDisabled"}
    /\ driver[g] = "running" \/ \E x \in Exchanges : gen[x] = g /\ phase[x] = "gate"
    /\ \E on \in BOOLEAN :
          /\ offer' = [offer EXCEPT ![g] = on]
          /\ \/ /\ state[g] = "Proving"
                /\ state' = [state EXCEPT ![g] = IF on THEN "LiveEnabled" ELSE "LiveDisabled"]
                /\ selectable' = [selectable EXCEPT ![g] = TRUE]
             \/ /\ state[g] = "LiveEnabled" /\ ~on
                /\ state' = [state EXCEPT ![g] = "Revoked"]
                /\ selectable' = [selectable EXCEPT ![g] = FALSE]
             \/ /\ state[g] = "LiveDisabled" \/ (state[g] = "LiveEnabled" /\ on)
                /\ UNCHANGED controlVars
    /\ UNCHANGED <<active, pool, limit, streams, master, published, driver, transport,
                   exchangeVars>>

\* PrivateH2Gate::prove succeeds; only this task polls the connection until the reservation
\* for the creator, publish_h2_generation_slot and spawn_h2_driver are done.
publish_h2_generation_slot(g) ==
    IF selectable[g] /\ Len(pool) < PoolCapacity
    THEN pool' = Append(pool, Slot("H2", g)) /\ published' = [published EXCEPT ![g] = TRUE]
    ELSE UNCHANGED <<pool, published>>

Proved(x) ==
    LET g == gen[x]
    IN  /\ phase[x] = "gate" /\ transport[g] = "open"
        /\ state[g] \in {"LiveEnabled", "LiveDisabled"} /\ selectable[g]
        /\ \E n \in StreamLimits :
              /\ n > 0
              /\ limit' = [limit EXCEPT ![g] = n]
              /\ streams' = [streams EXCEPT ![g] = n - 1]
        /\ master' = [master EXCEPT ![g] = TRUE]
        /\ publish_h2_generation_slot(g)
        /\ private' = [private EXCEPT ![x] = ~published'[g]]
        /\ driver' = [driver EXCEPT ![g] = "running"]
        /\ Goto(x, "selected")
        /\ UNCHANGED <<active, controlVars, offer, transport, gen, candidates>>

\* The gate is dropped: invalid or late SETTINGS, a limit of zero, the peer closes, or the
\* client goes away.  The permit waits for the socket (schedule_permit_after_transport_drop).
GateDropped(x) ==
    /\ phase[x] = "gate"
    /\ transport' = [transport EXCEPT ![gen[x]] = IF @ = "open" THEN "closing" ELSE @]
    /\ Goto(x, "await_drop")
    /\ UNCHANGED <<active, pool, controlVars, offer, limit, streams, master, published, driver,
                   gen, private, candidates>>

-----------------------------------------------------------------------------
(* The exchange.                                                           *)

\* finish_exchange_resource: the stream's permit goes back; the active permit too, or,
\* when the generation is private, once the retired generation's socket is gone.
finish_exchange_resource(x) ==
    LET g == gen[x]
    IN  /\ streams' = Returned(g)
        /\ IF private[x]
           THEN Goto(x, "await_drop") /\ UNCHANGED <<active, gen, private>>
           ELSE /\ active' = active + 1
                /\ gen' = [gen EXCEPT ![x] = None]
                /\ private' = [private EXCEPT ![x] = FALSE]
                /\ Goto(x, "idle")

\* An exchange ends before or after its dispatch, whatever the reason.  A sender that was
\* found closed retires the generation; so does the end of a private one.
Finish(x) ==
    LET g == gen[x]
    IN  /\ phase[x] \in {"selected"} \cup Dispatched
        /\ finish_exchange_resource(x)
        /\ \/ retire_h2_generation(g)
           \/ ~private[x] /\ UNCHANGED <<pool, controlVars, master>>
        /\ UNCHANGED <<offer, limit, published, driver, transport, candidates>>

\* GenerationControl::linearize_dispatch.
allowed_Mutant(g, k) == TRUE

allowed(g, k) ==
    \/ state[g] = "LiveEnabled"
    \/ state[g] = "LiveDisabled" /\ k = "Ordinary"

\* The sender is ready, extended CONNECT is still offered, and the request is enqueued
\* under the lock of the generation's state; else the exchange ends with Finish.
dispatch(x) ==
    /\ phase[x] = "selected"
    /\ \E k \in Dispatched : allowed(gen[x], k) /\ Goto(x, k)
    /\ UNCHANGED <<active, pool, controlVars, genVars, gen, private, candidates>>

\* The generation is closed, and nothing reads its last SETTINGS any more.
Freed(g) ==
    /\ transport' = [transport EXCEPT ![g] = "none"]
    /\ state' = [state EXCEPT ![g] = "Closed"]
    /\ selectable' = [selectable EXCEPT ![g] = FALSE]
    /\ offer' = [offer EXCEPT ![g] = FALSE]

\* The task that waits for the socket of a private generation, or of a dropped gate.
TransportAwaited(x) ==
    LET g == gen[x]
    IN  /\ phase[x] = "await_drop" /\ transport[g] \in {"dropped", "none"}
        /\ active' = active + 1
        /\ gen' = [gen EXCEPT ![x] = None]
        /\ private' = [private EXCEPT ![x] = FALSE]
        /\ IF driver[g] = "none" THEN Freed(g) ELSE UNCHANGED <<controlVars, offer, transport>>
        /\ Goto(x, "idle")
        /\ UNCHANGED <<pool, limit, streams, master, published, driver, candidates>>

-----------------------------------------------------------------------------
(* spawn_h2_driver.                                                        *)

\* The connection ends, fails (H2ProofIo refuses I/O of a retired generation), or the
\* signal of a revocation arrives; it is dropped and the generation retires.
DriverEnds(g) ==
    /\ driver[g] = "running"
    /\ driver' = [driver EXCEPT ![g] = "ended"]
    /\ transport' = [transport EXCEPT ![g] = "closing"]
    /\ mark_retiring(g)
    /\ UNCHANGED <<active, pool, offer, limit, streams, master, published, exchangeVars>>

\* The driver turns the slot into RetiringH2 itself, if nobody has.
DriverRetires(g) ==
    /\ driver[g] = "ended"
    /\ driver' = [driver EXCEPT ![g] = "waiting"]
    /\ pool' = RetiringSlots(g)
    /\ master' = [master EXCEPT ![g] = IF Slot("H2", g) \in Range(pool) THEN FALSE ELSE @]
    /\ UNCHANGED <<active, controlVars, offer, limit, streams, published, transport, exchangeVars>>

\* Hyper's task drops the socket.
TransportDropped(g) ==
    /\ transport[g] = "closing"
    /\ transport' = [transport EXCEPT ![g] = "dropped"]
    /\ UNCHANGED <<active, pool, controlVars, offer, limit, streams, master, published, driver,
                   exchangeVars>>

\* The socket is gone: the slot is free and the state Closed.  remove_retiring_h2_slot
\* retains every other entry; a generation has one slot at most, so that is the first.
DriverCloses_Mutant(g) ==
    /\ driver[g] = "waiting" /\ transport[g] = "dropped"
    /\ driver' = [driver EXCEPT ![g] = "none"]
    /\ limit' = [limit EXCEPT ![g] = 0]
    /\ streams' = [streams EXCEPT ![g] = 0]
    /\ published' = [published EXCEPT ![g] = FALSE]
    /\ Freed(g)
    /\ UNCHANGED <<active, pool, master, exchangeVars>>

DriverCloses(g) ==
    /\ driver[g] = "waiting" /\ transport[g] = "dropped"
    /\ DropFirst(Slot("RetiringH2", g))
    /\ driver' = [driver EXCEPT ![g] = "none"]
    /\ limit' = [limit EXCEPT ![g] = 0]
    /\ streams' = [streams EXCEPT ![g] = 0]
    /\ published' = [published EXCEPT ![g] = FALSE]
    /\ Freed(g)
    /\ UNCHANGED <<active, master, exchangeVars>>

\* HTTP/1 connections share the pool (protocol auto); Upstream has them.
ParkH1 ==
    /\ Len(pool) < PoolCapacity
    /\ pool' = Append(pool, Slot("H1", None))
    /\ UNCHANGED <<active, controlVars, genVars, exchangeVars>>

TakeH1 ==
    /\ Slot("H1", None) \in Range(pool)
    /\ DropFirst(Slot("H1", None))
    /\ UNCHANGED <<active, controlVars, genVars, exchangeVars>>
-----------------------------------------------------------------------------
Driver(g) == DriverEnds(g) \/ DriverRetires(g) \/ TransportDropped(g) \/ DriverCloses(g)

Next ==
    \/ \E x \in Exchanges :
          \/ forward(x) \/ try_reserve(x) \/ CloneMaster(x) \/ connect_h2(x) \/ Handshake(x) \/ Proved(x)
          \/ GateDropped(x) \/ dispatch(x) \/ Finish(x) \/ TransportAwaited(x)
    \/ \E g \in Gens : observe_inbound(g) \/ Driver(g)
    \/ ParkH1 \/ TakeH1

Spec == Init /\ [][Next]_vars

\* A driver that has been told to stop ends; so does one whose generation is retired, for
\* a generation is retired when its sender is found closed or its only stream has ended,
\* which wakes the connection, and its I/O fails then.  The runtime runs the tasks.
LiveSpec ==
    /\ Spec
    /\ \A g \in Gens :
          /\ WF_vars(state[g] \in {"Revoked", "Retiring"} /\ DriverEnds(g))
          /\ WF_vars(DriverRetires(g)) /\ WF_vars(TransportDropped(g)) /\ WF_vars(DriverCloses(g))
    /\ \A x \in Exchanges : WF_vars(TransportAwaited(x))
-----------------------------------------------------------------------------
(* Properties.                                                             *)

\* Every variable of the generations and the exchanges has its type.
TypeOK ==
    /\ active \in Nat
    /\ pool \in Seq([entry : {"H1", "H2", "RetiringH2"}, gen : Gens \cup {None}])
    /\ state \in [Gens -> States]
    /\ selectable \in [Gens -> BOOLEAN]
    /\ offer \in [Gens -> BOOLEAN] /\ master \in [Gens -> BOOLEAN]
    /\ published \in [Gens -> BOOLEAN]
    /\ limit \in [Gens -> Nat] /\ streams \in [Gens -> Nat]
    /\ driver \in [Gens -> {"none", "running", "ended", "waiting"}]
    /\ transport \in [Gens -> {"none", "open", "closing", "dropped"}]
    /\ phase \in [Exchanges -> Phases]
    /\ gen \in [Exchanges -> Gens \cup {None}]
    /\ private \in [Exchanges -> BOOLEAN]
    /\ candidates \in [Exchanges -> UNION {[S -> Gens] : S \in SUBSET (1 .. PoolCapacity)}]

Slots(g) == {i \in DOMAIN pool : pool[i].entry # "H1" /\ pool[i].gen = g}

HasSocket(g) == transport[g] \in {"open", "closing"}

\* Besides the types, both kinds of permits add up, whoever gives up when: the active
\* ones, and for each generation the permits of its streams.
StreamPermitsAddUp ==
    /\ TypeOK
    /\ active + Cardinality({x \in Exchanges : phase[x] # "idle"}) = MaxActive
    /\ \A g \in Gens :
          driver[g] # "none" =>
             streams[g] + Cardinality({x \in Exchanges : gen[x] = g
                                          /\ phase[x] \in {"reserve", "selected"} \cup Dispatched}) = limit[g]

\* Every HTTP/2 socket is paid for: a published generation has exactly one slot of the
\* pool, retiring or not, until its socket is gone; any other has the active permit of one
\* exchange, which has no other.  So the sockets never exceed permits plus slots.
\* And the permits themselves add up.
SocketsPaidFor ==
    /\ StreamPermitsAddUp
    /\ \A g \in Gens : HasSocket(g) =>
          IF published[g] THEN Cardinality(Slots(g)) = 1
          ELSE \E x \in Exchanges : gen[x] = g /\ phase[x] # "idle"
    /\ Len(pool) <= PoolCapacity

\* A request is enqueued only on a generation that is not retired, and an extended CONNECT
\* only while the last SETTINGS the gateway has read offer it, although the check in
\* forward, the wait for the sender and the dispatch are separate steps.
DispatchOnlyWhileOffered ==
    [][ \A x \in Exchanges :
            phase[x] = "selected" /\ phase'[x] \in Dispatched =>
                /\ transport[gen[x]] = "open"
                /\ phase'[x] = "ExtendedConnect" => offer[gen[x]] ]_vars

\* A generation that has left the live states is never selected again: no step makes it
\* selectable, and none leads back from retirement.
RetiredForGood ==
    [][ \A g \in Gens :
            /\ state[g] \in {"Revoked", "Retiring"} =>
                  /\ state'[g] \in {"Revoked", "Retiring", "Closed"}
                  /\ ~selectable'[g]
            /\ selectable'[g] => state'[g] \in {"LiveEnabled", "LiveDisabled"} ]_vars

\* The slot of a retiring generation, and the permit that waits for a socket, come back.
SlotsComeBack ==
    /\ \A g \in Gens : Slot("RetiringH2", g) \in Range(pool) ~> Slot("RetiringH2", g) \notin Range(pool)
    /\ \A x \in Exchanges : phase[x] = "await_drop" ~> phase[x] = "idle"
=============================================================================
