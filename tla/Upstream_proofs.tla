--------------------------- MODULE Upstream_proofs ---------------------------
(***************************************************************************)
(* OneOwner and CleanReuse of Upstream for any number of exchanges and     *)
(* connections and any limits, and IoBeforePermits of Exchange.            *)
(*                                                                         *)
(* A connection with a task is in one slot of the pool or belongs to one   *)
(* exchange; every step hands over at most one connection between the      *)
(* exchange, the pool and nobody.  What is still on the wire of a          *)
(* connection is therefore known to its owner: its latch says "clean" or   *)
(* "reuse" only of a half that is through.                                 *)
(***************************************************************************)
EXTENDS Upstream, Exchange, FiniteSetTheorems, TLAPS

\* Phases in which an exchange, or the task after it, owns a connection.
Owning ==
    {"pooled", "reselect", "dial", "selected", "dispatched", "streaming_reuse", "streaming_once",
     "tunnel", "response_over", "parking", "retiring"}

\* The connection is fresh, has been taken from the pool, or is about to go there.
Quiet == {"pooled", "reselect", "dial", "selected", "parking"}

Exchanging == {"dispatched", "streaming_reuse", "streaming_once", "tunnel", "response_over"}

Resolving == {e \in Exchanges : phase[e] \in {"resolve", "cleanup"}}

\* What holds of an exchange and its connection.
ExchangeOK(e) ==
    /\ conn[e] # None <=> phase[e] \in Owning
    /\ conn[e] # None => driver[conn[e]] # "none"
    /\ phase[e] \in Quiet => onWire[conn[e]] = {}
    /\ upload[e] # "none" /\ request[e] = "none" => phase[e] \in Exchanging
    /\ phase[e] \in Exchanging =>
          /\ request[e] = "clean" => "request" \notin onWire[conn[e]]
          /\ response[e] = "reuse" => "response" \notin onWire[conn[e]]
    /\ phase[e] \in Exchanging \ {"response_over"} => response[e] = "none"
    /\ task[e] # "none" <=> phase[e] \in {"resolve", "cleanup"}

ExchangesOK == \A e \in Exchanges : ExchangeOK(e)

Alone == \A e, f \in Exchanges : conn[e] # None /\ conn[e] = conn[f] => e = f

InPool(c) == \E i \in DOMAIN idle : idle[i] = c

PoolOK ==
    /\ \A i, j \in DOMAIN idle : idle[i] = idle[j] => i = j
    /\ \A i \in DOMAIN idle : driver[idle[i]] # "none" /\ onWire[idle[i]] = {}
    /\ \A i \in DOMAIN idle, e \in Exchanges : conn[e] # idle[i]
    /\ Len(idle) <= PoolCapacity

Owned == \A c \in Conns : driver[c] # "none" => InPool(c) \/ \E e \in Exchanges : conn[e] = c

Unused == \A c \in Conns : driver[c] = "none" => onWire[c] = {}

Counted ==
    /\ IsFiniteSet(Busy) /\ active + Cardinality(Busy) = MaxActive
    /\ IsFiniteSet(Resolving) /\ resolvers + Cardinality(Resolving) = MaxResolvers

Connections == Alone /\ PoolOK /\ Owned /\ Unused

IInv == TypeOK /\ ExchangesOK /\ Connections /\ Counted

-----------------------------------------------------------------------------
LEMMA InitIInv ==
    Init => IInv
<1> SUFFICES ASSUME Init PROVE IInv
    OBVIOUS
<1>1. TypeOK
    BY UpstreamAssumption DEF Init, TypeOK, Phases
<1>2. ExchangesOK
    BY Zenon DEF Init, ExchangesOK, ExchangeOK, Owning, Quiet, Exchanging
<1>3. Connections
    BY UpstreamAssumption DEF Init, Connections, Alone, PoolOK, Owned, Unused
<1>4. Busy = {} /\ Resolving = {}
    BY Zenon DEF Init, Busy, Resolving
<1>5. Counted
    BY <1>4, FS_EmptySet, UpstreamAssumption DEF Init, Counted
<1> QED BY Zenon, <1>1, <1>2, <1>3, <1>5 DEF IInv

-----------------------------------------------------------------------------
(* Types.                                                                  *)

LatchTypeOK ==
    /\ upload \in [Exchanges -> {"none", "sending", "complete", "cancelled"}]
    /\ request \in [Exchanges -> {"none", "clean", "cut"}]
    /\ response \in [Exchanges -> {"none", "reuse", "retire"}]

\* The drivers and the phase of e after ExchangeLatch::complete.
LEMMA CompleteType ==
    ASSUME TypeOK, ExchangesOK, NEW e \in Exchanges, phase[e] \in Exchanging,
           NEW req \in {"none", "clean", "cut"}, NEW res \in {"none", "reuse", "retire"},
           NEW halfway \in Phases, complete(e, req, res, halfway)
    PROVE  /\ conn[e] \in Conns
           /\ request' = [request EXCEPT ![e] = req] /\ response' = [response EXCEPT ![e] = res]
           /\ \A c \in Conns \ {conn[e]} : driver'[c] = driver[c]
           /\ driver' \in [Conns -> {"none", "dialing", "live", "aborted", "ended"}]
           /\ driver'[conn[e]] # "none"
           /\ \/ (req = "none" \/ res = "none") /\ phase' = [phase EXCEPT ![e] = halfway]
              \/ req = "clean" /\ res = "reuse" /\ phase' = [phase EXCEPT ![e] = "parking"]
              \/ req # "none" /\ res # "none" /\ phase' = [phase EXCEPT ![e] = "retiring"]
<1>1. conn[e] \in Conns /\ driver[conn[e]] # "none"
    BY DEF TypeOK, ExchangesOK, ExchangeOK, Owning, Exchanging
<1>2. CASE UNCHANGED driver
    BY Zenon, <1>1, <1>2 DEF complete, schedule_retirement, Goto, TypeOK
<1>3. CASE schedule_retirement(e)
    BY <1>1, <1>3 DEF complete, schedule_retirement, abort, Goto, TypeOK
<1> QED BY Zenon, <1>2, <1>3 DEF complete

LEMMA PhaseType ==
    ASSUME TypeOK, NEW e \in Exchanges, \E p \in Phases : phase' = [phase EXCEPT ![e] = p]
    PROVE  phase' \in [Exchanges -> Phases]
BY Zenon DEF TypeOK

LEMMA DialEffect ==
    ASSUME TypeOK, NEW e \in Exchanges, Dial(e)
    PROVE  /\ \E c \in Conns : /\ driver[c] = "none"
                               /\ driver' = [driver EXCEPT ![c] = "dialing"]
                               /\ conn' = [conn EXCEPT ![e] = c]
           /\ phase' = [phase EXCEPT ![e] = "dial"]
<1> DEFINE unused == {c \in Conns : driver[c] = "none"}
           new == CHOOSE c \in unused : TRUE
<1>1. new \in unused
    BY Zenon DEF Dial
<1>2. driver' = [driver EXCEPT ![new] = "dialing"] /\ conn' = [conn EXCEPT ![e] = new]
    BY Zenon DEF Dial
<1>3. phase' = [phase EXCEPT ![e] = "dial"]
    BY Zenon DEF Dial, Goto
<1> HIDE DEF new
<1> QED BY Zenon, <1>1, <1>2, <1>3

\* What a step of exchange e leaves alone.
Kept(f) ==
    /\ phase'[f] = phase[f] /\ conn'[f] = conn[f] /\ task'[f] = task[f]
    /\ upload'[f] = upload[f] /\ request'[f] = request[f] /\ response'[f] = response[f]

Others(e) == \A f \in Exchanges \ {e} : Kept(f)

\* What a step of exchange e does with connections: it keeps the one it has, gives it up
\* when its task has been joined, dials one, takes one from the pool, or parks it.
Keeps(e) ==
    /\ idle' = idle /\ conn' = conn
    /\ \A c \in Conns : driver'[c] = "none" <=> driver[c] = "none"
    /\ \A c \in Conns : c # conn[e] => onWire'[c] = onWire[c]

Drops(e) ==
    /\ idle' = idle /\ conn[e] \in Conns /\ conn' = [conn EXCEPT ![e] = None]
    /\ driver' = [driver EXCEPT ![conn[e]] = "none"]
    /\ onWire' = [onWire EXCEPT ![conn[e]] = {}]

Dials(e) ==
    /\ idle' = idle /\ onWire' = onWire /\ conn[e] = None
    /\ \E c \in Conns : /\ driver[c] = "none" /\ driver' = [driver EXCEPT ![c] = "dialing"]
                        /\ conn' = [conn EXCEPT ![e] = c]

Takes(e) ==
    /\ driver' = driver /\ onWire' = onWire /\ conn[e] = None
    /\ idle # <<>> /\ idle' = Tail(idle) /\ conn' = [conn EXCEPT ![e] = Head(idle)]

Parks(e) ==
    /\ driver' = driver /\ onWire' = onWire /\ conn[e] \in Conns /\ onWire[conn[e]] = {}
    /\ Len(idle) < PoolCapacity
    /\ idle' = Append(idle, conn[e]) /\ conn' = [conn EXCEPT ![e] = None]

Moves(e) == Keeps(e) \/ Drops(e) \/ Dials(e) \/ Takes(e) \/ Parks(e)

\* What a step of exchange e does with the permits.
Counts(e) ==
    /\ \/ active' = active /\ (phase[e] = "idle" <=> phase'[e] = "idle")
       \/ active > 0 /\ active' = active - 1 /\ phase[e] = "idle" /\ phase'[e] # "idle"
       \/ active' = active + 1 /\ phase[e] # "idle" /\ phase'[e] = "idle"
    /\ LET r == phase[e] \in {"resolve", "cleanup"}
           s == phase'[e] \in {"resolve", "cleanup"}
       IN  \/ resolvers' = resolvers /\ r = s
           \/ resolvers > 0 /\ resolvers' = resolvers - 1 /\ ~r /\ s
           \/ resolvers' = resolvers + 1 /\ r /\ ~s

Effect(e) == TypeOK' /\ ExchangeOK(e)' /\ Others(e) /\ Moves(e) /\ Counts(e)

-----------------------------------------------------------------------------
(* Every step of an exchange has such an effect: selection.                *)

LEMMA Selecting ==
    ASSUME IInv, NEW e \in Exchanges, forward(e) \/ TakePooled(e) \/ PooledReady(e) \/ Reselect(e)
    PROVE  Effect(e)
<1>0. TypeOK /\ ExchangeOK(e)
    BY Zenon DEF IInv, ExchangesOK
<1>1. CASE forward(e)
    <2>1. TypeOK'
        BY <1>0, <1>1, UpstreamAssumption DEF forward, Goto, poolVars, latchVars, TypeOK, Phases
    <2>2. ExchangeOK(e)'
        BY Zenon, <1>0, <1>1
           DEF forward, Goto, poolVars, latchVars, TypeOK, ExchangeOK, Owning, Quiet,
                          Exchanging
    <2>3. Others(e) /\ Keeps(e) /\ Counts(e)
        BY <1>0, <1>1 DEF forward, Goto, poolVars, latchVars, TypeOK, Others, Kept, Keeps, Counts
    <2> QED BY Zenon, <2>1, <2>2, <2>3 DEF Effect, Moves
<1>2. CASE TakePooled(e)
    <2>1. Head(idle) \in Conns /\ Tail(idle) \in Seq(Conns)
        BY <1>0, <1>2 DEF TakePooled, TypeOK
    <2>2. Head(idle) = idle[1] /\ 1 \in DOMAIN idle
        BY <1>0, <1>2 DEF TakePooled, TypeOK
    <2>3. driver[Head(idle)] # "none" /\ onWire[Head(idle)] = {}
        BY Zenon, <2>2 DEF IInv, Connections, PoolOK
    <2>4. TypeOK'
        BY <1>0, <1>2, <2>1, UpstreamAssumption DEF TakePooled, Goto, permitVars, latchVars, TypeOK,
                                                    Phases
    <2>5. ExchangeOK(e)'
        BY <1>0, <1>2, <2>1, <2>3, UpstreamAssumption
        DEF TakePooled, Goto, permitVars, latchVars, TypeOK, ExchangeOK, Owning, Quiet, Exchanging
    <2>6. Others(e) /\ Takes(e) /\ Counts(e)
        BY <1>0, <1>2 DEF TakePooled, Goto, permitVars, latchVars, TypeOK, ExchangeOK, Owning,
                          Others, Kept, Takes, Counts
    <2> QED BY Zenon, <2>4, <2>5, <2>6 DEF Effect, Moves
<1>3. CASE PooledReady(e)
    <2>0. conn[e] \in Conns /\ driver[conn[e]] # "none"
        BY <1>0, <1>3 DEF PooledReady, ExchangeOK, TypeOK, Owning
    <2>1. TypeOK'
        <3>1. \E p \in Phases : phase' = [phase EXCEPT ![e] = p]
            BY Zenon, <1>3 DEF PooledReady, Goto, Phases
        <3>2. driver' \in [Conns -> {"none", "dialing", "live", "aborted", "ended"}]
            BY ZenonT(60), <1>0, <1>3, <2>0 DEF PooledReady, abort, TypeOK
        <3>3. tries' \in [Exchanges -> 0 .. PoolCapacity]
            BY <1>0, <1>3, UpstreamAssumption DEF PooledReady, TypeOK
        <3> QED BY Zenon, <1>0, <1>3, <3>1, <3>2, <3>3, PhaseType
           DEF PooledReady, permitVars, poolVars, latchVars,
                                                    TypeOK
    <2>2. ExchangeOK(e)'
        BY <1>0, <1>3, <2>0 DEF PooledReady, abort, Goto, permitVars, poolVars, latchVars, TypeOK,
                                ExchangeOK, Owning, Quiet, Exchanging
    <2>3. Others(e) /\ Keeps(e) /\ Counts(e)
        BY <1>0, <1>3, <2>0 DEF PooledReady, abort, Goto, permitVars, poolVars, latchVars, TypeOK,
                                Others, Kept, Keeps, Counts
    <2> QED BY <2>1, <2>2, <2>3 DEF Effect, Moves
<1>4. CASE Reselect(e)
    <2>0. conn[e] \in Conns /\ onWire[conn[e]] = {}
        BY <1>0, <1>4 DEF Reselect, ExchangeOK, TypeOK, Owning, Quiet
    <2>1. TypeOK'
        BY Zenon, <1>0, <1>4, <2>0
           DEF Reselect, Goto, permitVars, poolVars, latchVars, TypeOK, Phases
    <2>2. ExchangeOK(e)'
        BY <1>0, <1>4, <2>0 DEF Reselect, Goto, permitVars, poolVars, latchVars, TypeOK,
                                ExchangeOK, Owning, Quiet, Exchanging
    <2>3. Others(e) /\ Drops(e) /\ Counts(e)
        BY <1>0, <1>4, <2>0 DEF Reselect, Goto, permitVars, poolVars, latchVars, TypeOK,
                                Others, Kept, Drops, Counts
    <2> QED BY Zenon, <2>1, <2>2, <2>3 DEF Effect, Moves
<1> QED BY Zenon, <1>1, <1>2, <1>3, <1>4

-----------------------------------------------------------------------------
(* Resolving and connecting.                                               *)

LEMMA Connecting ==
    ASSUME IInv, NEW e \in Exchanges,
           connect(e) \/ observed(e) \/ Connected(e) \/ DialFails(e)
    PROVE  Effect(e)
<1>0. TypeOK /\ ExchangeOK(e)
    BY DEF IInv, ExchangesOK
<1>1. CASE (connect(e) \/ observed(e)) /\ Dial(e)
    <2>1. PICK c \in Conns : /\ driver[c] = "none" /\ driver' = [driver EXCEPT ![c] = "dialing"]
                             /\ conn' = [conn EXCEPT ![e] = c]
        BY Zenon, <1>0, <1>1, DialEffect
    <2>2. /\ phase' = [phase EXCEPT ![e] = "dial"] /\ conn[e] = None
          /\ phase[e] \in {"select", "resolve"} /\ task'[e] = "none"
          /\ task' \in [Exchanges -> {"none", "queued", "started", "finished"}]
          /\ tries' \in [Exchanges -> 0 .. PoolCapacity]
          /\ active' = active /\ resolvers' \in Nat
          /\ \A f \in Exchanges \ {e} : task'[f] = task[f]
          /\ IF phase[e] = "select" THEN resolvers' = resolvers ELSE resolvers' = resolvers + 1
          /\ UNCHANGED <<domain, idle, onWire, upload, request, response>>
        <3>1. phase' = [phase EXCEPT ![e] = "dial"]
            BY Zenon, <1>0, <1>1, DialEffect
        <3>2. CASE connect(e)
            <4>1. ~domain /\ UNCHANGED <<permitVars, task>>
                BY Zenon, <1>0, <3>1, <3>2 DEF connect, GiveBack, Goto, TypeOK
            <4> QED BY <1>0, <3>1, <3>2, <4>1, UpstreamAssumption
                    DEF connect, permitVars, poolVars, latchVars, TypeOK, ExchangeOK, Owning
        <3>3. CASE observed(e)
            <4>1. active' = active
                BY Zenon, <1>0, <3>1, <3>3 DEF observed, GiveBack, Goto, TypeOK
            <4> QED BY <1>0, <3>1, <3>3, <4>1
                    DEF observed, poolVars, latchVars, TypeOK, ExchangeOK, Owning
        <3> QED BY Zenon, <1>1, <3>2, <3>3
    <2>3. TypeOK'
        BY Zenon, <1>0, <2>1, <2>2 DEF TypeOK, Phases
    <2>4. onWire[c] = {}
        BY Zenon, <2>1 DEF IInv, Connections, Unused
    <2>5. ExchangeOK(e)'
        BY <1>0, <2>1, <2>2, <2>4, UpstreamAssumption DEF TypeOK, ExchangeOK, Owning, Quiet,
                                                          Exchanging
    <2>6. Others(e) /\ Dials(e) /\ Counts(e)
        <3>1. Others(e)
            BY <1>0, <2>1, <2>2 DEF TypeOK, Others, Kept
        <3>2. Dials(e)
            BY Zenon, <2>1, <2>2 DEF Dials
        <3>3. phase'[e] = "dial"
            BY Zenon, <1>0, <2>2 DEF TypeOK
        <3> QED BY <2>2, <3>1, <3>2, <3>3 DEF Counts
    <2> QED BY Zenon, <2>3, <2>5, <2>6 DEF Effect, Moves
<1>2. CASE (connect(e) \/ observed(e)) /\ ~Dial(e)
    <2>1. /\ conn[e] = None
          /\ \/ /\ phase[e] = "select" /\ resolvers > 0 /\ resolvers' = resolvers - 1
                /\ task' = [task EXCEPT ![e] = "queued"]
                /\ phase' = [phase EXCEPT ![e] = "resolve"] /\ active' = active
             \/ /\ phase[e] = "select" /\ resolvers' = resolvers /\ task' = task
                /\ phase' = [phase EXCEPT ![e] = "idle"] /\ active' = active + 1
             \/ /\ phase[e] = "resolve" /\ resolvers' = resolvers + 1
                /\ task' = [task EXCEPT ![e] = "none"]
                /\ phase' = [phase EXCEPT ![e] = "idle"] /\ active' = active + 1
          /\ tries' \in [Exchanges -> 0 .. PoolCapacity]
          /\ UNCHANGED <<domain, idle, onWire, driver, conn, upload, request, response>>
        <3>1. CASE connect(e)
            <4>1. tries' \in [Exchanges -> 0 .. PoolCapacity]
                BY <1>0, <3>1, UpstreamAssumption DEF connect, TypeOK
            <4>2. conn[e] = None /\ phase[e] = "select"
                BY Zenon, <1>0, <3>1 DEF connect, ExchangeOK, Owning
            <4> QED BY Zenon, <1>2, <3>1, <4>1, <4>2
                    DEF connect, GiveBack, Goto, poolVars, latchVars, permitVars
        <3>2. CASE observed(e)
            <4>1. conn[e] = None /\ phase[e] = "resolve"
                BY Zenon, <1>0, <3>2 DEF observed, ExchangeOK, Owning
            <4> QED BY Zenon, <1>0, <1>2, <3>2, <4>1
                    DEF observed, GiveBack, Goto, poolVars, latchVars, TypeOK
        <3> QED BY Zenon, <1>2, <3>1, <3>2
    <2>2. TypeOK'
        <3>1. \E p \in Phases : phase' = [phase EXCEPT ![e] = p]
            BY Zenon, <2>1 DEF Phases
        <3>2. task' \in [Exchanges -> {"none", "queued", "started", "finished"}]
            BY ZenonT(60), <1>0, <2>1 DEF TypeOK
        <3>3. active' \in Nat /\ resolvers' \in Nat
            BY <1>0, <2>1 DEF TypeOK
        <3> QED BY Zenon, <1>0, <2>1, <3>1, <3>2, <3>3, PhaseType DEF TypeOK
    <2>3. ExchangeOK(e)'
        BY <1>0, <2>1 DEF TypeOK, ExchangeOK, Owning, Quiet, Exchanging
    <2>4. Others(e) /\ Keeps(e) /\ Counts(e)
        BY <1>0, <2>1 DEF TypeOK, Others, Kept, Keeps, Counts
    <2> QED BY <2>2, <2>3, <2>4 DEF Effect, Moves
<1>3. CASE Connected(e)
    <2>0. conn[e] \in Conns /\ driver[conn[e]] # "none"
        BY Zenon, <1>0, <1>3 DEF Connected, ExchangeOK, TypeOK, Owning
    <2>1. TypeOK'
        BY Zenon, <1>0, <1>3, <2>0
           DEF Connected, Goto, permitVars, poolVars, latchVars, TypeOK, Phases
    <2>2. ExchangeOK(e)'
        BY <1>0, <1>3, <2>0 DEF Connected, Goto, permitVars, poolVars, latchVars, TypeOK,
                                ExchangeOK, Owning, Quiet, Exchanging
    <2>3. Others(e) /\ Keeps(e) /\ Counts(e)
        BY <1>0, <1>3, <2>0 DEF Connected, Goto, permitVars, poolVars, latchVars, TypeOK,
                                Others, Kept, Keeps, Counts
    <2> QED BY <2>1, <2>2, <2>3 DEF Effect, Moves
<1>4. CASE DialFails(e)
    <2>0. conn[e] \in Conns /\ onWire[conn[e]] = {}
        BY Zenon, <1>0, <1>4 DEF DialFails, ExchangeOK, TypeOK, Owning, Quiet
    <2>1. TypeOK'
        BY <1>0, <1>4, <2>0 DEF DialFails, GiveBack, Goto, poolVars, latchVars, TypeOK, Phases
    <2>2. ExchangeOK(e)'
        BY <1>0, <1>4, <2>0 DEF DialFails, GiveBack, Goto, poolVars, latchVars, TypeOK,
                                ExchangeOK, Owning, Quiet, Exchanging
    <2>3. Others(e) /\ Drops(e) /\ Counts(e)
        BY <1>0, <1>4, <2>0 DEF DialFails, GiveBack, Goto, poolVars, latchVars, TypeOK,
                                Others, Kept, Drops, Counts
    <2> QED BY <2>1, <2>2, <2>3 DEF Effect, Moves
<1> QED BY Zenon, <1>1, <1>2, <1>3, <1>4

\* The lookup, its clean-up, the upload that ends, and the exchange that gives up.
LEMMA Looking ==
    ASSUME IInv, NEW e \in Exchanges,
           \/ TaskStarts(e) \/ TaskEnds(e) \/ schedule_resolver_cleanup(e) \/ CleanupJoined(e)
           \/ UploadEnds(e) \/ Abandon(e)
    PROVE  Effect(e)
<1>0. TypeOK /\ ExchangeOK(e)
    BY Zenon DEF IInv, ExchangesOK
<1>1. CASE TaskStarts(e) \/ TaskEnds(e) \/ schedule_resolver_cleanup(e) \/ CleanupJoined(e)
    <2> USE DEF TaskStarts, TaskEnds, schedule_resolver_cleanup, CleanupJoined, GiveBack, Goto,
                permitVars, poolVars, latchVars
    <2>1. TypeOK'
        <3>1. phase' = phase \/ \E p \in Phases : phase' = [phase EXCEPT ![e] = p]
            BY <1>1 DEF Phases
        <3>2. task' \in [Exchanges -> {"none", "queued", "started", "finished"}]
            BY <1>0, <1>1 DEF TypeOK
        <3>3. active' \in Nat /\ resolvers' \in Nat
            BY <1>0, <1>1 DEF TypeOK
        <3>4. phase' \in [Exchanges -> Phases]
            BY Zenon, <1>0, <3>1, PhaseType DEF TypeOK
        <3> QED BY <1>0, <1>1, <3>2, <3>3, <3>4 DEF TypeOK
    <2>2. ExchangeOK(e)'
        BY <1>0, <1>1 DEF TypeOK, ExchangeOK, Owning, Quiet, Exchanging
    <2>3. Others(e) /\ Keeps(e) /\ Counts(e)
        BY <1>0, <1>1 DEF TypeOK, Others, Kept, Keeps, Counts
    <2> QED BY <2>1, <2>2, <2>3 DEF Effect, Moves
<1>2. CASE UploadEnds(e)
    <2> USE DEF UploadEnds, permitVars, poolVars
    <2>1. TypeOK'
        BY <1>0, <1>2 DEF TypeOK, Phases
    <2>2. ExchangeOK(e)'
        BY Zenon, <1>0, <1>2 DEF TypeOK, ExchangeOK
    <2>3. Others(e) /\ Keeps(e) /\ Counts(e)
        BY <1>0, <1>2 DEF TypeOK, Others, Kept, Keeps, Counts
    <2> QED BY Zenon, <2>1, <2>2, <2>3 DEF Effect, Moves
<1>3. CASE Abandon(e)
    <2> USE DEF Abandon, schedule_retirement, abort, GiveBack, Goto, permitVars, poolVars, latchVars
    <2>0. phase[e] # "select" => conn[e] \in Conns /\ driver[conn[e]] # "none"
        BY <1>0, <1>3 DEF ExchangeOK, TypeOK, Owning
    <2>1. TypeOK'
        <3>1. \E p \in Phases : phase' = [phase EXCEPT ![e] = p]
            BY Zenon, <1>3 DEF Phases
        <3>4. active' \in Nat /\ resolvers' \in Nat
            BY <1>0, <1>3 DEF TypeOK
        <3>2. driver' \in [Conns -> {"none", "dialing", "live", "aborted", "ended"}]
            <4>1. \/ driver' = driver
                  \/ /\ conn[e] \in Conns
                     /\ driver' = [driver EXCEPT ![conn[e]] = IF @ = "ended" THEN @ ELSE "aborted"]
                BY Zenon, <1>3, <2>0
            <4>2. driver \in [Conns -> {"none", "dialing", "live", "aborted", "ended"}]
                BY Zenon, <1>0 DEF TypeOK
            <4> QED BY Zenon, <4>1, <4>2
        <3>3. tries' \in [Exchanges -> 0 .. PoolCapacity]
            <4>1. tries' = [tries EXCEPT ![e] = 0]
                BY Zenon, <1>3
            <4> QED BY <1>0, <4>1, UpstreamAssumption DEF TypeOK
        <3>5. phase' \in [Exchanges -> Phases]
            BY ZenonT(60), <1>0, <3>1, PhaseType
        <3>6. UNCHANGED <<domain, idle, onWire, conn, task, upload, request, response>>
            BY <1>3
        <3> QED BY <1>0, <3>2, <3>3, <3>4, <3>5, <3>6 DEF TypeOK
    <2>2. ExchangeOK(e)'
        BY <1>0, <1>3, <2>0 DEF TypeOK, ExchangeOK, Owning, Quiet, Exchanging
    <2>3. Others(e) /\ Keeps(e) /\ Counts(e)
        BY <1>0, <1>3, <2>0 DEF TypeOK, Others, Kept, Keeps, Counts
    <2> QED BY Zenon, <2>1, <2>2, <2>3 DEF Effect, Moves
<1> QED BY Zenon, <1>1, <1>2, <1>3

-----------------------------------------------------------------------------
(* The exchange itself.                                                    *)

\* A step that ends one of the halves, with the latch as it was before.
LEMMA Latched ==
    ASSUME IInv, NEW e \in Exchanges, phase[e] \in Exchanging,
           NEW req \in {"none", "clean", "cut"}, NEW res \in {"none", "reuse", "retire"},
           NEW halfway \in Exchanging,
           complete(e, req, res, halfway),
           halfway # "response_over" => res = "none",
           onWire' \in [Conns -> SUBSET {"request", "response"}],
           \A c \in Conns : c # conn[e] => onWire'[c] = onWire[c],
           req = "clean" => "request" \notin onWire'[conn[e]],
           res = "reuse" => "response" \notin onWire'[conn[e]],
           upload' \in [Exchanges -> {"none", "sending", "complete", "cancelled"}],
           \A f \in Exchanges \ {e} : upload'[f] = upload[f],
           UNCHANGED <<domain, active, resolvers, idle, conn, tries, task>>
    PROVE  Effect(e)
<1>0. TypeOK /\ ExchangesOK /\ ExchangeOK(e)
    BY Zenon DEF IInv, ExchangesOK
<1>1. halfway \in Phases
    BY DEF Exchanging, Phases
<1>2. /\ conn[e] \in Conns
      /\ request' = [request EXCEPT ![e] = req] /\ response' = [response EXCEPT ![e] = res]
      /\ \A c \in Conns \ {conn[e]} : driver'[c] = driver[c]
      /\ driver' \in [Conns -> {"none", "dialing", "live", "aborted", "ended"}]
      /\ driver'[conn[e]] # "none"
      /\ \/ (req = "none" \/ res = "none") /\ phase' = [phase EXCEPT ![e] = halfway]
         \/ req = "clean" /\ res = "reuse" /\ phase' = [phase EXCEPT ![e] = "parking"]
         \/ req # "none" /\ res # "none" /\ phase' = [phase EXCEPT ![e] = "retiring"]
    BY <1>0, <1>1, CompleteType
<1>3. driver[conn[e]] # "none" /\ conn[e] # None /\ task[e] = "none"
    BY Zenon, <1>0 DEF ExchangeOK, Owning, Exchanging
<1>4. TypeOK'
    <2>1. \E p \in Phases : phase' = [phase EXCEPT ![e] = p]
        BY Zenon, <1>1, <1>2 DEF Phases
    <2>2. /\ request' \in [Exchanges -> {"none", "clean", "cut"}]
          /\ response' \in [Exchanges -> {"none", "reuse", "retire"}]
        BY Zenon, <1>0, <1>2 DEF TypeOK
    <2> QED BY Zenon, <1>0, <1>2, <2>1, <2>2, PhaseType DEF TypeOK
<1>5. /\ request'[e] = req /\ response'[e] = res
      /\ \/ (req = "none" \/ res = "none") /\ phase'[e] = halfway
         \/ req = "clean" /\ res = "reuse" /\ phase'[e] = "parking"
         \/ req # "none" /\ res # "none" /\ phase'[e] = "retiring"
    BY <1>0, <1>2 DEF TypeOK
<1>6. ExchangeOK(e)'
    <2>1. CASE phase'[e] = halfway
        <3>1. phase'[e] \in Exchanging /\ phase'[e] \in Owning /\ phase'[e] \notin Quiet
            BY Zenon, <2>1 DEF Exchanging, Owning, Quiet
        <3>2. phase'[e] \notin {"resolve", "cleanup"}
            BY Zenon, <2>1 DEF Exchanging
        <3> QED BY Zenon, <1>2, <1>3, <1>5, <2>1, <3>1, <3>2 DEF ExchangeOK
    <2>2. CASE phase'[e] = "parking" /\ req = "clean" /\ res = "reuse"
        <3>1. onWire'[conn[e]] = {}
            BY <1>2, <2>2
        <3> QED BY Zenon, <1>2, <1>3, <1>5, <2>2, <3>1 DEF ExchangeOK, Exchanging, Owning, Quiet
    <2>3. CASE phase'[e] = "retiring" /\ req # "none" /\ res # "none"
        BY Zenon, <1>2, <1>3, <1>5, <2>3 DEF ExchangeOK, Exchanging, Owning, Quiet
    <2> QED BY Zenon, <1>5, <2>1, <2>2, <2>3
<1>7. Others(e)
    BY <1>0, <1>2 DEF TypeOK, Others, Kept
<1>8. Keeps(e)
    BY Zenon, <1>0, <1>2, <1>3 DEF TypeOK, Keeps
<1>9. Counts(e)
    BY <1>5 DEF Counts, Exchanging
<1> QED BY ZenonT(60), <1>4, <1>6, <1>7, <1>8, <1>9 DEF Effect, Moves

LEMMA ExchangingSteps ==
    ASSUME IInv, NEW e \in Exchanges,
           BodyDropped(e) \/ ResponseHead(e) \/ DispatchFails(e) \/ ResponseEnds(e) \/ TunnelEnds(e)
    PROVE  Effect(e)
<1>0. TypeOK /\ ExchangeOK(e)
    BY Zenon DEF IInv, ExchangesOK
<1>1. request[e] \in {"none", "clean", "cut"} /\ response[e] \in {"none", "reuse", "retire"}
    BY Zenon, <1>0 DEF TypeOK
<1>2. CASE BodyDropped(e)
    <2> DEFINE req == IF upload[e] = "complete" THEN "clean" ELSE "cut"
    <2>1. phase[e] \in Exchanging /\ request[e] = "none"
        BY Zenon, <1>0, <1>2 DEF BodyDropped, ExchangeOK
    <2>2. conn[e] \in Conns
        BY Zenon, <1>0, <2>1 DEF ExchangeOK, TypeOK, Owning, Exchanging
    <2>3. /\ onWire' \in [Conns -> SUBSET {"request", "response"}]
          /\ \A c \in Conns : c # conn[e] => onWire'[c] = onWire[c]
          /\ req = "clean" => "request" \notin onWire'[conn[e]]
          /\ "response" \notin onWire[conn[e]] => "response" \notin onWire'[conn[e]]
        <3>1. CASE upload[e] = "complete"
            BY Zenon, <1>0, <1>2, <2>2, <3>1 DEF BodyDropped, TypeOK
        <3>2. CASE upload[e] # "complete"
            BY Zenon, <1>0, <1>2, <2>2, <3>2 DEF BodyDropped, TypeOK
        <3> QED BY Zenon, <3>1, <3>2
    <2>4. response[e] = "reuse" => "response" \notin onWire'[conn[e]]
        BY Zenon, <1>0, <2>1, <2>3 DEF ExchangeOK
    <2>5. phase[e] # "response_over" => response[e] = "none"
        BY Zenon, <1>0, <2>1 DEF ExchangeOK
    <2>6. /\ upload' \in [Exchanges -> {"none", "sending", "complete", "cancelled"}]
          /\ \A f \in Exchanges \ {e} : upload'[f] = upload[f]
        BY <1>0, <1>2 DEF BodyDropped, TypeOK
    <2>7. /\ complete(e, req, response[e], phase[e])
          /\ UNCHANGED <<domain, active, resolvers, idle, conn, tries, task>>
        BY Zenon, <1>2 DEF BodyDropped, permitVars
    <2>8. req \in {"none", "clean", "cut"}
        OBVIOUS
    <2> HIDE DEF req
    <2> QED BY Zenon, <1>1, <2>1, <2>3, <2>4, <2>5, <2>6, <2>7, <2>8, Latched
<1>3. CASE ResponseHead(e) \/ DispatchFails(e) \/ TunnelEnds(e)
    <2>1. /\ phase[e] \in {"dispatched", "tunnel"} /\ phase[e] \in Exchanging
          /\ onWire' = onWire
          /\ UNCHANGED <<domain, active, resolvers, idle, conn, tries, task>>
        BY Zenon, <1>3 DEF ResponseHead, DispatchFails, TunnelEnds, permitVars, poolVars, Exchanging
    <2>2. /\ upload' \in [Exchanges -> {"none", "sending", "complete", "cancelled"}]
          /\ \A f \in Exchanges \ {e} : upload'[f] = upload[f]
        <3>1. upload' = upload
              \/ upload' = [upload EXCEPT ![e] = IF @ = "sending" THEN "cancelled" ELSE @]
            BY Zenon, <1>3 DEF ResponseHead, DispatchFails, TunnelEnds, cancel
        <3> QED BY <1>0, <3>1 DEF TypeOK
    <2>3. /\ onWire' \in [Conns -> SUBSET {"request", "response"}]
          /\ \A c \in Conns : c # conn[e] => onWire'[c] = onWire[c]
          /\ request[e] = "clean" => "request" \notin onWire'[conn[e]]
        BY Zenon, <1>0, <2>1 DEF TypeOK, ExchangeOK
    <2>4. CASE complete(e, request[e], "retire", "response_over")
        <3>1. "response_over" \in Exchanging
            BY Zenon DEF Exchanging
        <3> QED BY Zenon, <1>1, <2>1, <2>2, <2>3, <2>4, <3>1, Latched
    <2>5. CASE \E next \in {"streaming_reuse", "streaming_once", "tunnel"} :
                   phase' = [phase EXCEPT ![e] = next] /\ UNCHANGED <<driver, request, response>>
        <3>1. PICK next \in {"streaming_reuse", "streaming_once", "tunnel"} :
                   phase' = [phase EXCEPT ![e] = next] /\ UNCHANGED <<driver, request, response>>
            BY ZenonT(60), <2>5
        <3>2. next \in Phases
            BY Zenon DEF Phases
        <3>3. TypeOK'
            BY Zenon, <1>0, <2>1, <2>2, <3>1, <3>2, PhaseType DEF TypeOK
        <3>4. phase'[e] = next
            BY Zenon, <1>0, <3>1 DEF TypeOK
        <3>5. ExchangeOK(e)'
            BY <1>0, <2>1, <3>1, <3>4 DEF ExchangeOK, Owning, Quiet, Exchanging
        <3>6. Others(e)
            BY SMTT(60), <1>0, <2>1, <2>2, <3>1 DEF TypeOK, Others, Kept
        <3>7. Keeps(e) /\ Counts(e)
            BY SMTT(60), <2>1, <3>1, <3>4 DEF Keeps, Counts
        <3> QED BY Zenon, <3>3, <3>5, <3>6, <3>7 DEF Effect, Moves
    <2> QED BY Zenon, <1>3, <2>4, <2>5
       DEF ResponseHead, DispatchFails, TunnelEnds, response_done, Goto
<1>4. CASE ResponseEnds(e)
    <2>1. /\ phase[e] \in Exchanging
          /\ UNCHANGED <<domain, active, resolvers, idle, conn, tries, task, upload>>
        BY Zenon, <1>4 DEF ResponseEnds, permitVars, Exchanging
    <2>2. PICK res \in {"reuse", "retire"} :
             /\ complete(e, request[e], res, "response_over")
             /\ \/ onWire' = onWire /\ res = "retire"
                \/ onWire' = [onWire EXCEPT ![conn[e]] = @ \ {"response"}]
        BY Zenon, <1>4 DEF ResponseEnds, response_done
    <2>3. conn[e] \in Conns
        BY Zenon, <1>0, <2>1 DEF ExchangeOK, TypeOK, Owning, Exchanging
    <2>4. /\ onWire' \in [Conns -> SUBSET {"request", "response"}]
          /\ \A c \in Conns : c # conn[e] => onWire'[c] = onWire[c]
          /\ res = "reuse" => "response" \notin onWire'[conn[e]]
          /\ "request" \notin onWire[conn[e]] => "request" \notin onWire'[conn[e]]
        BY SMTT(60), <1>0, <2>2, <2>3 DEF TypeOK
    <2>5. request[e] = "clean" => "request" \notin onWire'[conn[e]]
        BY Zenon, <1>0, <2>1, <2>4 DEF ExchangeOK
    <2>6. /\ upload' \in [Exchanges -> {"none", "sending", "complete", "cancelled"}]
          /\ \A f \in Exchanges \ {e} : upload'[f] = upload[f]
        BY Zenon, <1>0, <2>1 DEF TypeOK
    <2>7. "response_over" \in Exchanging
        BY Zenon DEF Exchanging
    <2> QED BY SMTT(60), <1>1, <2>1, <2>2, <2>4, <2>5, <2>6, <2>7, Latched
<1> QED BY Zenon, <1>2, <1>3, <1>4

LEMMA DispatchAndEnd ==
    ASSUME IInv, NEW e \in Exchanges, Dispatch(e) \/ Park(e) \/ Parked(e) \/ Retired(e)
    PROVE  Effect(e)
<1>0. TypeOK /\ ExchangeOK(e)
    BY DEF IInv, ExchangesOK
<1>1. CASE Dispatch(e)
    <2>0. conn[e] \in Conns /\ driver[conn[e]] # "none" /\ task[e] = "none"
        BY <1>0, <1>1 DEF Dispatch, ExchangeOK, TypeOK, Owning
    <2>1. TypeOK'
        <3>1. \E p \in Phases : phase' = [phase EXCEPT ![e] = p]
            BY Zenon, <1>1 DEF Dispatch, Goto, Phases
        <3>2. onWire' \in [Conns -> SUBSET {"request", "response"}]
            BY Zenon, <1>0, <1>1, <2>0 DEF Dispatch, TypeOK
        <3>3. LatchTypeOK'
            BY SMTT(60), <1>0, <1>1 DEF Dispatch, TypeOK, LatchTypeOK
        <3>4. UNCHANGED <<domain, active, resolvers, idle, driver, conn, tries, task>>
            BY Zenon, <1>1 DEF Dispatch, permitVars
        <3> QED BY Zenon, <1>0, <3>1, <3>2, <3>3, <3>4, PhaseType DEF TypeOK, LatchTypeOK
    <2>2. phase'[e] = "dispatched" /\ request'[e] = "none" /\ response'[e] = "none"
        BY SMTT(60), <1>0, <1>1 DEF Dispatch, Goto, TypeOK
    <2>3. ExchangeOK(e)'
        BY <1>0, <1>1, <2>0, <2>2 DEF Dispatch, TypeOK, ExchangeOK, Owning, Quiet, Exchanging
    <2>4. Others(e)
        BY SMTT(60), <1>0, <1>1 DEF Dispatch, Goto, TypeOK, Others, Kept
    <2>5. Keeps(e) /\ Counts(e)
        BY SMTT(60), <1>0, <1>1, <2>0, <2>2 DEF Dispatch, permitVars, TypeOK, Keeps, Counts
    <2> QED BY <2>1, <2>3, <2>4, <2>5 DEF Effect, Moves
<1>2. CASE Park(e)
    <2>0. conn[e] \in Conns /\ driver[conn[e]] # "none" /\ task[e] = "none" /\ onWire[conn[e]] = {}
        BY Zenon, <1>0, <1>2 DEF Park, ExchangeOK, TypeOK, Owning, Quiet
    <2>1. UNCHANGED <<domain, active, resolvers, onWire, tries, task, upload, request, response>>
        BY Zenon, <1>2 DEF Park, permitVars, latchVars
    <2>2. upload[e] # "none" => request[e] # "none"
        BY Zenon, <1>0, <1>2 DEF Park, ExchangeOK, Exchanging
    <2>3. CASE /\ Len(idle) < PoolCapacity /\ idle' = Append(idle, conn[e])
               /\ conn' = [conn EXCEPT ![e] = None] /\ phase' = [phase EXCEPT ![e] = "parked"]
               /\ driver' = driver
        <3>1. idle' \in Seq(Conns) /\ "parked" \in Phases
            BY <1>0, <2>0, <2>3 DEF TypeOK, Phases
        <3>2. TypeOK'
            BY Zenon, <1>0, <2>1, <2>3, <3>1, PhaseType DEF TypeOK
        <3>3. phase'[e] = "parked" /\ conn'[e] = None
            BY Zenon, <1>0, <2>3 DEF TypeOK
        <3>4. ExchangeOK(e)'
            BY Zenon, <2>0, <2>1, <2>2, <3>3 DEF ExchangeOK, Owning, Quiet, Exchanging
        <3>5. Others(e)
            BY Zenon, <1>0, <2>1, <2>3 DEF TypeOK, Others, Kept
        <3>6. Parks(e)
            BY Zenon, <2>0, <2>1, <2>3 DEF Parks
        <3>7. /\ phase[e] # "idle" /\ phase'[e] # "idle"
              /\ phase[e] \notin {"resolve", "cleanup"} /\ phase'[e] \notin {"resolve", "cleanup"}
            BY Zenon, <1>2, <3>3 DEF Park
        <3>8. Counts(e)
            <4>1. active' = active /\ resolvers' = resolvers
                BY Zenon, <2>1
            <4>2. (phase[e] \in {"resolve", "cleanup"}) = (phase'[e] \in {"resolve", "cleanup"})
                BY ONLY <3>7
            <4> QED BY ONLY Zenon, <3>7, <4>1, <4>2 DEF Counts
        <3> QED BY <3>2, <3>4, <3>5, <3>6, <3>8 DEF Effect, Moves
    <2>4. CASE /\ driver' = [driver EXCEPT ![conn[e]] = IF @ = "ended" THEN @ ELSE "aborted"]
               /\ phase' = [phase EXCEPT ![e] = "retiring"] /\ UNCHANGED <<idle, conn>>
        <3>1. /\ driver' \in [Conns -> {"none", "dialing", "live", "aborted", "ended"}]
              /\ "retiring" \in Phases /\ driver'[conn[e]] # "none"
              /\ \A c \in Conns \ {conn[e]} : driver'[c] = driver[c]
            BY <1>0, <2>0, <2>4 DEF TypeOK, Phases
        <3>2. TypeOK'
            BY Zenon, <1>0, <2>1, <2>4, <3>1, PhaseType DEF TypeOK
        <3>3. phase'[e] = "retiring" /\ conn'[e] = conn[e] /\ conn[e] # None
            BY Zenon, <1>0, <2>0, <2>4, UpstreamAssumption DEF TypeOK
        <3>4. ExchangeOK(e)'
            BY Zenon, <2>0, <2>1, <2>2, <3>1, <3>3 DEF ExchangeOK, Owning, Quiet, Exchanging
        <3>5. Others(e)
            BY <1>0, <2>1, <2>4 DEF TypeOK, Others, Kept
        <3>6. Keeps(e) /\ Counts(e)
            BY SMTT(60), <1>2, <2>0, <2>1, <2>4, <3>1, <3>3 DEF Park, Keeps, Counts
        <3> QED BY <3>2, <3>4, <3>5, <3>6 DEF Effect, Moves
    <2> QED BY Zenon, <1>2, <2>3, <2>4 DEF Park, Goto, schedule_retirement, abort
<1>3. CASE Parked(e)
    <2>1. TypeOK'
        <3>1. \E p \in Phases : phase' = [phase EXCEPT ![e] = p]
            BY Zenon, <1>3 DEF Parked, GiveBack, Goto, Phases
        <3>2. LatchTypeOK'
            BY Zenon, <1>0, <1>3 DEF Parked, Forget, TypeOK, LatchTypeOK
        <3>3. active' \in Nat /\ UNCHANGED <<resolvers, domain, idle, onWire, driver, conn, tries, task>>
            BY <1>0, <1>3 DEF Parked, GiveBack, poolVars, TypeOK
        <3>4. phase' \in [Exchanges -> Phases]
            BY ZenonT(60), <1>0, <3>1, PhaseType
        <3> QED BY Zenon, <1>0, <3>2, <3>3, <3>4 DEF TypeOK, LatchTypeOK
    <2>2. phase'[e] = "idle" /\ upload'[e] = "none"
        BY <1>0, <1>3 DEF Parked, GiveBack, Goto, Forget, TypeOK
    <2>3. ExchangeOK(e)'
        BY Zenon, <1>0, <1>3, <2>2 DEF Parked, ExchangeOK, Owning, Quiet, Exchanging
    <2>4. Others(e)
        BY <1>0, <1>3 DEF Parked, GiveBack, Goto, Forget, TypeOK, Others, Kept
    <2>5. Keeps(e) /\ Counts(e)
        <3>1. /\ phase[e] = "parked" /\ active' = active + 1
              /\ resolvers' = resolvers /\ idle' = idle /\ onWire' = onWire
              /\ driver' = driver /\ conn' = conn
            BY Zenon, <1>3 DEF Parked, GiveBack, poolVars
        <3>2. /\ phase[e] # "idle" /\ phase[e] \notin {"resolve", "cleanup"}
              /\ phase'[e] \notin {"resolve", "cleanup"}
            BY Zenon, <2>2, <3>1
        <3>3. Keeps(e)
            BY Zenon, <3>1 DEF Keeps
        <3>4. Counts(e)
            <4>1. (phase[e] \in {"resolve", "cleanup"}) = (phase'[e] \in {"resolve", "cleanup"})
                BY ONLY <3>2
            <4> QED BY ONLY Zenon, <2>2, <3>1, <3>2, <4>1 DEF Counts
        <3> QED BY Zenon, <3>3, <3>4
    <2> QED BY <2>1, <2>3, <2>4, <2>5 DEF Effect, Moves
<1>4. CASE Retired(e)
    <2>0. conn[e] \in Conns /\ task[e] = "none"
        BY <1>0, <1>4 DEF Retired, ExchangeOK, TypeOK, Owning
    <2>1. TypeOK'
        <3>1. \E p \in Phases : phase' = [phase EXCEPT ![e] = p]
            BY Zenon, <1>4 DEF Retired, GiveBack, Goto, Phases
        <3>2. LatchTypeOK'
            BY Zenon, <1>0, <1>4 DEF Retired, Forget, TypeOK, LatchTypeOK
        <3>3. /\ driver' \in [Conns -> {"none", "dialing", "live", "aborted", "ended"}]
              /\ onWire' \in [Conns -> SUBSET {"request", "response"}]
              /\ conn' \in [Exchanges -> Conns \cup {None}]
            BY <1>0, <1>4, <2>0 DEF Retired, TypeOK
        <3>4. active' \in Nat /\ UNCHANGED <<domain, resolvers, idle, tries, task>>
            BY <1>0, <1>4 DEF Retired, GiveBack, TypeOK
        <3>5. phase' \in [Exchanges -> Phases]
            BY ZenonT(60), <1>0, <3>1, PhaseType
        <3> QED BY Zenon, <1>0, <3>2, <3>3, <3>4, <3>5 DEF TypeOK, LatchTypeOK
    <2>2. phase'[e] = "idle" /\ upload'[e] = "none" /\ conn'[e] = None
        BY <1>0, <1>4 DEF Retired, GiveBack, Goto, Forget, TypeOK
    <2>3. ExchangeOK(e)'
        BY <1>4, <2>0, <2>2 DEF Retired, ExchangeOK, Owning, Quiet, Exchanging
    <2>4. Others(e)
        BY SMTT(60), <1>0, <1>4 DEF Retired, GiveBack, Goto, Forget, TypeOK, Others, Kept
    <2>5. Drops(e) /\ Counts(e)
        BY <1>4, <2>0, <2>2 DEF Retired, GiveBack, Drops, Counts
    <2> QED BY Zenon, <2>1, <2>3, <2>4, <2>5 DEF Effect, Moves
<1> QED BY <1>1, <1>2, <1>3, <1>4

LEMMA StepEffect ==
    ASSUME IInv, NEW e \in Exchanges, Step(e)
    PROVE  Effect(e)
BY Zenon, Selecting, Connecting, Looking, ExchangingSteps, DispatchAndEnd DEF Step

-----------------------------------------------------------------------------
(* The other exchanges, the owners and the permits.                        *)

\* A connection that another exchange owns is not touched.
LEMMA OtherExchange ==
    ASSUME IInv, NEW e \in Exchanges, Effect(e), NEW f \in Exchanges \ {e}
    PROVE  ExchangeOK(f)'
<1>1. ExchangeOK(f) /\ Kept(f) /\ TypeOK
    BY Zenon DEF IInv, ExchangesOK, Effect, Others
<1>2. ASSUME conn[f] # None
      PROVE  onWire'[conn[f]] = onWire[conn[f]] /\ (driver'[conn[f]] = "none" <=> driver[conn[f]] = "none")
    <2>1. /\ conn[f] \in Conns /\ conn[f] # conn[e] /\ driver[conn[f]] # "none"
          /\ driver \in [Conns -> {"none", "dialing", "live", "aborted", "ended"}]
          /\ onWire \in [Conns -> SUBSET {"request", "response"}]
        BY <1>1, <1>2 DEF TypeOK, IInv, Connections, Alone, ExchangeOK
    <2>2. CASE Keeps(e) \/ Takes(e) \/ Parks(e)
        BY Zenon, <2>1, <2>2 DEF Keeps, Takes, Parks
    <2>3. CASE Drops(e)
        BY Zenon, <2>1, <2>3 DEF Drops
    <2>4. CASE Dials(e)
        BY Zenon, <2>1, <2>4 DEF Dials
    <2> QED BY Zenon, <2>2, <2>3, <2>4 DEF Effect, Moves
<1>3. phase[f] \in Quiet \cup Exchanging => conn[f] # None
    BY Zenon, <1>1 DEF ExchangeOK, Owning, Quiet, Exchanging
<1> QED BY Zenon, <1>1, <1>2, <1>3 DEF ExchangeOK, Kept

LEMMA PoolAfterTake ==
    ASSUME TypeOK, idle # <<>>, idle' = Tail(idle)
    PROVE  /\ Head(idle) = idle[1] /\ 1 \in DOMAIN idle /\ Len(idle') < Len(idle)
           /\ \A i \in DOMAIN idle' : i + 1 \in DOMAIN idle /\ idle'[i] = idle[i + 1]
           /\ \A i \in DOMAIN idle \ {1} : i - 1 \in DOMAIN idle' /\ idle'[i - 1] = idle[i]
           /\ DOMAIN idle \subseteq Nat
BY DEF TypeOK

LEMMA PoolAfterPark ==
    ASSUME TypeOK, NEW c \in Conns, idle' = Append(idle, c)
    PROVE  /\ DOMAIN idle' = DOMAIN idle \cup {Len(idle) + 1} /\ Len(idle) + 1 \notin DOMAIN idle
           /\ Len(idle') = Len(idle) + 1 /\ Len(idle) \in Nat
           /\ \A i \in DOMAIN idle : idle'[i] = idle[i]
           /\ idle'[Len(idle) + 1] = c
BY DEF TypeOK

LEMMA OwnersStep ==
    ASSUME IInv, NEW e \in Exchanges, Effect(e)
    PROVE  Connections'
<1>0. /\ TypeOK /\ Alone /\ PoolOK /\ Owned /\ Unused /\ TypeOK' /\ ExchangeOK(e) /\ ExchangeOK(e)'
      /\ \A f \in Exchanges \ {e} : conn'[f] = conn[f]
    BY Zenon DEF IInv, ExchangesOK, Connections, Effect, Others, Kept
<1>1. \A i \in DOMAIN idle : idle[i] \in Conns
    BY <1>0 DEF TypeOK
<1>2. CASE Keeps(e)
    <2>1. Alone' /\ Owned'
        BY Zenon, <1>0, <1>2 DEF Keeps, Alone, Owned, InPool
    <2>2. PoolOK'
        BY <1>0, <1>1, <1>2 DEF Keeps, PoolOK
    <2>3. Unused'
        <3>1. conn[e] # None => driver[conn[e]] # "none"
            BY Zenon, <1>0 DEF ExchangeOK
        <3>2. ASSUME NEW c \in Conns, driver'[c] = "none" PROVE onWire'[c] = {}
            <4>1. driver[c] = "none" /\ onWire[c] = {}
                BY Zenon, <1>0, <1>2, <3>2 DEF Keeps, Unused
            <4>2. c # conn[e]
                BY Zenon, <3>1, <4>1, UpstreamAssumption
            <4> QED BY Zenon, <1>2, <4>1, <4>2 DEF Keeps
        <3> QED BY Zenon, <3>2 DEF Unused
    <2> QED BY Zenon, <2>1, <2>2, <2>3 DEF Connections
<1>3. CASE Drops(e)
    <2>1. /\ conn'[e] = None /\ conn[e] \in Conns /\ idle' = idle
          /\ \A c \in Conns \ {conn[e]} : driver'[c] = driver[c] /\ onWire'[c] = onWire[c]
          /\ driver'[conn[e]] = "none" /\ onWire'[conn[e]] = {}
        BY SMTT(60), <1>0, <1>3 DEF Drops, TypeOK
    <2>2. Alone'
        BY <1>0, <2>1 DEF Alone
    <2>3. Owned'
        BY SMTT(60), <1>0, <2>1 DEF Owned, InPool
    <2>4. PoolOK'
        <3>1. \A i \in DOMAIN idle, f \in Exchanges : conn'[f] # idle[i]
            BY SMTT(60), <1>0, <1>1, <2>1, UpstreamAssumption DEF PoolOK
        <3>2. \A i \in DOMAIN idle : driver'[idle[i]] # "none" /\ onWire'[idle[i]] = {}
            BY Zenon, <1>0, <1>1, <2>1 DEF PoolOK
        <3> QED BY <1>0, <2>1, <3>1, <3>2 DEF PoolOK
    <2>5. Unused'
        BY Zenon, <1>0, <2>1 DEF Unused
    <2> QED BY <2>2, <2>3, <2>4, <2>5 DEF Connections
<1>4. CASE Dials(e)
    <2>1. PICK c \in Conns : /\ driver[c] = "none" /\ driver' = [driver EXCEPT ![c] = "dialing"]
                             /\ conn' = [conn EXCEPT ![e] = c]
        BY Zenon, <1>4 DEF Dials
    <2>2. /\ conn'[e] = c /\ idle' = idle /\ onWire' = onWire /\ conn[e] = None
          /\ driver'[c] = "dialing" /\ \A d \in Conns \ {c} : driver'[d] = driver[d]
        BY SMTT(60), <1>0, <1>4, <2>1 DEF Dials, TypeOK
    <2>3. /\ \A i \in DOMAIN idle : idle[i] # c
          /\ \A f \in Exchanges : conn[f] # c
        <3>1. \A i \in DOMAIN idle : idle[i] # c
            BY Zenon, <1>0, <2>1 DEF PoolOK
        <3>2. c # None /\ \A f \in Exchanges : conn[f] # None => driver[conn[f]] # "none"
            BY Zenon, UpstreamAssumption DEF IInv, ExchangesOK, ExchangeOK
        <3>3. \A f \in Exchanges : conn[f] # c
            BY <2>1, <3>2
        <3> QED BY Zenon, <3>1, <3>3
    <2>4. Alone'
        BY SMTT(60), <1>0, <2>2, <2>3 DEF Alone
    <2>5. Owned'
        <3>1. \A d \in Conns \ {c}, f \in Exchanges : conn[f] = d => conn'[f] = d
            BY Zenon, <1>0, <2>2, UpstreamAssumption
        <3> QED BY Zenon, <1>0, <2>2, <3>1 DEF Owned, InPool
    <2>6. PoolOK'
        <3>1. \A i \in DOMAIN idle, f \in Exchanges : conn'[f] # idle[i]
            BY SMTT(60), <1>0, <2>2, <2>3 DEF PoolOK
        <3>2. \A i \in DOMAIN idle : driver'[idle[i]] # "none" /\ onWire'[idle[i]] = {}
            BY Zenon, <1>0, <1>1, <2>2, <2>3 DEF PoolOK
        <3> QED BY Zenon, <1>0, <2>2, <3>1, <3>2 DEF PoolOK
    <2>7. Unused'
        BY Zenon, <1>0, <2>2 DEF Unused
    <2> QED BY Zenon, <2>4, <2>5, <2>6, <2>7 DEF Connections
<1>5. CASE Takes(e)
    <2>1. /\ Head(idle) = idle[1] /\ 1 \in DOMAIN idle /\ Len(idle') < Len(idle)
          /\ \A i \in DOMAIN idle' : i + 1 \in DOMAIN idle /\ idle'[i] = idle[i + 1]
          /\ \A i \in DOMAIN idle \ {1} : i - 1 \in DOMAIN idle' /\ idle'[i - 1] = idle[i]
          /\ DOMAIN idle \subseteq Nat
        BY <1>0, <1>5, PoolAfterTake DEF Takes
    <2>2. conn'[e] = idle[1] /\ conn[e] = None /\ driver' = driver /\ onWire' = onWire
        BY SMTT(60), <1>0, <1>5, <2>1 DEF Takes, TypeOK
    <2>3. Alone'
        BY SMTT(60), <1>0, <2>1, <2>2 DEF Alone, PoolOK
    <2>4. Owned'
        <3>1. \A d \in Conns, f \in Exchanges : conn[f] = d => conn'[f] = d
            BY Zenon, <1>0, <2>2, UpstreamAssumption
        <3>2. \A d \in Conns : InPool(d) => InPool(d)' \/ conn'[e] = d
            BY <2>1, <2>2 DEF InPool
        <3> QED BY <1>0, <2>2, <3>1, <3>2 DEF Owned
    <2>5. PoolOK'
        <3>1. \A i \in DOMAIN idle' : i + 1 # 1
            <4>1. DOMAIN idle' \subseteq Nat /\ \A i \in DOMAIN idle' : i >= 1
                BY SMTT(60), <1>0 DEF TypeOK
            <4> QED BY <4>1
        <3>2. \A i \in DOMAIN idle' : idle'[i] # idle[1]
            BY SMTT(60), <1>0, <2>1, <3>1 DEF PoolOK
        <3>3. \A i \in DOMAIN idle', f \in Exchanges : conn'[f] # idle'[i]
            BY <1>0, <2>1, <2>2, <3>2 DEF PoolOK
        <3>4. \A i, j \in DOMAIN idle' : idle'[i] = idle'[j] => i = j
            <4>1. DOMAIN idle' \subseteq Nat
                BY <1>0 DEF TypeOK
            <4>2. \A i, j \in DOMAIN idle' : idle'[i] = idle'[j] => i + 1 = j + 1
                BY <1>0, <2>1 DEF PoolOK
            <4> QED BY <4>1, <4>2
        <3>5. \A i \in DOMAIN idle' : driver'[idle'[i]] # "none" /\ onWire'[idle'[i]] = {}
            BY <1>0, <2>1, <2>2 DEF PoolOK
        <3>6. Len(idle') <= PoolCapacity
            <4>1. Len(idle) \in Nat /\ Len(idle') \in Nat
                BY <1>0 DEF TypeOK
            <4> QED BY <1>0, <2>1, <4>1, UpstreamAssumption DEF PoolOK
        <3> QED BY Zenon, <3>3, <3>4, <3>5, <3>6 DEF PoolOK
    <2>6. Unused'
        BY <1>0, <2>2 DEF Unused
    <2> QED BY <2>3, <2>4, <2>5, <2>6 DEF Connections
<1>6. CASE Parks(e)
    <2> DEFINE c == conn[e]
               n == Len(idle) + 1
    <2>1. /\ DOMAIN idle' = DOMAIN idle \cup {n} /\ n \notin DOMAIN idle
          /\ Len(idle') = n /\ Len(idle) \in Nat
          /\ \A i \in DOMAIN idle : idle'[i] = idle[i]
          /\ idle'[n] = c
        BY Zenon, <1>0, <1>6, PoolAfterPark DEF Parks
    <2>2. /\ c \in Conns /\ c # None /\ conn'[e] = None /\ driver' = driver /\ onWire' = onWire
          /\ onWire[c] = {} /\ driver[c] # "none" /\ n <= PoolCapacity
        <3>1. /\ c \in Conns /\ driver' = driver /\ onWire' = onWire /\ onWire[c] = {}
              /\ conn' = [conn EXCEPT ![e] = None] /\ Len(idle) < PoolCapacity
            BY Zenon, <1>6 DEF Parks
        <3>2. c # None /\ driver[c] # "none"
            BY Zenon, <1>0, <3>1, UpstreamAssumption DEF ExchangeOK
        <3>3. conn'[e] = None
            <4>1. conn \in [Exchanges -> Conns \cup {None}] /\ e \in Exchanges
                BY Zenon, <1>0 DEF TypeOK
            <4> QED BY ONLY <3>1, <4>1
        <3>4. n <= PoolCapacity
            BY ONLY <2>1, <3>1, UpstreamAssumption
        <3> QED BY Zenon, <3>1, <3>2, <3>3, <3>4
    <2> HIDE DEF n
    <2>3. Alone'
        BY Zenon, <1>0, <2>2 DEF Alone
    <2>4. Owned'
        <3> SUFFICES ASSUME NEW x \in Conns, driver[x] # "none", ~ \E i \in DOMAIN idle' : idle'[i] = x
                     PROVE  \E f \in Exchanges : conn'[f] = x
            BY Zenon, <2>2 DEF Owned, InPool
        <3>1. x # c /\ ~ \E i \in DOMAIN idle : idle[i] = x
            BY Zenon, <2>1
        <3>2. PICK f \in Exchanges : conn[f] = x
            BY Zenon, <1>0, <3>1 DEF Owned, InPool
        <3>3. f # e
            BY Zenon, <3>1, <3>2
        <3>4. conn'[f] = x
            BY Zenon, <1>0, <1>6, <3>2, <3>3 DEF Parks, TypeOK
        <3> QED BY Zenon, <3>4
    <2>5. PoolOK'
        <3>1. \A i \in DOMAIN idle', f \in Exchanges : conn'[f] # idle'[i]
            BY <1>0, <1>1, <2>1, <2>2, UpstreamAssumption DEF PoolOK, Alone
        <3>2. \A i \in DOMAIN idle' : driver'[idle'[i]] # "none" /\ onWire'[idle'[i]] = {}
            BY Zenon, <1>0, <2>1, <2>2 DEF PoolOK
        <3>3. \A i, j \in DOMAIN idle' : idle'[i] = idle'[j] => i = j
            BY <1>0, <2>1, <2>2 DEF PoolOK
        <3> QED BY Zenon, <2>1, <2>2, <3>1, <3>2, <3>3 DEF PoolOK
    <2>6. Unused'
        BY Zenon, <1>0, <2>2 DEF Unused
    <2> QED BY <2>3, <2>4, <2>5, <2>6 DEF Connections
<1> QED BY Zenon, <1>2, <1>3, <1>4, <1>5, <1>6 DEF Effect, Moves

LEMMA CountedStep ==
    ASSUME IInv, NEW e \in Exchanges, Effect(e)
    PROVE  Counted'
<1>0. /\ Counted /\ Counts(e) /\ \A f \in Exchanges \ {e} : phase'[f] = phase[f]
      /\ active \in Nat /\ resolvers \in Nat
    BY Zenon DEF IInv, Effect, Others, Kept, TypeOK
<1>1. Cardinality(Busy) \in Nat /\ Cardinality(Resolving) \in Nat
    BY Zenon, <1>0, FS_CardinalityType DEF Counted
<1>2. IsFiniteSet(Busy') /\ active' + Cardinality(Busy') = MaxActive
    <2>1. CASE active' = active /\ (phase[e] = "idle" <=> phase'[e] = "idle")
        <3>1. Busy' = Busy
            BY Zenon, <1>0, <2>1 DEF Busy
        <3> QED BY Zenon, <1>0, <2>1, <3>1 DEF Counted
    <2>2. CASE active > 0 /\ active' = active - 1 /\ phase[e] = "idle" /\ phase'[e] # "idle"
        <3>1. Busy' = Busy \cup {e} /\ e \notin Busy
            BY Zenon, <1>0, <2>2 DEF Busy
        <3>2. IsFiniteSet(Busy') /\ Cardinality(Busy') = Cardinality(Busy) + 1
            BY Zenon, <1>0, <3>1, FS_AddElement DEF Counted
        <3> QED BY <1>0, <1>1, <2>2, <3>2 DEF Counted
    <2>3. CASE active' = active + 1 /\ phase[e] # "idle" /\ phase'[e] = "idle"
        <3>1. Busy' = Busy \ {e} /\ e \in Busy
            BY Zenon, <1>0, <2>3 DEF Busy
        <3>2. IsFiniteSet(Busy') /\ Cardinality(Busy') = Cardinality(Busy) - 1
            BY Zenon, <1>0, <3>1, FS_RemoveElement DEF Counted
        <3> QED BY <1>0, <1>1, <2>3, <3>2 DEF Counted
    <2> QED BY Zenon, <1>0, <2>1, <2>2, <2>3 DEF Counts
<1>3. IsFiniteSet(Resolving') /\ resolvers' + Cardinality(Resolving') = MaxResolvers
    <2> DEFINE r == phase[e] \in {"resolve", "cleanup"}
               s == phase'[e] \in {"resolve", "cleanup"}
    <2>1. CASE resolvers' = resolvers /\ r = s
        <3>1. Resolving' = Resolving
            BY Zenon, <1>0, <2>1 DEF Resolving
        <3> QED BY Zenon, <1>0, <2>1, <3>1 DEF Counted
    <2>2. CASE resolvers > 0 /\ resolvers' = resolvers - 1 /\ ~r /\ s
        <3>1. Resolving' = Resolving \cup {e} /\ e \notin Resolving
            BY Zenon, <1>0, <2>2 DEF Resolving
        <3>2. IsFiniteSet(Resolving') /\ Cardinality(Resolving') = Cardinality(Resolving) + 1
            BY Zenon, <1>0, <3>1, FS_AddElement DEF Counted
        <3> QED BY <1>0, <1>1, <2>2, <3>2 DEF Counted
    <2>3. CASE resolvers' = resolvers + 1 /\ r /\ ~s
        <3>1. Resolving' = Resolving \ {e} /\ e \in Resolving
            BY Zenon, <1>0, <2>3 DEF Resolving
        <3>2. IsFiniteSet(Resolving') /\ Cardinality(Resolving') = Cardinality(Resolving) - 1
            BY Zenon, <1>0, <3>1, FS_RemoveElement DEF Counted
        <3> QED BY <1>0, <1>1, <2>3, <3>2 DEF Counted
    <2> QED BY Zenon, <1>0, <2>1, <2>2, <2>3 DEF Counts
<1> QED BY Zenon, <1>2, <1>3 DEF Counted

\* The end of a connection's task changes no owner.
LEMMA DriverStep ==
    ASSUME IInv, NEW c \in Conns, DriverEnds(c)
    PROVE  IInv'
<1>1. /\ UNCHANGED <<active, resolvers, domain, idle, onWire, phase, conn, tries, task, upload,
                     request, response>>
      /\ \A d \in Conns : driver'[d] = "none" <=> driver[d] = "none"
      /\ driver' \in [Conns -> {"none", "dialing", "live", "aborted", "ended"}]
    BY Zenon DEF IInv, TypeOK, DriverEnds, permitVars, poolVars, latchVars
<1>2. TypeOK'
    BY Zenon, <1>1 DEF IInv, TypeOK
<1>3. ExchangesOK'
    <2>1. \A e \in Exchanges : conn[e] # None => conn[e] \in Conns
        BY Zenon DEF IInv, TypeOK
    <2> QED BY Zenon, <1>1, <2>1 DEF IInv, ExchangesOK, ExchangeOK
<1>4. Connections'
    <2>1. \A i \in DOMAIN idle : idle[i] \in Conns
        BY DEF IInv, TypeOK
    <2>2. PoolOK'
        BY ZenonT(60), <1>1, <2>1 DEF IInv, Connections, PoolOK
    <2> QED BY Zenon, <1>1, <2>2 DEF IInv, Connections, Alone, Owned, Unused, InPool
<1>5. Counted'
    BY Zenon, <1>1 DEF IInv, Counted, Busy, Resolving
<1> QED BY Zenon, <1>2, <1>3, <1>4, <1>5 DEF IInv

LEMMA NextIInv ==
    IInv /\ [Next]_vars => IInv'
<1> SUFFICES ASSUME IInv, [Next]_vars PROVE IInv'
    OBVIOUS
<1>1. ASSUME NEW e \in Exchanges, Step(e) PROVE IInv'
    <2>1. Effect(e)
        BY Zenon, <1>1, StepEffect
    <2>2. ExchangesOK'
        BY <2>1, OtherExchange DEF ExchangesOK, Effect
    <2> QED BY Zenon, <2>1, <2>2, OwnersStep, CountedStep DEF IInv, Effect
<1>2. CASE UNCHANGED vars
    BY SMTT(60), <1>2
       DEF vars, IInv, TypeOK, ExchangesOK, ExchangeOK, Connections, Alone, PoolOK, Owned,
                Unused, InPool, Counted, Busy, Resolving
<1> QED BY Zenon, <1>1, <1>2, DriverStep DEF Next

-----------------------------------------------------------------------------
(* What the invariant means for the connections.                           *)

LEMMA OnePlace ==
    ASSUME IInv, NEW c \in Conns, driver[c] # "none"
    PROVE  Cardinality({e \in Busy : conn[e] = c}) + Cardinality({i \in DOMAIN idle : idle[i] = c}) = 1
<1> DEFINE owners == {e \in Busy : conn[e] = c}
           slots == {i \in DOMAIN idle : idle[i] = c}
<1>0. PoolOK /\ Alone /\ c # None
    BY Zenon, UpstreamAssumption DEF IInv, Connections
<1>1. CASE InPool(c)
    <2>1. PICK i \in DOMAIN idle : idle[i] = c
        BY Zenon, <1>1 DEF InPool
    <2>2. slots = {i}
        BY Zenon, <1>0, <2>1 DEF PoolOK
    <2>3. owners = {}
        BY Zenon, <1>0, <2>1 DEF PoolOK, Busy
    <2>4. Cardinality(slots) = 1 /\ Cardinality(owners) = 0
        BY ZenonT(60), <2>2, <2>3, FS_Singleton, FS_EmptySet
    <2> QED BY SMTT(60), <2>4
<1>2. CASE ~InPool(c)
    <2>1. PICK e \in Exchanges : conn[e] = c
        BY Zenon, <1>2 DEF IInv, Connections, Owned
    <2>2. phase[e] # "idle"
        BY Zenon, <1>0, <2>1 DEF IInv, ExchangesOK, ExchangeOK, Owning
    <2>3. owners = {e}
        BY Zenon, <1>0, <2>1, <2>2 DEF Alone, Busy
    <2>4. slots = {}
        BY Zenon, <1>2 DEF InPool
    <2>5. Cardinality(slots) = 0 /\ Cardinality(owners) = 1
        BY Zenon, <2>3, <2>4, FS_Singleton, FS_EmptySet
    <2> QED BY <2>5
<1> QED BY Zenon, <1>1, <1>2

LEMMA SocketsBounded ==
    ASSUME IInv
    PROVE  Cardinality({c \in Conns : Open(c)}) <= MaxActive + PoolCapacity
<1> DEFINE holders == {e \in Exchanges : conn[e] # None}
           held == {c \in Conns : \E e \in Exchanges : conn[e] = c}
           pooled == {c \in Conns : InPool(c)}
           open == {c \in Conns : Open(c)}
           f == [e \in holders |-> conn[e]]
<1>1. /\ conn \in [Exchanges -> Conns \cup {None}] /\ idle \in Seq(Conns) /\ active \in Nat
      /\ Counted /\ Len(idle) <= PoolCapacity
    BY Zenon DEF IInv, TypeOK, Connections, PoolOK
<1>2. IsFiniteSet(held) /\ Cardinality(held) <= MaxActive
    <2>1. holders \subseteq Busy
        BY Zenon DEF IInv, ExchangesOK, ExchangeOK, Busy, Owning
    <2>2. IsFiniteSet(holders) /\ Cardinality(holders) <= Cardinality(Busy)
        BY Zenon, <1>1, <2>1, FS_Subset DEF Counted
    <2>3. f \in Surjection(holders, held)
        BY Zenon, <1>1, UpstreamAssumption DEF Surjection
    <2>4. IsFiniteSet(held) /\ Cardinality(held) <= Cardinality(holders)
        BY Zenon, <2>2, <2>3, FS_Surjection
    <2>5. Cardinality(held) \in Nat /\ Cardinality(holders) \in Nat /\ Cardinality(Busy) \in Nat
        BY Zenon, <1>1, <2>2, <2>4, FS_CardinalityType DEF Counted
    <2> HIDE DEF held, holders
    <2> QED BY <1>1, <2>2, <2>4, <2>5, UpstreamAssumption DEF Counted
<1>3. IsFiniteSet(pooled) /\ Cardinality(pooled) <= PoolCapacity
    <2>1. Len(idle) \in Nat /\ idle \in [1 .. Len(idle) -> Conns] /\ DOMAIN idle = 1 .. Len(idle)
        BY <1>1
    <2>2. idle \in Surjection(1 .. Len(idle), pooled)
        BY Zenon, <2>1 DEF Surjection, InPool
    <2>3. IsFiniteSet(1 .. Len(idle)) /\ Cardinality(1 .. Len(idle)) = Len(idle)
        BY SMTT(60), <2>1, FS_Interval
    <2>4. IsFiniteSet(pooled) /\ Cardinality(pooled) <= Len(idle)
        BY <2>2, <2>3, FS_Surjection
    <2>5. Cardinality(pooled) \in Nat
        BY Zenon, <2>4, FS_CardinalityType
    <2> HIDE DEF pooled
    <2> QED BY <1>1, <2>1, <2>4, <2>5, UpstreamAssumption
<1>4. open \subseteq held \cup pooled
    BY Zenon DEF Open, IInv, Connections, Owned
<1> HIDE DEF held, pooled, open
<1>5. /\ IsFiniteSet(held \cup pooled)
      /\ Cardinality(held \cup pooled)
            = Cardinality(held) + Cardinality(pooled) - Cardinality(held \cap pooled)
      /\ IsFiniteSet(held \cap pooled)
    BY Zenon, <1>2, <1>3, FS_Union, FS_Intersection
<1>6. Cardinality(open) <= Cardinality(held \cup pooled) /\ IsFiniteSet(open)
    BY Zenon, <1>4, <1>5, FS_Subset
<1>7. /\ Cardinality(held) \in Nat /\ Cardinality(pooled) \in Nat /\ Cardinality(open) \in Nat
      /\ Cardinality(held \cap pooled) \in Nat /\ Cardinality(held \cup pooled) \in Nat
    BY <1>2, <1>3, <1>5, <1>6, FS_CardinalityType
<1>8. Cardinality(open) <= MaxActive + PoolCapacity
    BY <1>2, <1>3, <1>5, <1>6, <1>7, UpstreamAssumption
<1> QED BY Zenon, <1>8 DEF open

LEMMA IInvProperties ==
    IInv => OneOwner /\ CleanReuse
<1> SUFFICES ASSUME IInv PROVE OneOwner /\ CleanReuse
    OBVIOUS
<1>1. {e \in Exchanges : task[e] # "none"} = Resolving
    BY Zenon DEF IInv, ExchangesOK, ExchangeOK, Resolving
<1>2. PermitsAddUp
    BY Zenon, <1>1 DEF IInv, Counted, PermitsAddUp, Resolving
<1>3. \A e \in Exchanges : conn[e] # None => driver[conn[e]] # "none"
    BY Zenon DEF IInv, ExchangesOK, ExchangeOK
<1>4. Len(idle) <= PoolCapacity
    BY Zenon DEF IInv, Connections, PoolOK
<1>5. OneOwner
    BY Zenon, <1>2, <1>3, <1>4, OnePlace, SocketsBounded DEF OneOwner
<1>6. CleanReuse
    BY Zenon DEF IInv, Connections, PoolOK, ExchangesOK, ExchangeOK, Quiet, CleanReuse
<1> QED BY Zenon, <1>5, <1>6

\* Whoever gives up at whatever moment, every permit is free or held once, every connection
\* that has a task is in one slot of the pool or belongs to one exchange, and the sockets
\* never exceed permits plus slots (select_exchange, connect, ExchangeLatch, park_or_retire,
\* schedule_retirement and schedule_resolver_cleanup of proxy.rs).
THEOREM EverySocketOwned ==
    Spec => []OneOwner
BY InitIInv, NextIInv, IInvProperties, PTL DEF Spec

\* A connection goes back to the pool, and to the next exchange, only when nothing of the
\* last request or response is left on it (ExchangeLatch::complete, park_or_retire).
THEOREM ReuseIsClean ==
    Spec => []CleanReuse
BY InitIInv, NextIInv, IInvProperties, PTL DEF Spec

-----------------------------------------------------------------------------
(* Exchange.  The two halves end in any order, and whoever is last gives   *)
(* the lease back.                                                         *)

\* How far the answer is decides which streams are open and whether the response half is
\* over; only the very last step gives back the client's lease.
ExchangeInv ==
    /\ terminal \in BOOLEAN \cup {NULL}
    /\ permit = (req_done = NULL \/ resp_done = NULL)
    /\ req_done # NULL <=> poll = "gone"
    /\ handler \in {"dispatch", "dropped", "head"} => tunnel = "none" /\ resp_done = NULL
    /\ tunnel = "none" => up = "none" /\ down = "none"
    /\ tunnel = "body" => up = "none" /\ down = "none" /\ resp_done = NULL
    /\ tunnel = "rejected" => up \in {"future", "open"} /\ down = "none" /\ resp_done = NULL
    /\ tunnel = "pending" => up \in {"future", "open"} /\ down \in {"future", "open"} /\ resp_done = NULL
    /\ tunnel = "active" => up = "open" /\ down = "open" /\ resp_done = NULL
    /\ tunnel = "upgrade_failed" => up \in {"future", "open"} /\ down \in {"future", "open"}
    /\ tunnel \in {"dropped", "finished"} => up = "closed" /\ down \in {"none", "closed"}
    /\ tunnel = "finished" => resp_done # NULL
    /\ tunnel \in {"none", "body", "rejected", "pending", "active", "upgrade_failed",
                   "dropped", "finished", "over"}
    /\ tunnel = "over" => /\ resp_done # NULL
                          /\ up \in {"none", "closed"} /\ down \in {"none", "closed"}
    /\ ~lease => tunnel = "over" /\ up = "closed"

LEMMA ExchangeInvInit == ExchangeInit => ExchangeInv
BY Zenon, ExchangeAssumption DEF ExchangeInit, ExchangeInv

LEMMA ExchangeUpload ==
    ASSUME ExchangeInv, UNCHANGED <<handler, tunnel, ioVars, exchangeLatchVars>>,
           terminal' \in BOOLEAN \cup {NULL}, poll' = "gone" <=> poll = "gone"
    PROVE  ExchangeInv'
BY DEF ExchangeInv, ioVars, exchangeLatchVars

LEMMA ExchangeBody ==
    ASSUME ExchangeInv,
           \/ PollStarts \/ register \/ Recheck \/ FrameSent \/ ClientSends \/ CancelStep
    PROVE  ExchangeInv'
<1>1. UNCHANGED <<handler, tunnel, ioVars, exchangeLatchVars>>
  BY Zenon DEF PollStarts, register, Recheck, FrameSent, ClientSends, CancelStep
<1>2. terminal' \in BOOLEAN \cup {NULL}
  BY Zenon DEF PollStarts, register, Recheck, FrameSent, ClientSends, CancelStep, observe_terminal,
               bodyVars, ExchangeInv
<1>3. poll' = "gone" <=> poll = "gone"
  BY DEF PollStarts, register, Recheck, FrameSent, ClientSends, CancelStep, observe_terminal, bodyVars
<1> QED BY <1>1, <1>2, <1>3, ExchangeUpload

LEMMA ExchangeDrop ==
    ASSUME ExchangeInv, RequestBodyDropped
    PROVE  ExchangeInv'
BY Zenon, ExchangeAssumption DEF RequestBodyDropped, request_done, latch_complete, ExchangeInv, ioVars

LEMMA ExchangeForward ==
    ASSUME ExchangeInv,
           ForwardFails \/ ForwardDropped \/ HalfGuardDropped \/ HeadArrives \/ ResponseTaken
    PROVE  ExchangeInv'
<1> USE ExchangeAssumption DEF ExchangeInv, uploadVars, bodyVars, ioVars, exchangeLatchVars
<1>1. CASE ForwardFails
  BY Zenon, <1>1 DEF ForwardFails, latch_response_done, latch_complete
<1>2. CASE ForwardDropped
  BY <1>2 DEF ForwardDropped
<1>3. CASE HalfGuardDropped
  BY Zenon, <1>3 DEF HalfGuardDropped, latch_response_done, latch_complete
<1>4. CASE HeadArrives
  BY <1>4 DEF HeadArrives
<1>5. CASE ResponseTaken
  BY Zenon, <1>5 DEF ResponseTaken, latch_response_done, latch_complete
<1> QED BY Zenon, <1>1, <1>2, <1>3, <1>4, <1>5

LEMMA ExchangeAnswer ==
    ASSUME ExchangeInv,
           \/ BodyEnds \/ Upgraded \/ Bridged \/ drop_streams \/ finish_exchange \/ drop_leases
    PROVE  ExchangeInv'
<1> USE ExchangeAssumption DEF ExchangeInv, uploadVars, bodyVars, ioVars, exchangeLatchVars
<1>1. CASE BodyEnds
  BY Zenon, <1>1 DEF BodyEnds, latch_response_done, latch_complete
<1>2. CASE Upgraded
  BY <1>2 DEF Upgraded
<1>3. CASE Bridged
  BY Zenon, <1>3 DEF Bridged, latch_response_done, latch_complete
<1>4. CASE drop_streams
  BY <1>4 DEF drop_streams
<1>5. CASE finish_exchange
  BY Zenon, <1>5 DEF finish_exchange, latch_response_done, latch_complete
<1>6. CASE drop_leases
  BY <1>6 DEF drop_leases
<1> QED BY Zenon, <1>1, <1>2, <1>3, <1>4, <1>5, <1>6

LEMMA ExchangeInvNext == ExchangeInv /\ [ExchangeNext]_exchangeVars => ExchangeInv'
<1> SUFFICES ASSUME ExchangeInv, [ExchangeNext]_exchangeVars PROVE ExchangeInv'
  OBVIOUS
<1>1. CASE UNCHANGED exchangeVars
  BY <1>1, ExchangeUpload DEF exchangeVars, ioVars, exchangeLatchVars, ExchangeInv
<1> QED BY <1>1, ExchangeBody, ExchangeDrop, ExchangeForward, ExchangeAnswer DEF ExchangeNext, Done

\* Whichever of the three tasks ends first, the permit and the client's lease go back only
\* when what they stand for is closed (ExchangeLatch, ActiveBridgeGuard, PendingBridgeGuard,
\* RejectedH2UpgradeCleanup).
THEOREM IoEndsFirst == ExchangeSpec => []IoBeforePermits
<1>1. ExchangeInv => IoBeforePermits
  BY Zenon DEF ExchangeInv, IoBeforePermits
<1> QED BY <1>1, ExchangeInvInit, ExchangeInvNext, PTL DEF ExchangeSpec
=============================================================================
