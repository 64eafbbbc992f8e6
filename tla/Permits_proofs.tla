---------------------------- MODULE Permits_proofs ----------------------------
(***************************************************************************)
(* Permits that are counted: those of HTTP/2 exchanges, streams and        *)
(* sockets (H2Generation) and the admission and work permits of the        *)
(* blocking executor (AuthExecutor), for any number of exchanges,          *)
(* generations and callers and any limits.                                 *)
(*                                                                         *)
(* Each semaphore is an equation between the permits that are free and the *)
(* set of those who hold one.  That set is finite, since permits are, even *)
(* if there are infinitely many callers.  For HTTP/2 the invariant of      *)
(* H2Generation_proofs says who is in the set.  For the executor it is     *)
(* strengthened by the queue of the semaphore: whoever waits in it is      *)
(* there once and is queued, and a flight is led by an operation that runs. *)
(***************************************************************************)
EXTENDS H2Generation_proofs, AuthExecutor, FiniteSetTheorems

\* The sets are finite however many exchanges there may be.
Counted(set, permits, all) == IsFiniteSet(set) /\ permits + Cardinality(set) = all

LEMMA CountAdd ==
    ASSUME NEW set, NEW x, x \notin set, NEW p \in Nat, NEW q \in Nat, NEW all, p = q + 1,
           Counted(set, p, all)
    PROVE  Counted(set \cup {x}, q, all)
<1>1. Cardinality(set) \in Nat
  BY Zenon, FS_CardinalityType DEF Counted
<1> QED BY <1>1, FS_AddElement DEF Counted

LEMMA CountRemove ==
    ASSUME NEW set, NEW x \in set, NEW p \in Nat, NEW all, Counted(set, p, all)
    PROVE  Counted(set \ {x}, p + 1, all)
<1>1. Cardinality(set) \in Nat
  BY Zenon, FS_CardinalityType DEF Counted
<1>2. IsFiniteSet(set \ {x}) /\ Cardinality(set \ {x}) = Cardinality(set) - 1
  BY Zenon, FS_RemoveElement DEF Counted
<1>3. p + Cardinality(set) = all
  BY Zenon DEF Counted
<1>4. p + 1 + (Cardinality(set) - 1) = all
  BY <1>1, <1>3
<1> QED BY Zenon, <1>2, <1>4 DEF Counted

LEMMA CountNone ==
    ASSUME NEW all \in Nat
    PROVE  Counted({}, all, all)
BY FS_EmptySet DEF Counted
-----------------------------------------------------------------------------
(* HTTP/2 exchanges: the active permits and the permits of the streams.    *)

Busy       == {x \in Exchanges : phase[x] # "idle"}
Holding(g) == {x \in Exchanges : gen[x] = g /\ phase[x] \in Reserved}
StreamsOK(g) == driver[g] # "none" => Counted(Holding(g), streams[g], limit[g])

H2Permits ==
    /\ Counted(Busy, active, MaxActive)
    /\ \A g \in Gens : StreamsOK(g)

\* Exchange x may take or return the active permit; the others do neither.
LEMMA BusyStep ==
    ASSUME H2Inv, H2Permits, NEW x \in Exchanges, active' \in Nat,
           \A z \in Exchanges \ {x} : phase'[z] = phase[z],
           \/ active' = active /\ phase[x] # "idle" /\ phase'[x] # "idle"
           \/ active' = active + 1 /\ phase[x] # "idle" /\ phase'[x] = "idle"
           \/ active = active' + 1 /\ phase[x] = "idle" /\ phase'[x] # "idle"
    PROVE  Counted(Busy, active, MaxActive)'
<1>1. active \in Nat /\ Counted(Busy, active, MaxActive)
  BY Zenon DEF H2Inv, H2Types, H2Permits
<1>2. CASE active' = active /\ phase[x] # "idle" /\ phase'[x] # "idle"
  <2>1. Busy' = Busy
    BY Zenon, <1>2 DEF Busy
  <2> QED BY Zenon, <1>1, <1>2, <2>1
<1>3. CASE active' = active + 1 /\ phase[x] # "idle" /\ phase'[x] = "idle"
  <2>1. x \in Busy /\ Busy' = Busy \ {x}
    BY <1>3 DEF Busy
  <2>2. Counted(Busy \ {x}, active + 1, MaxActive)
    BY Zenon, <1>1, <2>1, CountRemove
  <2> QED BY Zenon, <1>3, <2>1, <2>2
<1>4. CASE active = active' + 1 /\ phase[x] = "idle" /\ phase'[x] # "idle"
  <2>1. x \notin Busy /\ Busy' = Busy \cup {x}
    BY Zenon, <1>4 DEF Busy
  <2> QED BY Zenon, <1>1, <1>4, <2>1, CountAdd
<1> QED BY Zenon, <1>2, <1>3, <1>4

\* The streams of every generation, when x takes one, gives one back or does neither.
LEMMA StreamsKept ==
    ASSUME H2Permits, NEW x \in Exchanges, UNCHANGED <<driver, limit, streams>>,
           \A z \in Exchanges \ {x} : gen'[z] = gen[z] /\ phase'[z] = phase[z],
           \A g \in Gens : (gen'[x] = g /\ phase'[x] \in Reserved) <=> (gen[x] = g /\ phase[x] \in Reserved)
    PROVE  \A g \in Gens : StreamsOK(g)'
<1>1. ASSUME NEW g \in Gens PROVE Holding(g)' = Holding(g)
  BY Zenon DEF Holding
<1> QED BY Zenon, <1>1 DEF H2Permits, StreamsOK

LEMMA StreamTaken ==
    ASSUME H2Inv, H2Permits, NEW x \in Exchanges, NEW h \in Gens, streams[h] > 0,
           streams' = [streams EXCEPT ![h] = @ - 1], UNCHANGED <<driver, limit>>,
           \A z \in Exchanges \ {x} : gen'[z] = gen[z] /\ phase'[z] = phase[z],
           phase[x] \notin Reserved, gen'[x] = h, phase'[x] \in Reserved
    PROVE  \A g \in Gens : StreamsOK(g)'
<1>1. /\ streams'[h] = streams[h] - 1 /\ streams[h] \in Nat /\ streams'[h] \in Nat
      /\ streams[h] = streams'[h] + 1 /\ \A g \in Gens \ {h} : streams'[g] = streams[g]
  BY DEF H2Inv, H2Types
<1>2. ASSUME NEW g \in Gens, driver[g] # "none" PROVE Counted(Holding(g)', streams'[g], limit[g])
  <2>1. CASE g = h
    <3>1. x \notin Holding(h) /\ Holding(h)' = Holding(h) \cup {x}
      BY Zenon DEF Holding
    <3>2. Counted(Holding(h), streams[h], limit[h])
      BY Zenon, <1>2, <2>1 DEF H2Permits, StreamsOK
    <3>3. Counted(Holding(h) \cup {x}, streams'[h], limit[h])
      BY Zenon, <1>1, <3>1, <3>2, CountAdd
    <3> QED BY Zenon, <2>1, <3>1, <3>3
  <2>2. CASE g # h
    <3>1. Holding(g)' = Holding(g)
      BY Zenon, <2>2 DEF Holding
    <3> QED BY Zenon, <1>1, <1>2, <2>2, <3>1 DEF H2Permits, StreamsOK
  <2> QED BY Zenon, <2>1, <2>2
<1> QED BY Zenon, <1>2 DEF StreamsOK

LEMMA StreamReturned ==
    ASSUME H2Inv, H2Permits, NEW x \in Exchanges, NEW h \in Gens, gen[x] = h, phase[x] \in Reserved,
           streams' = Returned(h), UNCHANGED <<driver, limit>>,
           \A z \in Exchanges \ {x} : gen'[z] = gen[z] /\ phase'[z] = phase[z],
           phase'[x] \notin Reserved
    PROVE  \A g \in Gens : StreamsOK(g)'
<1>1. /\ streams[h] \in Nat /\ (driver[h] # "none" => streams'[h] = streams[h] + 1)
      /\ \A g \in Gens \ {h} : streams'[g] = streams[g]
  BY DEF H2Inv, H2Types, Returned
<1>2. ASSUME NEW g \in Gens, driver[g] # "none" PROVE Counted(Holding(g)', streams'[g], limit[g])
  <2>1. CASE g = h
    <3>1. x \in Holding(h) /\ Holding(h)' = Holding(h) \ {x}
      BY Zenon DEF Holding
    <3>2. Counted(Holding(h), streams[h], limit[h])
      BY Zenon, <1>2, <2>1 DEF H2Permits, StreamsOK
    <3>3. Counted(Holding(h) \ {x}, streams[h] + 1, limit[h])
      BY Zenon, <1>1, <3>1, <3>2, CountRemove
    <3> QED BY Zenon, <1>1, <1>2, <2>1, <3>1, <3>3
  <2>2. CASE g # h
    <3>1. Holding(g)' = Holding(g)
      BY Zenon, <2>2 DEF Holding
    <3> QED BY Zenon, <1>1, <1>2, <2>2, <3>1 DEF H2Permits, StreamsOK
  <2> QED BY Zenon, <2>1, <2>2
<1> QED BY Zenon, <1>2 DEF StreamsOK

\* A step in which x neither takes nor returns a stream permit.
LEMMA NoStreamStep ==
    ASSUME H2Inv, H2Permits, NEW x \in Exchanges, NEW p, NEW g,
           phase' = [phase EXCEPT ![x] = p], gen' = [gen EXCEPT ![x] = g],
           phase[x] \notin Reserved, p \notin Reserved,
           UNCHANGED <<driver, limit, streams>>, active' \in Nat,
           \/ active' = active /\ phase[x] # "idle" /\ p # "idle"
           \/ active' = active + 1 /\ phase[x] # "idle" /\ p = "idle"
           \/ active = active' + 1 /\ phase[x] = "idle" /\ p # "idle"
    PROVE  H2Permits'
<1>1. phase'[x] = p /\ \A z \in Exchanges \ {x} : gen'[z] = gen[z] /\ phase'[z] = phase[z]
  BY Zenon DEF H2Inv, H2Types
<1>2. Counted(Busy, active, MaxActive)'
  BY Zenon, <1>1, BusyStep
<1>3. \A h \in Gens : StreamsOK(h)'
  BY Zenon, <1>1, StreamsKept
<1> QED BY Zenon, <1>2, <1>3 DEF H2Permits

LEMMA PermitsMaking ==
    ASSUME H2Inv, H2Inv', H2Permits, NEW x \in Exchanges,
           forward(x) \/ connect_h2(x) \/ Handshake(x) \/ GateDropped(x) \/ TransportAwaited(x)
    PROVE  H2Permits'
<1>1. active \in Nat /\ active' \in Nat /\ gen \in [Exchanges -> Gens \cup {None}]
  BY Zenon DEF H2Inv, H2Types
<1>2. gen = [gen EXCEPT ![x] = gen[x]]
  BY Zenon, <1>1
<1>3. CASE forward(x)
  <2>1. /\ phase[x] = "idle" /\ phase' = [phase EXCEPT ![x] = "select"] /\ active' = active - 1
        /\ gen' = [gen EXCEPT ![x] = gen[x]] /\ UNCHANGED <<driver, limit, streams>>
    BY Zenon, <1>2, <1>3 DEF forward, Goto, genVars
  <2>2. active = active' + 1
    BY <1>1, <2>1
  <2>3. phase[x] \notin Reserved /\ "select" \notin Reserved
    BY Zenon, <2>1 DEF Reserved, Dispatched
  <2> QED BY Zenon, <1>1, <2>1, <2>2, <2>3, NoStreamStep
<1>4. CASE connect_h2(x)
  <2>1. PICK new : /\ phase[x] = "select" /\ phase' = [phase EXCEPT ![x] = "handshake"]
                   /\ gen' = [gen EXCEPT ![x] = new] /\ UNCHANGED <<active, driver, limit, streams>>
    BY Zenon, <1>4 DEF connect_h2, Goto
  <2>2. phase[x] \notin Reserved /\ "handshake" \notin Reserved
    BY Zenon, <2>1 DEF Reserved, Dispatched
  <2> QED BY Zenon, <1>1, <2>1, <2>2, NoStreamStep
<1>5. CASE Handshake(x)
  <2>1. /\ phase[x] = "handshake" /\ UNCHANGED <<driver, limit, streams>>
        /\ \/ phase' = [phase EXCEPT ![x] = "gate"] /\ active' = active /\ gen' = [gen EXCEPT ![x] = gen[x]]
           \/ phase' = [phase EXCEPT ![x] = "idle"] /\ active' = active + 1 /\ gen' = [gen EXCEPT ![x] = None]
    BY Zenon, <1>2, <1>5 DEF Handshake, Goto
  <2>2. phase[x] \notin Reserved /\ "gate" \notin Reserved /\ "idle" \notin Reserved
    BY Zenon, <2>1 DEF Reserved, Dispatched
  <2> QED BY Zenon, <1>1, <2>1, <2>2, NoStreamStep
<1>6. CASE GateDropped(x)
  <2>1. /\ phase[x] = "gate" /\ phase' = [phase EXCEPT ![x] = "await_drop"]
        /\ gen' = [gen EXCEPT ![x] = gen[x]] /\ UNCHANGED <<active, driver, limit, streams>>
    BY Zenon, <1>2, <1>6 DEF GateDropped, Goto
  <2>2. phase[x] \notin Reserved /\ "await_drop" \notin Reserved
    BY Zenon, <2>1 DEF Reserved, Dispatched
  <2> QED BY Zenon, <1>1, <2>1, <2>2, NoStreamStep
<1>7. CASE TransportAwaited(x)
  <2>1. /\ phase[x] = "await_drop" /\ phase' = [phase EXCEPT ![x] = "idle"] /\ active' = active + 1
        /\ gen' = [gen EXCEPT ![x] = None] /\ UNCHANGED <<driver, limit, streams>>
    BY Zenon, <1>7 DEF TransportAwaited, Goto
  <2>2. phase[x] \notin Reserved /\ "idle" \notin Reserved
    BY Zenon, <2>1 DEF Reserved, Dispatched
  <2> QED BY Zenon, <1>1, <2>1, <2>2, NoStreamStep
<1> QED BY Zenon, <1>3, <1>4, <1>5, <1>6, <1>7

LEMMA PermitsTryReserve ==
    ASSUME H2Inv, H2Permits, NEW x \in Exchanges, try_reserve(x)
    PROVE  H2Permits'
<1>1. PICK first \in DOMAIN candidates[x] :
        LET g == candidates[x][first]
        IN  /\ phase[x] = "select"
            /\ \/ /\ streams[g] > 0 /\ streams' = [streams EXCEPT ![g] = @ - 1]
                  /\ gen' = [gen EXCEPT ![x] = g] /\ phase' = [phase EXCEPT ![x] = "reserve"]
               \/ UNCHANGED <<phase, gen, streams>>
            /\ UNCHANGED <<active, limit, driver>>
  BY Zenon DEF try_reserve, Goto
<1>2. candidates[x][first] \in Gens
  BY Zenon, CandidateElements DEF H2Inv, H2Types
<1>3. PICK g \in Gens :
        /\ phase[x] = "select"
        /\ \/ /\ streams[g] > 0 /\ streams' = [streams EXCEPT ![g] = @ - 1]
              /\ gen' = [gen EXCEPT ![x] = g] /\ phase' = [phase EXCEPT ![x] = "reserve"]
           \/ UNCHANGED <<phase, gen, streams>>
        /\ UNCHANGED <<active, limit, driver>>
  BY Zenon, <1>1, <1>2
<1>4. CASE UNCHANGED <<phase, gen, streams>>
  <2>1. Busy' = Busy /\ \A h \in Gens : Holding(h)' = Holding(h)
    BY Zenon, <1>4 DEF Busy, Holding
  <2> QED BY Zenon, <1>3, <1>4, <2>1 DEF H2Permits, StreamsOK
<1>5. CASE /\ streams[g] > 0 /\ streams' = [streams EXCEPT ![g] = @ - 1]
           /\ gen' = [gen EXCEPT ![x] = g] /\ phase' = [phase EXCEPT ![x] = "reserve"]
  <2>1. /\ phase'[x] = "reserve" /\ gen'[x] = g
        /\ \A z \in Exchanges \ {x} : gen'[z] = gen[z] /\ phase'[z] = phase[z]
    BY Zenon, <1>5 DEF H2Inv, H2Types
  <2>2. phase[x] \notin Reserved /\ "reserve" \in Reserved
    BY Zenon, <1>3 DEF Reserved, Dispatched
  <2>3. active' \in Nat
    BY Zenon, <1>3 DEF H2Inv, H2Types
  <2>4. Counted(Busy, active, MaxActive)'
    BY Zenon, <1>3, <2>1, <2>3, BusyStep
  <2>5. \A h \in Gens : StreamsOK(h)'
    BY Zenon, <1>3, <1>5, <2>1, <2>2, StreamTaken
  <2> QED BY Zenon, <2>4, <2>5 DEF H2Permits
<1> QED BY Zenon, <1>3, <1>4, <1>5

LEMMA PermitsReserved ==
    ASSUME H2Inv, H2Inv', H2Permits, NEW x \in Exchanges, CloneMaster(x) \/ dispatch(x) \/ Finish(x)
    PROVE  H2Permits'
<1>1. phase[x] \in Reserved /\ phase[x] # "idle" /\ UNCHANGED <<driver, limit>>
  BY Zenon DEF CloneMaster, dispatch, Finish, Reserved, Dispatched, genVars
<1>2. gen[x] \in Gens /\ active \in Nat /\ active' \in Nat
  BY Zenon, <1>1, ReservedGeneration DEF H2Inv, H2Types
<1>3. \E p \in Phases :
        /\ phase' = [phase EXCEPT ![x] = p]
        /\ \/ p \in Reserved /\ p # "idle" /\ UNCHANGED <<active, streams, gen>>
           \/ /\ p \notin Reserved /\ streams' = Returned(gen[x])
              /\ gen' = [gen EXCEPT ![x] = None] \/ UNCHANGED gen
              /\ \/ p # "idle" /\ active' = active
                 \/ p = "idle" /\ active' = active + 1
  <2>1. CASE CloneMaster(x)
    BY Zenon, <2>1 DEF CloneMaster, Goto, Reserved, Dispatched, Phases
  <2>2. CASE dispatch(x)
    BY Zenon, <2>2 DEF dispatch, Goto, Reserved, Dispatched, Phases, genVars
  <2>3. CASE Finish(x)
    BY Zenon, <2>3 DEF Finish, finish_exchange_resource, Goto, Reserved, Dispatched, Phases
  <2> QED BY Zenon, <2>1, <2>2, <2>3
<1>4. PICK p \in Phases :
        /\ phase' = [phase EXCEPT ![x] = p]
        /\ \/ p \in Reserved /\ p # "idle" /\ UNCHANGED <<active, streams, gen>>
           \/ /\ p \notin Reserved /\ streams' = Returned(gen[x])
              /\ gen' = [gen EXCEPT ![x] = None] \/ UNCHANGED gen
              /\ \/ p # "idle" /\ active' = active
                 \/ p = "idle" /\ active' = active + 1
  BY Zenon, <1>3
<1>5. phase'[x] = p /\ \A z \in Exchanges \ {x} : gen'[z] = gen[z] /\ phase'[z] = phase[z]
  BY Zenon, <1>4 DEF H2Inv, H2Types
<1>6. Counted(Busy, active, MaxActive)'
  BY Zenon, <1>1, <1>2, <1>4, <1>5, BusyStep
<1>7. CASE p \in Reserved /\ UNCHANGED <<active, streams, gen>>
  <2>1. \A h \in Gens : StreamsOK(h)'
    BY Zenon, <1>1, <1>5, <1>7, StreamsKept
  <2> QED BY Zenon, <1>6, <2>1 DEF H2Permits
<1>8. CASE p \notin Reserved /\ streams' = Returned(gen[x])
  <2>1. \A h \in Gens : StreamsOK(h)'
    BY Zenon, <1>1, <1>2, <1>5, <1>8, StreamReturned
  <2> QED BY Zenon, <1>6, <2>1 DEF H2Permits
<1> QED BY Zenon, <1>4, <1>7, <1>8

\* The creator has the first stream of its generation, whose semaphore is new.
LEMMA PermitsProved ==
    ASSUME H2Inv, H2Inv', H2Permits, NEW x \in Exchanges, Proved(x)
    PROVE  H2Permits'
<1>1. /\ phase[x] = "gate" /\ phase[x] \in Making /\ phase[x] # "idle"
      /\ phase' = [phase EXCEPT ![x] = "selected"] /\ UNCHANGED <<active, gen>>
  BY Zenon DEF Proved, Goto, Making
<1>2. PICK h \in Gens : gen[x] = h /\ driver[h] = "none" /\ \A z \in Exchanges : z # x => gen[z] # h
  BY Zenon, <1>1, MadeGeneration
<1>3. PICK n \in StreamLimits : /\ n > 0 /\ limit' = [limit EXCEPT ![h] = n]
                                /\ streams' = [streams EXCEPT ![h] = n - 1]
                                /\ driver' = [driver EXCEPT ![h] = "running"]
  BY Zenon, <1>2 DEF Proved
<1>4. n \in Nat /\ n - 1 \in Nat /\ n = (n - 1) + 1
  BY <1>3, H2GenerationAssumption
<1>5. /\ phase'[x] = "selected" /\ limit'[h] = n /\ streams'[h] = n - 1
      /\ \A z \in Exchanges \ {x} : phase'[z] = phase[z]
      /\ \A g \in Gens \ {h} : limit'[g] = limit[g] /\ streams'[g] = streams[g] /\ driver'[g] = driver[g]
  BY Zenon, <1>1, <1>3, <1>4 DEF H2Inv, H2Types
<1>6. Counted(Busy, active, MaxActive)'
  <2>1. active' \in Nat
    BY Zenon DEF H2Inv, H2Types
  <2> QED BY Zenon, <1>1, <1>5, <2>1, BusyStep
<1>7. ASSUME NEW g \in Gens PROVE StreamsOK(g)'
  <2>1. "selected" \in Reserved /\ "gate" \notin Reserved
    BY Zenon DEF Reserved, Dispatched
  <2>2. CASE g = h
    <3>1. Holding(h)' = {} \cup {x}
      BY Zenon, <1>1, <1>2, <1>5, <2>1 DEF Holding
    <3>2. Counted({} \cup {x}, n - 1, n)
      BY Zenon, <1>4, CountNone, CountAdd
    <3> QED BY Zenon, <1>5, <2>2, <3>1, <3>2 DEF StreamsOK
  <2>3. CASE g # h
    <3>1. Holding(g)' = Holding(g)
      BY Zenon, <1>1, <1>2, <1>5, <2>1, <2>3 DEF Holding
    <3> QED BY Zenon, <1>5, <2>3, <3>1 DEF H2Permits, StreamsOK
  <2> QED BY Zenon, <2>2, <2>3
<1> QED BY Zenon, <1>6, <1>7 DEF H2Permits

\* The peer, the drivers and the pool: a semaphore goes away with its generation.
LEMMA PermitsDriver ==
    ASSUME H2Inv, H2Permits,
           \/ \E g \in Gens : observe_inbound(g) \/ Driver(g)
           \/ ParkH1 \/ TakeH1 \/ UNCHANGED vars
    PROVE  H2Permits'
<1>1. UNCHANGED <<active, phase, gen>>
  BY Zenon DEF observe_inbound, Driver, DriverEnds, DriverRetires, TransportDropped, DriverCloses,
               ParkH1, TakeH1, vars, exchangeVars
<1>2. ASSUME NEW g \in Gens, driver'[g] # "none"
      PROVE  driver[g] # "none" /\ streams'[g] = streams[g] /\ limit'[g] = limit[g]
  <2>1. CASE UNCHANGED <<driver, streams, limit>>
    BY Zenon, <1>2, <2>1
  <2>2. ASSUME NEW h \in Gens, DriverEnds(h) \/ DriverRetires(h)
        PROVE  driver[g] # "none" /\ streams'[g] = streams[g] /\ limit'[g] = limit[g]
    <3>1. driver[h] \in {"running", "ended"} /\ (\A k \in Gens \ {h} : driver'[k] = driver[k])
          /\ UNCHANGED <<streams, limit>>
      BY Zenon, <2>2 DEF DriverEnds, DriverRetires, H2Inv, H2Types
    <3> QED BY Zenon, <1>2, <3>1
  <2>3. ASSUME NEW h \in Gens, DriverCloses(h)
        PROVE  driver[g] # "none" /\ streams'[g] = streams[g] /\ limit'[g] = limit[g]
    <3>1. /\ driver'[h] = "none"
          /\ \A k \in Gens \ {h} : driver'[k] = driver[k] /\ streams'[k] = streams[k] /\ limit'[k] = limit[k]
      BY Zenon, <2>3 DEF DriverCloses, H2Inv, H2Types
    <3> QED BY Zenon, <1>2, <3>1
  <2>4. ASSUME NEW h \in Gens, observe_inbound(h) \/ TransportDropped(h) PROVE UNCHANGED <<driver, streams, limit>>
    BY Zenon, <2>4 DEF observe_inbound, TransportDropped
  <2>5. ASSUME ParkH1 \/ TakeH1 \/ UNCHANGED vars PROVE UNCHANGED <<driver, streams, limit>>
    BY Zenon, <2>5 DEF ParkH1, TakeH1, vars, genVars
  <2> QED BY Zenon, <2>1, <2>2, <2>3, <2>4, <2>5 DEF Driver
<1>3. Busy' = Busy /\ \A g \in Gens : Holding(g)' = Holding(g)
  BY Zenon, <1>1 DEF Busy, Holding
<1> QED BY Zenon, <1>1, <1>2, <1>3 DEF H2Permits, StreamsOK

LEMMA H2PermitsInit == Init => H2Permits
<1> SUFFICES ASSUME Init PROVE H2Permits
  BY Zenon
<1>1. Busy = {} /\ active = MaxActive /\ MaxActive \in Nat
  BY Zenon, H2GenerationAssumption DEF Init, Busy
<1>2. \A g \in Gens : StreamsOK(g)
  BY Zenon DEF Init, StreamsOK
<1> QED BY Zenon, <1>1, <1>2, CountNone DEF H2Permits

LEMMA H2PermitsInvariant == Spec => []H2Permits
<1>1. H2Inv /\ H2Inv' /\ H2Permits /\ [Next]_vars => H2Permits'
  <2> SUFFICES ASSUME H2Inv, H2Inv', H2Permits, [Next]_vars PROVE H2Permits'
    BY Zenon
  <2> QED BY Zenon, PermitsMaking, PermitsTryReserve, PermitsReserved, PermitsProved, PermitsDriver DEF Next
<1> QED BY <1>1, H2PermitsInit, H2Invariant, PTL DEF Spec

\* Neither a permit nor a slot is lost or counted twice, for any number of exchanges and
\* generations and any limits: an active permit per exchange that is under way, a stream
\* permit per exchange that has reserved one, and, as long as an HTTP/2 socket is there,
\* its slot of the pool or the permit of the exchange that it is private to.
THEOREM SocketsArePaidFor == Spec => []SocketsPaidFor
<1>1. H2Inv /\ H2Permits => SocketsPaidFor
  <2> SUFFICES ASSUME H2Inv, H2Permits PROVE SocketsPaidFor
    BY Zenon
  <2>1. TypeOK
    <3>1. SlotSet \subseteq [entry : {"H1", "H2", "RetiringH2"}, gen : Gens \cup {None}]
      BY DEF SlotSet, Slot
    <3>2. pool \in Seq([entry : {"H1", "H2", "RetiringH2"}, gen : Gens \cup {None}])
      BY <3>1, SeqMonotonic DEF H2Inv, H2Types
    <3> QED BY Zenon, <3>2 DEF TypeOK, H2Inv, H2Types, CandidateSet, Drivers, Sockets
  <2>2. StreamPermitsAddUp
    BY Zenon, <2>1 DEF StreamPermitsAddUp, H2Permits, Counted, Busy, StreamsOK, Holding, Reserved
  <2>3. ASSUME NEW g \in Gens, HasSocket(g), published[g] PROVE Cardinality(Slots(g)) = 1
    <3>1. /\ SlotsIn(pool, g) # {} /\ \A i, j \in SlotsIn(pool, g) : i = j
          /\ Slots(g) = SlotsIn(pool, g)
      BY Zenon, <2>3 DEF H2Inv, SlotsOK, OneSlot, Slots, SlotsIn
    <3>2. PICK i \in SlotsIn(pool, g) : SlotsIn(pool, g) = {i}
      BY Zenon, <3>1
    <3> QED BY Zenon, <3>1, <3>2, FS_Singleton
  <2>4. ASSUME NEW g \in Gens, HasSocket(g), ~published[g]
        PROVE  \E x \in Exchanges : gen[x] = g /\ phase[x] # "idle"
    <3>1. PICK x \in Exchanges : Pays(x, g)
      BY Zenon, <2>4 DEF H2Inv, Paid
    <3> QED BY Zenon, <3>1 DEF Pays, Making, Dispatched
  <2> QED BY Zenon, <2>2, <2>3, <2>4 DEF SocketsPaidFor, H2Inv
<1> QED BY <1>1, H2Invariant, H2PermitsInvariant, PTL
-----------------------------------------------------------------------------
(* AuthExecutor: the admission and the work permits.                       *)

Admitted == {t \in Threads : op[t] # "none"}
Workers  == {t \in Threads : op[t] \in {"spawned", "running"}}

\* Whoever waits in the queue of the semaphore waits there once.
Queued(q, o) ==
    /\ \A i \in 1 .. Len(q) : o[q[i]] = "queued"
    /\ \A i, j \in 1 .. Len(q) : q[i] = q[j] => i = j

\* Only an operation that runs asks for a flight or has a part in one, one at a time.
FliesRunning(t) ==
    /\ role[t] # "none" \/ asked[t] # {} => op[t] = "running"
    /\ asked[t] # {} => role[t] = "none"

ExecutorInv ==
    /\ ExecutorTypeOK
    /\ Counted(Admitted, admission, AUTH_BLOCKING_ADMISSION)
    /\ Counted(Workers, work, AUTH_BLOCKING_WORKERS)
    /\ Queued(queue, op)
    /\ resolving <= ResolverLimit
    /\ OneLeader
    /\ \A t \in Threads : FliesRunning(t)

LEMMA QueueJoined ==
    ASSUME NEW q \in Seq(Threads), NEW o \in [Threads -> Ops], NEW t \in Threads,
           Queued(q, o), o[t] # "queued"
    PROVE  Append(q, t) \in Seq(Threads) /\ Queued(Append(q, t), [o EXCEPT ![t] = "queued"])
<1> DEFINE r == Append(q, t)
           p == [o EXCEPT ![t] = "queued"]
<1>1. /\ Len(q) \in Nat /\ r \in Seq(Threads) /\ Len(r) = Len(q) + 1
      /\ \A i \in 1 .. Len(q) : r[i] = q[i] /\ q[i] \in Threads
      /\ r[Len(q) + 1] = t
  BY AppendProperties, LenProperties, ElementOfSeq
<1>2. \A i \in 1 .. Len(q) : q[i] # t
  BY DEF Queued
<1>3. \A u \in Threads : o[u] = "queued" \/ u = t => p[u] = "queued"
  BY Zenon
<1> HIDE DEF r, p
<1>4. ASSUME NEW i \in 1 .. Len(r) PROVE p[r[i]] = "queued"
  <2>1. i \in 1 .. Len(q) \/ i = Len(q) + 1
    BY <1>1
  <2> QED BY Zenon, <1>1, <1>3, <2>1 DEF Queued
<1>5. ASSUME NEW i \in 1 .. Len(r), NEW j \in 1 .. Len(r), r[i] = r[j] PROVE i = j
  <2>1. (i \in 1 .. Len(q) \/ i = Len(q) + 1) /\ (j \in 1 .. Len(q) \/ j = Len(q) + 1)
    BY <1>1
  <2> QED BY Zenon, <1>1, <1>2, <1>5, <2>1 DEF Queued
<1>6. Queued(r, p)
  BY Zenon, <1>4, <1>5 DEF Queued
<1> QED BY Zenon, <1>1, <1>6 DEF r, p

LEMMA QueueLeft ==
    ASSUME NEW q \in Seq(Threads), NEW o \in [Threads -> Ops], NEW k \in 1 .. Len(q), NEW next,
           NEW r \in Seq(Threads), Len(r) = Len(q) - 1,
           \A i \in 1 .. Len(q) - 1 : r[i] = IF i < k THEN q[i] ELSE q[i + 1],
           Queued(q, o)
    PROVE  Queued(r, [o EXCEPT ![q[k]] = next])
<1> DEFINE p == [o EXCEPT ![q[k]] = next]
           from(i) == IF i < k THEN i ELSE i + 1
<1>1. Len(q) \in Nat /\ \A i \in 1 .. Len(q) : q[i] \in Threads
  BY LenProperties, ElementOfSeq
<1>2. \A i \in 1 .. Len(r) : from(i) \in 1 .. Len(q) /\ from(i) # k /\ r[i] = q[from(i)]
  BY <1>1
<1>3. \A i, j \in 1 .. Len(r) : from(i) = from(j) => i = j
  BY <1>1
<1>4. \A u \in Threads : u # q[k] => p[u] = o[u]
  BY Zenon
<1> HIDE DEF p, from
<1>5. ASSUME NEW i \in 1 .. Len(r) PROVE p[r[i]] = "queued"
  <2>1. q[from(i)] # q[k] /\ q[from(i)] \in Threads /\ o[q[from(i)]] = "queued"
    BY Zenon, <1>1, <1>2 DEF Queued
  <2> QED BY Zenon, <1>2, <1>4, <2>1
<1>6. ASSUME NEW i \in 1 .. Len(r), NEW j \in 1 .. Len(r), r[i] = r[j] PROVE i = j
  <2>1. from(i) \in 1 .. Len(q) /\ from(j) \in 1 .. Len(q) /\ q[from(i)] = q[from(j)]
    BY Zenon, <1>2, <1>6
  <2>2. from(i) = from(j)
    BY Zenon, <2>1 DEF Queued
  <2> QED BY Zenon, <1>3, <2>2
<1> QED BY Zenon, <1>5, <1>6 DEF Queued, p

LEMMA QueueKept ==
    ASSUME NEW q \in Seq(Threads), NEW o, NEW p, NEW t \in Threads, Queued(q, o),
           o[t] \in {"spawned", "running"}, \A u \in Threads \ {t} : p[u] = o[u]
    PROVE  Queued(q, p)
<1>1. \A i \in 1 .. Len(q) : q[i] \in Threads /\ q[i] # t /\ o[q[i]] = "queued"
  BY ElementOfSeq DEF Queued
<1>2. \A i \in 1 .. Len(q) : p[q[i]] = "queued"
  BY Zenon, <1>1
<1> QED BY Zenon, <1>2 DEF Queued

LEMMA ExecutorInvInit == ExecutorInit => ExecutorInv
<1> SUFFICES ASSUME ExecutorInit PROVE ExecutorInv
  BY Zenon
<1>1. ExecutorTypeOK
  BY AuthExecutorAssumption DEF ExecutorInit, FlightInit, ExecutorTypeOK, FlightSpecTypeOK, Roles, CallStates, Ops
<1>2. Admitted = {} /\ Workers = {}
  BY Zenon DEF ExecutorInit, Admitted, Workers
<1>3. Counted(Admitted, admission, AUTH_BLOCKING_ADMISSION) /\ Counted(Workers, work, AUTH_BLOCKING_WORKERS)
  BY <1>2, CountNone, AuthExecutorAssumption DEF ExecutorInit
<1>4. Queued(queue, op)
  BY DEF ExecutorInit, Queued
<1>5. resolving <= ResolverLimit
  BY AuthExecutorAssumption DEF ExecutorInit
<1>6. OneLeader /\ \A t \in Threads : FliesRunning(t)
  BY Zenon DEF ExecutorInit, FlightInit, OneLeader, FliesRunning
<1> QED BY Zenon, <1>1, <1>3, <1>4, <1>5, <1>6 DEF ExecutorInv

\* A step that leaves the flight alone.
LEMMA GroundStep ==
    ASSUME ExecutorInv, ExecutorTypeOK', UNCHANGED flightSpecVars,
           Counted(Admitted, admission, AUTH_BLOCKING_ADMISSION)',
           Counted(Workers, work, AUTH_BLOCKING_WORKERS)',
           Queued(queue, op)', resolving' <= ResolverLimit,
           \A t \in Threads : op[t] = "running" => op'[t] = "running"
    PROVE  ExecutorInv'
<1>1. UNCHANGED <<asked, role>>
  BY Zenon DEF flightSpecVars
<1>2. OneLeader' /\ \A t \in Threads : FliesRunning(t)'
  BY Zenon, <1>1 DEF ExecutorInv, OneLeader, FliesRunning
<1> QED BY Zenon, <1>2 DEF ExecutorInv

LEMMA StepRun ==
    ASSUME ExecutorInv, NEW t \in Threads, run(t)
    PROVE  ExecutorInv'
<1>1. /\ op[t] = "none" /\ UNCHANGED <<work, tries, resolving>> /\ UNCHANGED flightSpecVars
      /\ op \in [Threads -> Ops] /\ call \in [Threads -> CallStates] /\ queue \in Seq(Threads) /\ admission \in Nat
      /\ Queued(queue, op)
  BY Zenon DEF run, ExecutorInv, ExecutorTypeOK
<1>2. CASE /\ admission > 0 /\ admission' = admission - 1 /\ queue' = Append(queue, t)
           /\ call' = [call EXCEPT ![t] = "waiting"] /\ op' = [op EXCEPT ![t] = "queued"]
  <2>1. admission' \in Nat /\ admission = admission' + 1
    BY <1>1, <1>2
  <2>2. /\ op' \in [Threads -> Ops] /\ op'[t] = "queued" /\ call' \in [Threads -> CallStates]
        /\ \A u \in Threads \ {t} : op'[u] = op[u]
    BY Zenon, <1>1, <1>2 DEF Ops, CallStates
  <2>3. queue' \in Seq(Threads) /\ Queued(queue, op)'
    BY Zenon, <1>1, <1>2, QueueJoined
  <2>4. ExecutorTypeOK'
    BY Zenon, <1>1, <2>1, <2>2, <2>3 DEF ExecutorInv, ExecutorTypeOK, FlightSpecTypeOK, flightSpecVars
  <2>5. t \notin Admitted /\ Admitted' = Admitted \cup {t} /\ Workers' = Workers
    BY Zenon, <1>1, <2>2 DEF Admitted, Workers
  <2>6. Counted(Admitted \cup {t}, admission', AUTH_BLOCKING_ADMISSION)
    BY <1>1, <2>1, <2>5, CountAdd DEF ExecutorInv
  <2>7. /\ Counted(Admitted, admission, AUTH_BLOCKING_ADMISSION)' /\ Counted(Workers, work, AUTH_BLOCKING_WORKERS)'
        /\ resolving' <= ResolverLimit
    BY Zenon, <1>1, <2>5, <2>6 DEF ExecutorInv
  <2> QED BY Zenon, <1>1, <2>2, <2>3, <2>4, <2>7, GroundStep
<1>3. CASE call' = [call EXCEPT ![t] = "overloaded"] /\ UNCHANGED <<admission, queue, op>>
  <2>1. ExecutorTypeOK'
    BY Zenon, <1>1, <1>3 DEF ExecutorInv, ExecutorTypeOK, FlightSpecTypeOK, flightSpecVars, CallStates
  <2>2. /\ Counted(Admitted, admission, AUTH_BLOCKING_ADMISSION)' /\ Counted(Workers, work, AUTH_BLOCKING_WORKERS)'
        /\ Queued(queue, op)' /\ resolving' <= ResolverLimit
    BY Zenon, <1>1, <1>3 DEF ExecutorInv, Admitted, Workers
  <2> QED BY Zenon, <1>1, <1>3, <2>1, <2>2, GroundStep
<1> QED BY Zenon, <1>2, <1>3 DEF run

LEMMA StepGranted ==
    ASSUME ExecutorInv, NEW t \in Threads, Granted(t)
    PROVE  ExecutorInv'
<1>1. /\ queue # <<>> /\ Head(queue) = t /\ work > 0 /\ work' = work - 1 /\ queue' = Tail(queue)
      /\ op' = [op EXCEPT ![t] = "spawned"] /\ UNCHANGED <<admission, call, tries, resolving>>
      /\ UNCHANGED flightSpecVars
      /\ op \in [Threads -> Ops] /\ queue \in Seq(Threads) /\ work \in Nat /\ Queued(queue, op)
  BY Zenon DEF Granted, ExecutorInv, ExecutorTypeOK
<1>2. work' \in Nat /\ work = work' + 1
  BY <1>1
<1>3. Len(queue) \in Nat /\ 1 \in 1 .. Len(queue) /\ queue[1] = t
  BY <1>1, LenProperties, EmptySeq
<1>4. /\ queue' \in Seq(Threads) /\ Len(queue') = Len(queue) - 1
      /\ \A i \in 1 .. Len(queue) - 1 : queue'[i] = IF i < 1 THEN queue[i] ELSE queue[i + 1]
  <2>1. /\ queue' \in Seq(Threads) /\ Len(queue') = Len(queue) - 1
        /\ \A i \in 1 .. Len(queue') : queue'[i] = queue[i + 1]
    BY Zenon, <1>1, HeadTailProperties
  <2> QED BY <1>3, <2>1
<1>5. Queued(queue', [op EXCEPT ![queue[1]] = "spawned"])
  BY Zenon, <1>1, <1>3, <1>4, QueueLeft
<1>6. op[t] = "queued"
  BY Zenon, <1>1, <1>3 DEF Queued
<1>7. /\ op' \in [Threads -> Ops] /\ op'[t] = "spawned" /\ \A u \in Threads \ {t} : op'[u] = op[u]
  BY Zenon, <1>1 DEF Ops
<1>8. ExecutorTypeOK'
  BY Zenon, <1>1, <1>2, <1>4, <1>7 DEF ExecutorInv, ExecutorTypeOK, FlightSpecTypeOK, flightSpecVars
<1>9. t \notin Workers /\ Workers' = Workers \cup {t} /\ Admitted' = Admitted
  BY Zenon, <1>6, <1>7 DEF Admitted, Workers
<1>10. Counted(Workers \cup {t}, work', AUTH_BLOCKING_WORKERS)
  BY <1>1, <1>2, <1>9, CountAdd DEF ExecutorInv
<1>11. /\ Counted(Admitted, admission, AUTH_BLOCKING_ADMISSION)' /\ Counted(Workers, work, AUTH_BLOCKING_WORKERS)'
       /\ resolving' <= ResolverLimit /\ Queued(queue, op)'
  BY Zenon, <1>1, <1>3, <1>5, <1>9, <1>10 DEF ExecutorInv
<1> QED BY Zenon, <1>1, <1>6, <1>7, <1>8, <1>11, GroundStep

LEMMA StepScheduled ==
    ASSUME ExecutorInv, NEW t \in Threads, Scheduled(t)
    PROVE  ExecutorInv'
<1>1. /\ op[t] = "spawned" /\ op' = [op EXCEPT ![t] = "running"] /\ tries' = [tries EXCEPT ![t] = MaxTries]
      /\ UNCHANGED <<admission, work, queue, call, resolving>> /\ UNCHANGED flightSpecVars
      /\ op \in [Threads -> Ops] /\ queue \in Seq(Threads) /\ Queued(queue, op)
  BY Zenon DEF Scheduled, ExecutorInv, ExecutorTypeOK
<1>2. op' \in [Threads -> Ops] /\ op'[t] = "running" /\ \A u \in Threads \ {t} : op'[u] = op[u]
  BY Zenon, <1>1 DEF Ops
<1>3. ExecutorTypeOK'
  BY Zenon, <1>1, <1>2, AuthExecutorAssumption DEF ExecutorInv, ExecutorTypeOK, FlightSpecTypeOK, flightSpecVars
<1>4. Workers' = Workers /\ Admitted' = Admitted
  BY Zenon, <1>1, <1>2 DEF Admitted, Workers
<1>5. Queued(queue, op)'
  BY Zenon, <1>1, <1>2, QueueKept
<1>6. /\ Counted(Admitted, admission, AUTH_BLOCKING_ADMISSION)' /\ Counted(Workers, work, AUTH_BLOCKING_WORKERS)'
      /\ resolving' <= ResolverLimit
  BY Zenon, <1>1, <1>4 DEF ExecutorInv
<1> QED BY Zenon, <1>1, <1>2, <1>3, <1>5, <1>6, GroundStep

LEMMA StepFinished ==
    ASSUME ExecutorInv, NEW t \in Threads, Finished(t)
    PROVE  ExecutorInv'
<1>1. /\ op[t] = "running" /\ role[t] = "none" /\ asked[t] = {} /\ op' = [op EXCEPT ![t] = "none"]
      /\ call' = [call EXCEPT ![t] = "none"] /\ admission' = admission + 1 /\ work' = work + 1
      /\ tries' = [tries EXCEPT ![t] = 0] /\ got' = [got EXCEPT ![t] = nothing]
      /\ UNCHANGED <<queue, resolving, asked, role, accepted>>
      /\ op \in [Threads -> Ops] /\ queue \in Seq(Threads) /\ Queued(queue, op)
      /\ admission \in Nat /\ work \in Nat
  BY Zenon DEF Finished, forget, ExecutorInv, ExecutorTypeOK
<1>2. op' \in [Threads -> Ops] /\ op'[t] = "none" /\ \A u \in Threads \ {t} : op'[u] = op[u]
  BY Zenon, <1>1 DEF Ops
<1>3. admission' \in Nat /\ work' \in Nat /\ 0 \in Nat
  BY <1>1
<1>4. ExecutorTypeOK'
  BY Zenon, <1>1, <1>2, <1>3 DEF ExecutorInv, ExecutorTypeOK, FlightSpecTypeOK, CallStates
<1>5. t \in Workers /\ Workers' = Workers \ {t} /\ t \in Admitted /\ Admitted' = Admitted \ {t}
  BY Zenon, <1>1, <1>2 DEF Admitted, Workers
<1>6. /\ Counted(Admitted \ {t}, admission + 1, AUTH_BLOCKING_ADMISSION)
      /\ Counted(Workers \ {t}, work + 1, AUTH_BLOCKING_WORKERS)
  BY <1>1, <1>5, CountRemove DEF ExecutorInv
<1>7. Queued(queue, op)'
  BY Zenon, <1>1, <1>2, QueueKept
<1>8. OneLeader' /\ \A u \in Threads : FliesRunning(u)'
  BY Zenon, <1>1, <1>2 DEF ExecutorInv, OneLeader, FliesRunning
<1> QED BY Zenon, <1>1, <1>4, <1>5, <1>6, <1>7, <1>8 DEF ExecutorInv

LEMMA StepDropped ==
    ASSUME ExecutorInv, NEW t \in Threads, Dropped(t)
    PROVE  ExecutorInv'
<1>1. /\ call' = [call EXCEPT ![t] = "none"] /\ UNCHANGED <<work, tries, resolving>> /\ UNCHANGED flightSpecVars
      /\ op \in [Threads -> Ops] /\ queue \in Seq(Threads) /\ Queued(queue, op) /\ admission \in Nat
      /\ call' \in [Threads -> CallStates]
  BY Zenon DEF Dropped, ExecutorInv, ExecutorTypeOK, CallStates
<1>2. ASSUME op[t] = "queued", NEW k \in DOMAIN queue, queue[k] = t, queue' = WithoutPosition(k),
             op' = [op EXCEPT ![t] = "none"], admission' = admission + 1
      PROVE  ExecutorInv'
  <2>1. Len(queue) \in Nat /\ DOMAIN queue = 1 .. Len(queue) /\ \A i \in 1 .. Len(queue) : queue[i] \in Threads
    BY <1>1, LenProperties, ElementOfSeq
  <2>2. /\ queue' \in Seq(Threads) /\ Len(queue') = Len(queue) - 1
        /\ \A i \in 1 .. Len(queue) - 1 : queue'[i] = IF i < k THEN queue[i] ELSE queue[i + 1]
    <3>1. Len(queue) - 1 \in Nat /\ \A i \in 1 .. Len(queue) - 1 : i \in 1 .. Len(queue) /\ i + 1 \in 1 .. Len(queue)
      BY <1>2, <2>1
    <3>2. \A i \in 1 .. Len(queue) - 1 : queue'[i] \in Threads
      BY <1>2, <2>1, <3>1 DEF WithoutPosition
    <3> QED BY <1>2, <3>1, <3>2, IsASeq DEF WithoutPosition
  <2>3. Queued(queue', [op EXCEPT ![queue[k]] = "none"])
    BY Zenon, <1>1, <1>2, <2>1, <2>2, QueueLeft
  <2>4. op' \in [Threads -> Ops] /\ op'[t] = "none" /\ \A u \in Threads \ {t} : op'[u] = op[u]
    BY Zenon, <1>1, <1>2 DEF Ops
  <2>5. admission' \in Nat
    BY <1>1, <1>2
  <2>6. ExecutorTypeOK'
    BY Zenon, <1>1, <2>2, <2>4, <2>5 DEF ExecutorInv, ExecutorTypeOK, FlightSpecTypeOK, flightSpecVars
  <2>7. t \in Admitted /\ Admitted' = Admitted \ {t} /\ Workers' = Workers
    BY Zenon, <1>2, <2>4 DEF Admitted, Workers
  <2>8. Counted(Admitted \ {t}, admission + 1, AUTH_BLOCKING_ADMISSION)
    BY <1>1, <2>7, CountRemove DEF ExecutorInv
  <2>9. /\ Counted(Admitted, admission, AUTH_BLOCKING_ADMISSION)' /\ Counted(Workers, work, AUTH_BLOCKING_WORKERS)'
        /\ resolving' <= ResolverLimit /\ Queued(queue, op)'
    BY Zenon, <1>1, <1>2, <2>3, <2>7, <2>8 DEF ExecutorInv
  <2> QED BY Zenon, <1>1, <1>2, <2>4, <2>6, <2>9, GroundStep
<1>3. CASE UNCHANGED <<queue, op, admission>>
  <2>1. ExecutorTypeOK'
    BY Zenon, <1>1, <1>3 DEF ExecutorInv, ExecutorTypeOK, FlightSpecTypeOK, flightSpecVars
  <2>2. /\ Counted(Admitted, admission, AUTH_BLOCKING_ADMISSION)' /\ Counted(Workers, work, AUTH_BLOCKING_WORKERS)'
        /\ Queued(queue, op)' /\ resolving' <= ResolverLimit
    BY Zenon, <1>1, <1>3 DEF ExecutorInv, Admitted, Workers
  <2> QED BY Zenon, <1>1, <1>3, <2>1, <2>2, GroundStep
<1> QED BY Zenon, <1>2, <1>3 DEF Dropped

\* A step of the flight: an operation that runs asks for it, gets it or ends it.
LEMMA StepFlight ==
    ASSUME ExecutorInv, NEW t \in Threads, Asking(t) \/ Flying(t) \/ Landing(t) \/ Aliasing(t)
    PROVE  ExecutorInv'
<1>1. /\ op[t] = "running" /\ UNCHANGED <<admission, work, queue, call, op, resolving>>
      /\ FlightSpecTypeOK /\ tries \in [Threads -> Nat]
  BY Zenon DEF Asking, Flying, Landing, Aliasing, executorVars, ExecutorInv, ExecutorTypeOK
<1>2. tries' \in [Threads -> Nat]
  <2>1. CASE Asking(t)
    BY <1>1, <2>1 DEF Asking
  <2> QED BY Zenon, <1>1, <2>1 DEF Flying, Landing, Aliasing, executorVars
<1>3. FlightSpecTypeOK' /\ OneLeader' /\ \A u \in Threads : FliesRunning(u)'
  <2>1. OneLeader /\ \A u \in Threads : FliesRunning(u)
    BY Zenon DEF ExecutorInv
  <2>2. CASE Asking(t)
    <3>1. PICK v \in Versions : role[t] = "none" /\ asked' = [asked EXCEPT ![t] = {v}] /\ UNCHANGED <<role, accepted, got>>
      BY Zenon, <2>2 DEF Asking, ask
    <3> QED BY Zenon, <1>1, <2>1, <3>1 DEF FlightSpecTypeOK, OneLeader, FliesRunning
  <2>3. CASE Flying(t)
    <3> DEFINE led == \E u \in Threads : role[u] = "leader"
               new == IF ~led THEN "leader" ELSE IF asked[t] \subseteq accepted THEN "joined" ELSE "closing"
    <3>1. /\ asked[t] # {} /\ asked' = [asked EXCEPT ![t] = {}] /\ role' = [role EXCEPT ![t] = new]
          /\ accepted' = (IF led THEN accepted ELSE asked[t]) /\ got' = [got EXCEPT ![t] = nothing]
      BY Zenon, <2>3 DEF Flying, acquire
    <3>2. new \in Roles /\ (led => new # "leader") /\ (~led => new = "leader")
      BY Zenon DEF Roles
    <3>3. FlightSpecTypeOK'
      BY Zenon, <1>1, <3>1, <3>2 DEF FlightSpecTypeOK
    <3>4. role'[t] = new /\ \A u \in Threads \ {t} : role'[u] = role[u] /\ asked'[u] = asked[u]
      BY Zenon, <1>1, <3>1 DEF FlightSpecTypeOK
    <3> HIDE DEF new
    <3>5. OneLeader'
      <4>1. CASE led
        <5>1. PICK w \in Threads : role[w] = "leader"
          BY Zenon, <4>1
        <5>2. CASE w = t
          BY Zenon, <2>1, <3>1, <5>1, <5>2 DEF FliesRunning
        <5>3. CASE w # t
          BY Zenon, <2>1, <3>2, <3>4, <4>1, <5>1, <5>3 DEF OneLeader
        <5> QED BY Zenon, <5>2, <5>3
      <4>2. CASE ~led
        BY Zenon, <3>2, <3>4, <4>2 DEF OneLeader
      <4> QED BY Zenon, <4>1, <4>2
    <3> QED BY Zenon, <1>1, <2>1, <3>1, <3>3, <3>4, <3>5 DEF FliesRunning, FlightSpecTypeOK
  <2>4. CASE Landing(t)
    <3>1. PICK o \in Outcomes : /\ role' = [u \in Threads |-> "none"] /\ accepted' = {} /\ UNCHANGED asked
                                /\ got' = [u \in Threads |-> IF role[u] \in {"leader", "joined"} THEN o ELSE got[u]]
      BY Zenon, <2>4 DEF Landing, complete
    <3> QED BY Zenon, <1>1, <2>1, <3>1 DEF FlightSpecTypeOK, OneLeader, Roles, FliesRunning
  <2>5. CASE Aliasing(t)
    <3>1. PICK v \in Versions : accepted' = accepted \cup {v} /\ UNCHANGED <<asked, role, got>>
      BY Zenon, <2>5 DEF Aliasing, add_alias
    <3> QED BY Zenon, <1>1, <2>1, <3>1 DEF FlightSpecTypeOK, OneLeader, FliesRunning
  <2> QED BY Zenon, <2>2, <2>3, <2>4, <2>5
<1>4. ExecutorTypeOK'
  BY Zenon, <1>1, <1>2, <1>3 DEF ExecutorInv, ExecutorTypeOK
<1>5. /\ Counted(Admitted, admission, AUTH_BLOCKING_ADMISSION)' /\ Counted(Workers, work, AUTH_BLOCKING_WORKERS)'
      /\ Queued(queue, op)' /\ resolving' <= ResolverLimit
  BY Zenon, <1>1 DEF ExecutorInv, Admitted, Workers
<1> QED BY Zenon, <1>3, <1>4, <1>5 DEF ExecutorInv

LEMMA StepResolve ==
    ASSUME ExecutorInv, Resolve \/ Resolved \/ UNCHANGED allVars
    PROVE  ExecutorInv'
<1>1. /\ UNCHANGED <<admission, work, queue, call, op, tries>> /\ UNCHANGED flightSpecVars
      /\ \/ resolving < ResolverLimit /\ resolving' = resolving + 1
         \/ resolving > 0 /\ resolving' = resolving - 1
         \/ resolving' = resolving
  BY Zenon DEF Resolve, Resolved, allVars, executorVars
<1>2. resolving' \in Nat /\ resolving' <= ResolverLimit
  BY <1>1, AuthExecutorAssumption DEF ExecutorInv, ExecutorTypeOK
<1>3. ExecutorTypeOK'
  BY Zenon, <1>1, <1>2 DEF ExecutorInv, ExecutorTypeOK, FlightSpecTypeOK, flightSpecVars
<1>4. /\ Counted(Admitted, admission, AUTH_BLOCKING_ADMISSION)' /\ Counted(Workers, work, AUTH_BLOCKING_WORKERS)'
      /\ Queued(queue, op)'
  BY Zenon, <1>1 DEF ExecutorInv, Admitted, Workers
<1> QED BY Zenon, <1>1, <1>2, <1>3, <1>4, GroundStep

LEMMA ExecutorInvariant == ExecutorSpec => []ExecutorInv
<1>1. ExecutorInv /\ [ExecutorNext]_allVars => ExecutorInv'
  BY Zenon, StepRun, StepGranted, StepScheduled, StepFinished, StepDropped, StepFlight, StepResolve DEF ExecutorNext
<1> QED BY <1>1, ExecutorInvInit, PTL DEF ExecutorSpec

\* AuthExecutor loses no permit and makes none: the free permits of both semaphores and
\* the calls and operations that hold one add up to AUTH_BLOCKING_ADMISSION and
\* AUTH_BLOCKING_WORKERS, whichever client goes away at whatever moment.
THEOREM NoExecutorPermitIsLost == ExecutorSpec => []PermitsAddUp
<1>1. ExecutorInv => PermitsAddUp
  BY Zenon DEF ExecutorInv, PermitsAddUp, Counted, Admitted, Workers
<1> QED BY <1>1, ExecutorInvariant, PTL

\* An operation that has a work permit goes on by itself: the blocking pool of
\* max_blocking_threads always has a thread for it, and the flight it may wait for has a
\* leader that runs.
THEOREM WorkersHaveThreads == ExecutorSpec => []WorkersGoOn
<1>1. ExecutorInv => WorkersGoOn
  <2> SUFFICES ASSUME ExecutorInv PROVE WorkersGoOn
    BY Zenon
  <2>1. ASSUME NEW t \in Threads, op[t] = "spawned" PROVE FreeThread
    <3>1. t \in Workers /\ IsFiniteSet(Workers) /\ work + Cardinality(Workers) = AUTH_BLOCKING_WORKERS
      BY Zenon, <2>1 DEF ExecutorInv, Workers, Counted
    <3>2. IsFiniteSet(Workers \ {t}) /\ Cardinality(Workers \ {t}) = Cardinality(Workers) - 1
      BY Zenon, <3>1, FS_RemoveElement
    <3>3. Occupying \subseteq Workers \ {t}
      BY Zenon, <2>1 DEF Occupying, Workers
    <3>4. IsFiniteSet(Occupying) /\ Cardinality(Occupying) <= Cardinality(Workers \ {t})
      BY Zenon, <3>2, <3>3, FS_Subset
    <3>5. Cardinality(Occupying) \in Nat /\ Cardinality(Workers) \in Nat
      BY Zenon, <3>1, <3>4, FS_CardinalityType
    <3>6. work \in Nat /\ resolving \in Nat /\ resolving <= ResolverLimit
      BY Zenon DEF ExecutorInv, ExecutorTypeOK
    <3> QED BY <3>1, <3>2, <3>4, <3>5, <3>6, AuthExecutorAssumption DEF FreeThread, max_blocking_threads
  <2>2. ASSUME NEW t \in Threads, role[t] # "none"
        PROVE  \E u \in Threads : role[u] = "leader" /\ op[u] = "running"
    <3>1. PICK u \in Threads : role[u] = "leader"
      BY Zenon, <2>2 DEF ExecutorInv, OneLeader
    <3> QED BY Zenon, <3>1 DEF ExecutorInv, FliesRunning
  <2> QED BY Zenon, <2>1, <2>2 DEF WorkersGoOn, SpawnedHasThread, LeaderRuns
<1> QED BY <1>1, ExecutorInvariant, PTL
=============================================================================
