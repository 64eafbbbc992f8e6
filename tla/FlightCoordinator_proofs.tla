----------------------- MODULE FlightCoordinator_proofs -----------------------
(***************************************************************************)
(* src/src/flight.rs implements the abstract flight: ImplementsFlightSpec  *)
(* of FlightCoordinator for any number of threads, session ids, versions   *)
(* and flights.                                                            *)
(*                                                                         *)
(* The invariant is what the registry's mutex protects: an entry of the    *)
(* registry is the flight of exactly one leader, has no outcome, and       *)
(* belongs to one session id; whoever waits for a flight without an        *)
(* outcome waits for the registered one.                                   *)
(***************************************************************************)
EXTENDS FlightCoordinator, TLAPS

FlightState == [accepted_versions : SUBSET Versions, outcome : Outcomes \cup {nothing}]

TypeOK ==
    /\ registryLock \in Threads \cup {None}
    /\ registry \in [Keys -> Flights \cup {None}]
    /\ state \in [Flights -> FlightState]
    /\ pc \in [Threads -> PCs]
    /\ key \in [Threads -> Keys \cup {None}]
    /\ seen \in [Threads -> Versions \cup {None}]
    /\ mine \in [Threads -> Flights \cup {None}]
    /\ given \in [Keys -> [Threads -> Outcomes \cup {nothing}]]

Asking == {"acquire", "acquire_state"}

\* What holds of a thread, the registry and its flight.
ThreadOK(t) ==
    /\ pc[t] = "idle" => key[t] = None /\ mine[t] = None
    /\ pc[t] # "idle" => key[t] \in Keys
    /\ pc[t] \in Asking => seen[t] \in Versions /\ mine[t] = None
    /\ pc[t] \in Asking \cup {"completing", "completing_state"} => registryLock = t
    /\ pc[t] = "acquire_state" => registry[key[t]] # None
    /\ pc[t] \in LeaderPCs => mine[t] \in Flights /\ registry[key[t]] = mine[t]
    /\ pc[t] \in WaitingPCs =>
          mine[t] \in Flights
              /\ (state[mine[t]].outcome = nothing => registry[key[t]] = mine[t])

ThreadsOK == \A t \in Threads : ThreadOK(t)

Registered ==
    /\ \A k \in Keys : registry[k] # None =>
          /\ state[registry[k]].outcome = nothing
          /\ \E t \in Threads : pc[t] \in LeaderPCs /\ key[t] = k
    /\ \A k, l \in Keys : registry[k] # None /\ registry[k] = registry[l] => k = l

OneLeads ==
    \A t, u \in Threads : pc[t] \in LeaderPCs /\ pc[u] \in LeaderPCs /\ key[t] = key[u] => t = u

IInv == TypeOK /\ ThreadsOK /\ Registered /\ OneLeads

-----------------------------------------------------------------------------
(* The invariant.                                                          *)

LEMMA InitIInv ==
    Init => IInv
<1> SUFFICES ASSUME Init PROVE IInv
    OBVIOUS
<1>1. TypeOK
    BY Zenon DEF Init, TypeOK, PCs, NoState, FlightState
<1>2. ThreadsOK
    BY Zenon DEF Init, ThreadsOK, ThreadOK, Asking, LeaderPCs, WaitingPCs
<1> QED BY Zenon, <1>1, <1>2, FlightCoordinatorAssumption
        DEF Init, IInv, Registered, OneLeads, LeaderPCs

LEMMA LeaveType ==
    ASSUME TypeOK, NEW t \in Threads, NEW st \in [Flights -> FlightState], Leave(t, st),
           mine[t] \in Flights
    PROVE  /\ state' \in [Flights -> FlightState] /\ pc' \in [Threads -> PCs]
           /\ mine' \in [Threads -> Flights \cup {None}] /\ key' \in [Threads -> Keys \cup {None}]
<1>1. NoState \in FlightState
    BY Zenon DEF NoState, FlightState
<1> QED BY Zenon, <1>1 DEF Leave, Goto, TypeOK, PCs

LEMMA LeadType ==
    ASSUME TypeOK, NEW t \in Threads, Lead(t), seen[t] \in Versions
    PROVE  /\ state' \in [Flights -> FlightState] /\ pc' \in [Threads -> PCs]
           /\ mine' \in [Threads -> Flights \cup {None}]
           /\ registry' \in [Keys -> Flights \cup {None}]
           /\ registryLock' = None
<1>1. PICK f \in Unused :
          /\ state' = [state EXCEPT ![f] = [accepted_versions |-> {seen[t]}, outcome |-> nothing]]
          /\ registry' = [registry EXCEPT ![key[t]] = f]
          /\ mine' = [mine EXCEPT ![t] = f]
          /\ registryLock' = None
          /\ Goto(t, "leading")
    BY Zenon DEF Lead
<1>2. f \in Flights
    BY Zenon DEF Unused
<1>3. [accepted_versions |-> {seen[t]}, outcome |-> nothing] \in FlightState
    BY Zenon DEF FlightState
<1> QED BY Zenon, <1>1, <1>2, <1>3 DEF TypeOK, Goto, PCs, LeaderPCs

LEMMA NextType ==
    ASSUME IInv, [Next]_vars
    PROVE  TypeOK'
<1> USE DEF IInv
<1>0. ASSUME NEW t \in Threads, NEW n \in PCs, Goto(t, n)
      PROVE  pc' \in [Threads -> PCs]
    BY Zenon, <1>0 DEF Goto, TypeOK
<1>a. ASSUME NEW t \in Threads, Acquired(t)
      PROVE  /\ seen' \in [Threads -> Versions \cup {None}]
             /\ given' \in [Keys -> [Threads -> Outcomes \cup {nothing}]]
    BY Zenon, <1>a DEF Acquired, TypeOK
<1>1. ASSUME NEW t \in Threads, Acquire(t) PROVE TypeOK'
    BY <1>1, <1>0 DEF Acquire, TypeOK, PCs
<1>2. ASSUME NEW t \in Threads, AcquireNew(t) PROVE TypeOK'
    <2>1. seen[t] \in Versions
        BY Zenon, <1>2 DEF AcquireNew, ThreadsOK, ThreadOK, Asking
    <2> QED BY Zenon, <1>2, <2>1, <1>a, LeadType DEF AcquireNew, TypeOK
<1>3. ASSUME NEW t \in Threads, AcquireExisting(t) \/ AddAlias(t) \/ CompletingState(t)
      PROVE TypeOK'
    BY Zenon, <1>3, <1>0 DEF AcquireExisting, AddAlias, CompletingState, LockState, TypeOK, PCs, LeaderPCs
<1>4. ASSUME NEW t \in Threads, AcquireState(t) PROVE TypeOK'
    <2>1. seen[t] \in Versions /\ registry[key[t]] \in Flights /\ key[t] \in Keys
        BY <1>4 DEF AcquireState, ThreadsOK, ThreadOK, Asking, TypeOK
    <2>2. CASE Lead(t)
        BY Zenon, <1>4, <2>1, <2>2, <1>a, LeadType DEF AcquireState, TypeOK
    <2>3. CASE /\ mine' = [mine EXCEPT ![t] = registry[key[t]]]
               /\ registryLock' = None
               /\ Goto(t, "joined") \/ Goto(t, "closing")
               /\ UNCHANGED <<registry, state>>
        <3>1. pc' \in [Threads -> PCs]
            BY Zenon, <2>3, <1>0 DEF PCs, WaitingPCs
        <3> QED BY Zenon, <1>4, <2>1, <2>3, <3>1, <1>a DEF AcquireState, TypeOK
    <2> QED BY Zenon, <1>4, <2>2, <2>3 DEF AcquireState
<1>5. ASSUME NEW t \in Threads, add_alias(t) PROVE TypeOK'
    <2>1. mine[t] \in Flights
        BY Zenon, <1>5 DEF add_alias, ThreadsOK, ThreadOK, LeaderPCs
    <2>2. state' \in [Flights -> FlightState]
        BY <1>5, <2>1 DEF add_alias, TypeOK, FlightState
    <2>3. pc' \in [Threads -> PCs]
        BY Zenon, <1>5, <1>0 DEF add_alias, PCs, LeaderPCs
    <2> QED BY Zenon, <1>5, <2>2, <2>3 DEF add_alias, TypeOK
<1>6. ASSUME NEW t \in Threads, Completing(t) PROVE TypeOK'
    BY Zenon, <1>6, <1>0 DEF Completing, TypeOK, PCs, LeaderPCs
<1>7. ASSUME NEW t \in Threads, complete(t) PROVE TypeOK'
    <2>1. mine[t] \in Flights /\ key[t] \in Keys
        BY Zenon, <1>7 DEF complete, ThreadsOK, ThreadOK, LeaderPCs
    <2>2. PICK o \in Outcomes :
              LET shared == IF state[mine[t]].outcome = nothing THEN o ELSE state[mine[t]].outcome
              IN  /\ Leave(t, [state EXCEPT ![mine[t]].outcome = shared])
                  /\ given' = [given EXCEPT ![key[t]][t] = shared]
        BY Zenon, <1>7 DEF complete
    <2> DEFINE shared == IF state[mine[t]].outcome = nothing THEN o ELSE state[mine[t]].outcome
               st == [state EXCEPT ![mine[t]].outcome = shared]
    <2>3. shared \in Outcomes \cup {nothing}
        BY Zenon, <2>1 DEF TypeOK, FlightState
    <2>4. Leave(t, st) /\ given' = [given EXCEPT ![key[t]][t] = shared]
        BY Zenon, <2>2
    <2> HIDE DEF shared
    <2>5. st \in [Flights -> FlightState]
        BY Zenon, <2>1, <2>3 DEF TypeOK, FlightState
    <2>6. given' \in [Keys -> [Threads -> Outcomes \cup {nothing}]]
        BY Zenon, <2>1, <2>3, <2>4 DEF TypeOK
    <2> HIDE DEF st
    <2>7. /\ state' \in [Flights -> FlightState] /\ pc' \in [Threads -> PCs]
          /\ mine' \in [Threads -> Flights \cup {None}] /\ key' \in [Threads -> Keys \cup {None}]
        BY Zenon, <2>1, <2>4, <2>5, LeaveType
    <2>8. /\ registry' \in [Keys -> Flights \cup {None}] /\ registryLock' = None /\ seen' = seen
        BY Zenon, <1>7 DEF complete, TypeOK
    <2> QED BY Zenon, <2>6, <2>7, <2>8 DEF TypeOK
<1>8. ASSUME NEW t \in Threads, WaitOutcome(t) \/ Wake(t) \/ SpuriousWake(t) PROVE TypeOK'
    <2>1. Relock(t)
        BY Zenon, <1>8 DEF WaitOutcome, Wake, SpuriousWake
    <2>2. pc' \in [Threads -> PCs]
        BY Zenon, <2>1, <1>0 DEF Relock, LockState, Then, PCs, WaitingPCs
    <2> QED BY Zenon, <2>1, <2>2 DEF Relock, TypeOK
<1>9. ASSUME NEW t \in Threads, CheckOutcome(t) PROVE TypeOK'
    <2>1. mine[t] \in Flights /\ key[t] \in Keys
        BY Zenon, <1>9 DEF CheckOutcome, ThreadsOK, ThreadOK, WaitingPCs
    <2>2. given' \in [Keys -> [Threads -> Outcomes \cup {nothing}]]
        <3> DEFINE o == state[mine[t]].outcome
        <3>1. o \in Outcomes \cup {nothing}
            BY Zenon, <2>1 DEF TypeOK, FlightState
        <3>2. given' = given \/ given' = [given EXCEPT ![key[t]][t] = o]
            BY Zenon, <1>9 DEF CheckOutcome
        <3> HIDE DEF o
        <3> QED BY SMTT(60), <2>1, <3>1, <3>2 DEF TypeOK
    <2>3. CASE Leave(t, state)
        <3>1. /\ state' \in [Flights -> FlightState] /\ pc' \in [Threads -> PCs]
              /\ mine' \in [Threads -> Flights \cup {None}]
              /\ key' \in [Threads -> Keys \cup {None}]
            BY Zenon, <2>1, <2>3, LeaveType DEF TypeOK
        <3> QED BY Zenon, <1>9, <2>2, <3>1 DEF CheckOutcome, TypeOK
    <2>4. CASE /\ Goto(t, "joined_wait") \/ Goto(t, "closing_wait")
               /\ UNCHANGED <<given, mine, key, state>>
        <3>1. pc' \in [Threads -> PCs]
            BY Zenon, <2>4, <1>0 DEF PCs, WaitingPCs
        <3> QED BY Zenon, <1>9, <2>4, <3>1 DEF CheckOutcome, TypeOK
    <2> QED BY Zenon, <1>9, <2>3, <2>4 DEF CheckOutcome, Then
<1>10. CASE UNCHANGED vars
    BY Zenon, <1>10 DEF vars, TypeOK
<1> QED BY Zenon, <1>1, <1>2, <1>3, <1>4, <1>5, <1>6, <1>7, <1>8, <1>9, <1>10
        DEF Next, Acquiring, Leading, Waiting

-----------------------------------------------------------------------------
\* The flight of a leader is nobody's else to complete, and is registered once.
LEMMA LeaderOf ==
    ASSUME IInv, NEW t \in Threads, pc[t] \in LeaderPCs
    PROVE  /\ mine[t] \in Flights /\ key[t] \in Keys /\ registry[key[t]] = mine[t]
           /\ state[mine[t]].outcome = nothing
           /\ \A k \in Keys : registry[k] = mine[t] => k = key[t]
           /\ \A u \in Threads : pc[u] \in WaitingPCs /\ mine[u] = mine[t] => key[u] = key[t]
<1>1. mine[t] \in Flights /\ key[t] \in Keys /\ registry[key[t]] = mine[t]
    BY Zenon DEF IInv, ThreadsOK, ThreadOK, LeaderPCs
<1>2. mine[t] # None
    BY Zenon, <1>1, FlightCoordinatorAssumption
<1>3. state[mine[t]].outcome = nothing /\ \A k \in Keys : registry[k] = mine[t] => k = key[t]
    BY <1>1, <1>2 DEF IInv, Registered
<1>4. ASSUME NEW u \in Threads, pc[u] \in WaitingPCs, mine[u] = mine[t]
      PROVE  key[u] = key[t]
    <2>1. key[u] \in Keys /\ registry[key[u]] = mine[u]
        BY Zenon, <1>3, <1>4 DEF IInv, ThreadsOK, ThreadOK, WaitingPCs
    <2> QED BY Zenon, <1>3, <1>4, <2>1
<1> QED BY Zenon, <1>1, <1>3, <1>4

\* A thread that takes no part in a step, which leaves its flight's outcome and, unless the
\* thread is at none, the registry of its session id.
LEMMA OtherThread ==
    ASSUME IInv, NEW u \in Threads,
           pc'[u] = pc[u], key'[u] = key[u], seen'[u] = seen[u], mine'[u] = mine[u],
           registryLock = u => registryLock' = u,
           pc[u] \in LeaderPCs \cup Asking => registry'[key[u]] = registry[key[u]],
           pc[u] \in WaitingPCs =>
               \/ state'[mine[u]].outcome # nothing
               \/ /\ state'[mine[u]].outcome = state[mine[u]].outcome
                  /\ registry'[key[u]] = registry[key[u]]
    PROVE  ThreadOK(u)'
BY DEF IInv, ThreadsOK, ThreadOK, Asking, LeaderPCs, WaitingPCs

\* A step of t that changes neither the registry nor an outcome, nor who leads.
LEMMA QuietStep ==
    ASSUME IInv, TypeOK', NEW t \in Threads, ThreadOK(t)',
           registry' = registry,
           \A f \in Flights : state'[f].outcome = state[f].outcome,
           \A u \in Threads \ {t} : /\ pc'[u] = pc[u] /\ key'[u] = key[u] /\ seen'[u] = seen[u]
                                    /\ mine'[u] = mine[u],
           registryLock' \in {registryLock, None, t},
           registryLock \in {None, t} \/ registryLock' = registryLock,
           pc[t] \in LeaderPCs <=> pc'[t] \in LeaderPCs,
           pc[t] \in LeaderPCs => key'[t] = key[t]
    PROVE  IInv'
<1>1. ASSUME NEW u \in Threads \ {t} PROVE ThreadOK(u)'
    <2>1. registryLock = u => registryLock' = u
        BY Zenon, FlightCoordinatorAssumption
    <2>2. pc[u] \in WaitingPCs => state'[mine[u]].outcome = state[mine[u]].outcome
        BY Zenon DEF IInv, ThreadsOK, ThreadOK
    <2> QED BY Zenon, <2>1, <2>2, OtherThread
<1>2. ThreadsOK'
    BY Zenon, <1>1 DEF ThreadsOK
<1>3. OneLeads'
    BY DEF IInv, OneLeads
<1>4. Registered'
    <2>1. ASSUME NEW k \in Keys, registry[k] # None
          PROVE  /\ state'[registry[k]].outcome = nothing
                 /\ \E u \in Threads : pc'[u] \in LeaderPCs /\ key'[u] = k
        <3>1. registry[k] \in Flights /\ state[registry[k]].outcome = nothing
            BY <2>1 DEF IInv, TypeOK, Registered
        <3>2. PICK u \in Threads : pc[u] \in LeaderPCs /\ key[u] = k
            BY Zenon, <2>1 DEF IInv, Registered
        <3>3. pc'[u] \in LeaderPCs /\ key'[u] = k
            BY Zenon, <3>2
        <3> QED BY Zenon, <3>1, <3>3
    <2> QED BY Zenon, <2>1 DEF IInv, Registered
<1> QED BY Zenon, <1>2, <1>3, <1>4 DEF IInv

\* The registered flight has no outcome when acquire has locked it, so it is joined or
\* waited for; it is never replaced.
LEMMA Joins ==
    ASSUME IInv, NEW t \in Threads, AcquireState(t)
    PROVE  LET f == registry[key[t]]
           IN  /\ key[t] \in Keys /\ f \in Flights /\ state[f].outcome = nothing
               /\ mine[t] = None /\ registryLock = t /\ registryLock' = None
               /\ mine' = [mine EXCEPT ![t] = f]
               /\ IF seen[t] \in state[f].accepted_versions THEN Goto(t, "joined")
                  ELSE Goto(t, "closing")
               /\ UNCHANGED <<registry, state, key>>
               /\ Acquired(t)
<1>1. /\ pc[t] = "acquire_state" /\ key[t] \in Keys /\ registry[key[t]] # None
      /\ mine[t] = None /\ registryLock = t
    BY Zenon DEF AcquireState, IInv, ThreadsOK, ThreadOK, Asking
<1>2. registry[key[t]] \in Flights /\ state[registry[key[t]]].outcome = nothing
    BY <1>1 DEF IInv, TypeOK, Registered
<1> QED BY Zenon, <1>1, <1>2 DEF AcquireState, accepts

LEMMA QuietActions ==
    ASSUME IInv, TypeOK', NEW t \in Threads,
           \/ Acquire(t) \/ AcquireExisting(t) \/ AcquireState(t) \/ AddAlias(t) \/ add_alias(t)
           \/ Completing(t) \/ CompletingState(t)
    PROVE  IInv'
<1>0. TypeOK /\ ThreadOK(t)
    BY Zenon DEF IInv, ThreadsOK
<1>1. CASE Acquire(t)
    <2>1. PICK k \in Keys, v \in Versions :
              key' = [key EXCEPT ![t] = k] /\ seen' = [seen EXCEPT ![t] = v]
        BY Zenon, <1>1 DEF Acquire
    <2>2. /\ pc[t] = "idle" /\ registryLock = None /\ registryLock' = t
          /\ pc' = [pc EXCEPT ![t] = "acquire"] /\ UNCHANGED <<registry, state, mine>>
        BY Zenon, <1>1 DEF Acquire, Goto
    <2>3. ThreadOK(t)'
        BY Zenon, <1>0, <2>1, <2>2 DEF ThreadOK, TypeOK, Asking, LeaderPCs, WaitingPCs
    <2> QED BY Zenon, <1>0, <2>1, <2>2, <2>3, QuietStep DEF TypeOK, LeaderPCs
<1>2. CASE AcquireExisting(t)
    <2>1. /\ pc[t] = "acquire" /\ registry[key[t]] # None
          /\ pc' = [pc EXCEPT ![t] = "acquire_state"]
          /\ UNCHANGED <<registryLock, registry, state, key, seen, mine>>
        BY Zenon, <1>2 DEF AcquireExisting, LockState, Goto
    <2>2. ThreadOK(t)'
        BY Zenon, <1>0, <2>1 DEF ThreadOK, TypeOK, Asking, LeaderPCs, WaitingPCs
    <2> QED BY Zenon, <1>0, <2>1, <2>2, QuietStep DEF TypeOK, LeaderPCs
<1>3. CASE AcquireState(t)
    <2>1. /\ key[t] \in Keys /\ registry[key[t]] \in Flights
          /\ registryLock = t /\ registryLock' = None
          /\ mine' = [mine EXCEPT ![t] = registry[key[t]]]
          /\ pc' = [pc EXCEPT ![t] = "joined"] \/ pc' = [pc EXCEPT ![t] = "closing"]
          /\ UNCHANGED <<registry, state, key>>
          /\ seen' = [seen EXCEPT ![t] = None]
          /\ pc[t] = "acquire_state"
        BY Zenon, <1>3, Joins DEF Goto, Acquired, AcquireState
    <2>2. ThreadOK(t)'
        BY Zenon, <1>0, <2>1 DEF ThreadOK, TypeOK, Asking, LeaderPCs, WaitingPCs
    <2> QED BY Zenon, <1>0, <2>1, <2>2, QuietStep DEF TypeOK, LeaderPCs
<1>4. CASE AddAlias(t) \/ CompletingState(t)
    <2>1. /\ \/ pc[t] = "leading" /\ pc' = [pc EXCEPT ![t] = "alias"]
             \/ pc[t] = "completing" /\ pc' = [pc EXCEPT ![t] = "completing_state"]
          /\ UNCHANGED <<registryLock, registry, state, key, seen, mine>>
        BY Zenon, <1>4 DEF AddAlias, CompletingState, LockState, Goto
    <2>2. ThreadOK(t)'
        BY Zenon, <1>0, <2>1 DEF ThreadOK, TypeOK, Asking, LeaderPCs, WaitingPCs
    <2> QED BY Zenon, <1>0, <2>1, <2>2, QuietStep DEF TypeOK, LeaderPCs
<1>5. CASE add_alias(t)
    <2>1. /\ pc[t] = "alias" /\ pc' = [pc EXCEPT ![t] = "leading"]
          /\ UNCHANGED <<registryLock, registry, key, seen, mine>>
        BY Zenon, <1>5 DEF add_alias, Goto
    <2>2. \A f \in Flights : state'[f].outcome = state[f].outcome
        BY SMTT(60), <1>0, <1>5 DEF add_alias, TypeOK, FlightState
    <2>3. ThreadOK(t)'
        BY Zenon, <1>0, <2>1 DEF ThreadOK, TypeOK, Asking, LeaderPCs, WaitingPCs
    <2> QED BY Zenon, <1>0, <2>1, <2>2, <2>3, QuietStep DEF TypeOK, LeaderPCs
<1>6. CASE Completing(t)
    <2>1. /\ pc[t] = "leading" /\ pc' = [pc EXCEPT ![t] = "completing"]
          /\ registryLock = None /\ registryLock' = t
          /\ UNCHANGED <<registry, state, key, seen, mine>>
        BY Zenon, <1>6 DEF Completing, Goto
    <2>2. ThreadOK(t)'
        BY Zenon, <1>0, <2>1 DEF ThreadOK, TypeOK, Asking, LeaderPCs, WaitingPCs
    <2> QED BY Zenon, <1>0, <2>1, <2>2, QuietStep DEF TypeOK, LeaderPCs
<1> QED BY Zenon, <1>1, <1>2, <1>3, <1>4, <1>5, <1>6

LEMMA LeadStep ==
    ASSUME IInv, TypeOK', NEW t \in Threads, AcquireNew(t)
    PROVE  IInv'
<1>0. /\ TypeOK /\ pc[t] = "acquire" /\ registry[key[t]] = None
      /\ registryLock = t /\ key[t] \in Keys /\ seen[t] \in Versions
    BY Zenon DEF IInv, ThreadsOK, ThreadOK, Asking, AcquireNew
<1>1. PICK f \in Unused :
          /\ state' = [state EXCEPT ![f] = [accepted_versions |-> {seen[t]}, outcome |-> nothing]]
          /\ registry' = [registry EXCEPT ![key[t]] = f]
          /\ mine' = [mine EXCEPT ![t] = f]
          /\ registryLock' = None
          /\ pc' = [pc EXCEPT ![t] = "leading"]
    BY Zenon DEF AcquireNew, Lead, Goto
<1>2. /\ f \in Flights /\ f # None
      /\ \A u \in Threads : mine[u] # f
      /\ \A k \in Keys : registry[k] # f
    BY Zenon, FlightCoordinatorAssumption DEF Unused
<1>3. key' = key /\ seen' = [seen EXCEPT ![t] = None]
    BY Zenon DEF AcquireNew, Acquired
<1>4. \A u \in Threads : pc[u] \in LeaderPCs => key[u] # key[t]
    <2>1. ASSUME NEW u \in Threads, pc[u] \in LeaderPCs PROVE key[u] # key[t]
        BY <1>0, <2>1, LeaderOf, FlightCoordinatorAssumption
    <2> QED BY Zenon, <2>1
<1>5. ThreadOK(t)'
    BY Zenon, <1>0, <1>1, <1>2, <1>3 DEF ThreadOK, TypeOK, Asking, LeaderPCs, WaitingPCs
<1>6. ASSUME NEW u \in Threads \ {t} PROVE ThreadOK(u)'
    <2>1. /\ pc'[u] = pc[u] /\ key'[u] = key[u] /\ seen'[u] = seen[u] /\ mine'[u] = mine[u]
          /\ registryLock # u
        BY Zenon, <1>0, <1>1, <1>3 DEF TypeOK
    <2>2. pc[u] \notin Asking
        BY Zenon, <2>1 DEF IInv, ThreadsOK, ThreadOK
    <2>3. pc[u] \in LeaderPCs => registry'[key[u]] = registry[key[u]]
        <3>1. pc[u] \in LeaderPCs => key[u] \in Keys
            BY Zenon, LeaderOf
        <3> QED BY Zenon, <1>0, <1>1, <1>4, <3>1 DEF TypeOK
    <2>4. pc[u] \in WaitingPCs =>
              \/ state'[mine[u]].outcome # nothing
              \/ /\ state'[mine[u]].outcome = state[mine[u]].outcome
                 /\ registry'[key[u]] = registry[key[u]]
        <3> SUFFICES ASSUME pc[u] \in WaitingPCs, state[mine[u]].outcome = nothing
                     PROVE  /\ state'[mine[u]].outcome = state[mine[u]].outcome
                            /\ registry'[key[u]] = registry[key[u]]
            <4>1. pc[u] \in WaitingPCs => mine[u] \in Flights
                BY Zenon DEF IInv, ThreadsOK, ThreadOK
            <4> QED BY Zenon, <1>0, <1>1, <1>2, <4>1 DEF TypeOK
        <3>1. key[u] \in Keys /\ mine[u] \in Flights /\ registry[key[u]] = mine[u]
            BY Zenon DEF IInv, ThreadsOK, ThreadOK, WaitingPCs
        <3>2. key[u] # key[t]
            BY Zenon, <1>0, <3>1, FlightCoordinatorAssumption
        <3> QED BY Zenon, <1>0, <1>1, <1>2, <3>1, <3>2 DEF TypeOK
    <2> QED BY Zenon, <2>1, <2>2, <2>3, <2>4, OtherThread
<1>7. ThreadsOK'
    BY Zenon, <1>5, <1>6 DEF ThreadsOK
<1>8. OneLeads'
    BY Zenon, <1>0, <1>1, <1>3, <1>4 DEF IInv, OneLeads, TypeOK
<1>9. Registered'
    <2>1. ASSUME NEW k \in Keys, registry'[k] # None
          PROVE  /\ state'[registry'[k]].outcome = nothing
                 /\ \E u \in Threads : pc'[u] \in LeaderPCs /\ key'[u] = k
        <3>1. CASE k = key[t]
            BY Zenon, <1>0, <1>1, <1>2, <1>3, <3>1 DEF TypeOK, LeaderPCs
        <3>2. CASE k # key[t]
            <4>1. registry'[k] = registry[k] /\ registry[k] # f
                BY Zenon, <1>0, <1>1, <1>2, <3>2 DEF TypeOK
            <4>2. registry[k] \in Flights /\ state[registry[k]].outcome = nothing
                BY SMTT(60), <2>1, <4>1 DEF IInv, TypeOK, Registered
            <4>3. PICK u \in Threads : pc[u] \in LeaderPCs /\ key[u] = k
                BY Zenon, <2>1, <4>1 DEF IInv, Registered
            <4>4. pc'[u] \in LeaderPCs /\ key'[u] = k
                BY Zenon, <1>0, <1>1, <1>3, <4>3 DEF TypeOK, LeaderPCs
            <4> QED BY Zenon, <1>0, <1>1, <4>1, <4>2, <4>4 DEF TypeOK
        <3> QED BY Zenon, <3>1, <3>2
    <2>2. ASSUME NEW k \in Keys, NEW l \in Keys, registry'[k] # None, registry'[k] = registry'[l]
          PROVE  k = l
        BY <1>0, <1>1, <1>2, <2>2 DEF IInv, Registered, TypeOK
    <2> QED BY Zenon, <2>1, <2>2 DEF Registered
<1> QED BY Zenon, <1>7, <1>8, <1>9 DEF IInv

\* What complete does to the flight, its session id and the leader.
LEMMA Publishes ==
    ASSUME IInv, NEW t \in Threads, complete(t)
    PROVE  LET f == mine[t]
           IN  /\ pc[t] = "completing_state" /\ registryLock = t /\ registryLock' = None
               /\ registry' = [registry EXCEPT ![key[t]] = None]
               /\ pc' = [pc EXCEPT ![t] = "idle"]
               /\ mine' = [mine EXCEPT ![t] = None]
               /\ key' = [key EXCEPT ![t] = None]
               /\ seen' = seen
               /\ \A g \in Flights \ {f} : state'[g] = state[g]
               /\ \E o \in Outcomes :
                     /\ given' = [given EXCEPT ![key[t]][t] = o]
                     /\ \A u \in Threads \ {t} : mine[u] = f => state'[f].outcome = o
<1>1. /\ pc[t] = "completing_state" /\ pc[t] \in LeaderPCs /\ registryLock = t /\ TypeOK
    BY Zenon DEF complete, IInv, ThreadsOK, ThreadOK, LeaderPCs
<1>2. /\ mine[t] \in Flights /\ key[t] \in Keys /\ registry[key[t]] = mine[t]
      /\ state[mine[t]].outcome = nothing
    BY Zenon, <1>1, LeaderOf
<1>3. PICK o \in Outcomes : /\ Leave(t, [state EXCEPT ![mine[t]].outcome = o])
                            /\ given' = [given EXCEPT ![key[t]][t] = o]
    BY Zenon, <1>2 DEF complete
<1> DEFINE st == [state EXCEPT ![mine[t]].outcome = o]
<1>4. st[mine[t]].outcome = o /\ \A g \in Flights \ {mine[t]} : st[g] = state[g]
    BY <1>1, <1>2 DEF TypeOK, FlightState
<1>5. DOMAIN st = Flights
    BY Zenon, <1>1 DEF TypeOK
<1> HIDE DEF st
<1>6. Leave(t, st)
    BY Zenon, <1>3 DEF st
<1>7. /\ \A g \in Flights \ {mine[t]} : state'[g] = state[g]
      /\ \A u \in Threads \ {t} : mine[u] = mine[t] => state'[mine[t]].outcome = o
    BY Zenon, <1>2, <1>4, <1>5, <1>6 DEF Leave
<1>8. /\ registryLock' = None /\ registry' = [registry EXCEPT ![key[t]] = None] /\ seen' = seen
    BY Zenon, <1>2 DEF complete
<1>9. /\ pc' = [pc EXCEPT ![t] = "idle"] /\ mine' = [mine EXCEPT ![t] = None]
      /\ key' = [key EXCEPT ![t] = None]
    BY Zenon, <1>6 DEF Leave, Goto
<1> QED BY Zenon, <1>1, <1>3, <1>7, <1>8, <1>9

LEMMA CompleteStep ==
    ASSUME IInv, TypeOK', NEW t \in Threads, complete(t)
    PROVE  IInv'
<1>1. /\ pc[t] = "completing_state" /\ registryLock = t /\ registryLock' = None
      /\ registry' = [registry EXCEPT ![key[t]] = None]
      /\ pc' = [pc EXCEPT ![t] = "idle"]
      /\ mine' = [mine EXCEPT ![t] = None]
      /\ key' = [key EXCEPT ![t] = None]
      /\ seen' = seen
      /\ \A g \in Flights \ {mine[t]} : state'[g] = state[g]
      /\ \A u \in Threads \ {t} : mine[u] = mine[t] => state'[mine[t]].outcome \in Outcomes
    BY Zenon, Publishes
<1>2. pc[t] \in LeaderPCs /\ TypeOK
    BY Zenon, <1>1 DEF LeaderPCs, IInv
<1>3. /\ mine[t] \in Flights /\ key[t] \in Keys /\ registry[key[t]] = mine[t]
      /\ state[mine[t]].outcome = nothing
      /\ \A k \in Keys : registry[k] = mine[t] => k = key[t]
    BY Zenon, <1>2, LeaderOf
<1>4. ThreadOK(t)'
    BY Zenon, <1>1, <1>2 DEF ThreadOK, TypeOK, Asking, LeaderPCs, WaitingPCs
<1>5. ASSUME NEW u \in Threads \ {t}, pc[u] \in LeaderPCs PROVE key[u] # key[t]
    BY Zenon, <1>2, <1>5 DEF IInv, OneLeads
<1>6. ASSUME NEW u \in Threads \ {t} PROVE ThreadOK(u)'
    <2>1. /\ pc'[u] = pc[u] /\ key'[u] = key[u] /\ seen'[u] = seen[u] /\ mine'[u] = mine[u]
          /\ registryLock # u
        BY Zenon, <1>1, <1>2 DEF TypeOK
    <2>2. pc[u] \notin Asking
        BY Zenon, <2>1 DEF IInv, ThreadsOK, ThreadOK
    <2>3. pc[u] \in LeaderPCs => registry'[key[u]] = registry[key[u]]
        <3>1. pc[u] \in LeaderPCs => key[u] \in Keys
            BY Zenon, LeaderOf
        <3> QED BY Zenon, <1>1, <1>2, <1>5, <3>1 DEF TypeOK
    <2>4. pc[u] \in WaitingPCs =>
              \/ state'[mine[u]].outcome # nothing
              \/ /\ state'[mine[u]].outcome = state[mine[u]].outcome
                 /\ registry'[key[u]] = registry[key[u]]
        <3> SUFFICES ASSUME pc[u] \in WaitingPCs
                     PROVE  \/ state'[mine[u]].outcome # nothing
                            \/ /\ state'[mine[u]].outcome = state[mine[u]].outcome
                               /\ registry'[key[u]] = registry[key[u]]
            OBVIOUS
        <3>1. key[u] \in Keys /\ mine[u] \in Flights
              /\ (state[mine[u]].outcome = nothing => registry[key[u]] = mine[u])
            BY Zenon DEF IInv, ThreadsOK, ThreadOK, WaitingPCs
        <3>2. CASE mine[u] = mine[t]
            BY Zenon, <1>1, <3>2, FlightCoordinatorAssumption
        <3>3. CASE mine[u] # mine[t]
            BY Zenon, <1>1, <1>2, <1>3, <3>1, <3>3 DEF TypeOK
        <3> QED BY Zenon, <3>2, <3>3
    <2> QED BY Zenon, <2>1, <2>2, <2>3, <2>4, OtherThread
<1>7. ThreadsOK'
    BY Zenon, <1>4, <1>6 DEF ThreadsOK
<1>8. OneLeads'
    BY <1>1, <1>2 DEF IInv, OneLeads, TypeOK, LeaderPCs
<1>9. Registered'
    <2>1. ASSUME NEW k \in Keys, registry'[k] # None
          PROVE  /\ state'[registry'[k]].outcome = nothing
                 /\ \E u \in Threads : pc'[u] \in LeaderPCs /\ key'[u] = k
        <3>1. k # key[t] /\ registry'[k] = registry[k]
            BY Zenon, <1>1, <1>2, <2>1 DEF TypeOK
        <3>2. registry[k] \in Flights /\ state[registry[k]].outcome = nothing
            BY Zenon, <2>1, <3>1 DEF IInv, TypeOK, Registered
        <3>3. PICK u \in Threads : pc[u] \in LeaderPCs /\ key[u] = k
            BY Zenon, <2>1, <3>1 DEF IInv, Registered
        <3>4. u # t
            BY Zenon, <3>1, <3>3
        <3>5. pc'[u] \in LeaderPCs /\ key'[u] = k
            BY Zenon, <1>1, <1>2, <3>3, <3>4 DEF TypeOK
        <3>6. registry[k] # mine[t]
            BY Zenon, <1>3, <3>1
        <3> QED BY Zenon, <1>1, <3>1, <3>2, <3>5, <3>6
    <2>2. ASSUME NEW k \in Keys, NEW l \in Keys, registry'[k] # None, registry'[k] = registry'[l]
          PROVE  k = l
        BY <1>1, <1>2, <2>2 DEF IInv, Registered, TypeOK
    <2> QED BY Zenon, <2>1, <2>2 DEF Registered
<1> QED BY Zenon, <1>7, <1>8, <1>9 DEF IInv

\* A waiter that finds the outcome leaves; its flight is freed only if nobody has it.
LEMMA Leaves ==
    ASSUME IInv, NEW t \in Threads, CheckOutcome(t), state[mine[t]].outcome # nothing
    PROVE  /\ pc[t] \in {"joined_check", "closing_check"} /\ mine[t] \in Flights /\ key[t] \in Keys
           /\ pc' = [pc EXCEPT ![t] = "idle"] /\ mine' = [mine EXCEPT ![t] = None]
           /\ key' = [key EXCEPT ![t] = None] /\ UNCHANGED <<registryLock, registry, seen>>
           /\ \A g \in Flights : (\E u \in Threads \ {t} : mine[u] = g) \/ g # mine[t] =>
                  state'[g] = state[g]
           /\ given' = IF pc[t] = "joined_check"
                       THEN [given EXCEPT ![key[t]][t] = state[mine[t]].outcome] ELSE given
           /\ \A k \in Keys : registry[k] # mine[t]
<1>1. /\ pc[t] \in {"joined_check", "closing_check"} /\ mine[t] \in Flights /\ key[t] \in Keys
    BY Zenon DEF CheckOutcome, IInv, ThreadsOK, ThreadOK, WaitingPCs
<1>2. Leave(t, state) /\ UNCHANGED <<registryLock, registry, seen>>
    BY Zenon DEF CheckOutcome
<1>3. \A g \in Flights : (\E u \in Threads \ {t} : mine[u] = g) \/ g # mine[t] =>
          state'[g] = state[g]
    BY Zenon, <1>1, <1>2 DEF Leave, IInv, TypeOK
<1>4. \A k \in Keys : registry[k] # mine[t]
    BY <1>1, FlightCoordinatorAssumption DEF IInv, Registered
<1>5. given' = IF pc[t] = "joined_check"
               THEN [given EXCEPT ![key[t]][t] = state[mine[t]].outcome] ELSE given
    BY Zenon DEF CheckOutcome
<1> QED BY Zenon, <1>1, <1>2, <1>3, <1>4, <1>5 DEF Leave, Goto

LEMMA WaitingStep ==
    ASSUME IInv, TypeOK', NEW t \in Threads,
           WaitOutcome(t) \/ Wake(t) \/ SpuriousWake(t) \/ CheckOutcome(t)
    PROVE  IInv'
<1>0. TypeOK /\ ThreadOK(t)
    BY Zenon DEF IInv, ThreadsOK
<1>1. CASE \/ WaitOutcome(t) \/ Wake(t) \/ SpuriousWake(t)
           \/ CheckOutcome(t) /\ state[mine[t]].outcome = nothing
    <2>1. /\ pc[t] \in WaitingPCs /\ \E n \in WaitingPCs : pc' = [pc EXCEPT ![t] = n]
          /\ UNCHANGED <<registryLock, registry, state, key, seen, mine>>
        BY Zenon, <1>1 DEF WaitOutcome, Wake, SpuriousWake, Relock, LockState, CheckOutcome, Goto, Then,
                    WaitingPCs
    <2>2. pc'[t] \in WaitingPCs
        BY Zenon, <1>0, <2>1 DEF TypeOK
    <2>3. ThreadOK(t)'
        BY Zenon, <1>0, <2>1, <2>2 DEF ThreadOK, Asking, LeaderPCs, WaitingPCs
    <2> QED BY Zenon, <1>0, <2>1, <2>2, <2>3, QuietStep DEF TypeOK, LeaderPCs, WaitingPCs
<1>2. CASE CheckOutcome(t) /\ state[mine[t]].outcome # nothing
    <2>1. /\ pc[t] \in {"joined_check", "closing_check"} /\ mine[t] \in Flights /\ key[t] \in Keys
          /\ pc' = [pc EXCEPT ![t] = "idle"] /\ mine' = [mine EXCEPT ![t] = None]
          /\ key' = [key EXCEPT ![t] = None] /\ UNCHANGED <<registryLock, registry, seen>>
          /\ \A g \in Flights : (\E u \in Threads \ {t} : mine[u] = g) \/ g # mine[t] =>
                 state'[g] = state[g]
          /\ \A k \in Keys : registry[k] # mine[t]
        BY ZenonT(60), <1>2, Leaves
    <2>2. ThreadOK(t)'
        BY Zenon, <1>0, <2>1 DEF ThreadOK, TypeOK, Asking, LeaderPCs, WaitingPCs
    <2>3. ASSUME NEW u \in Threads \ {t} PROVE ThreadOK(u)'
        <3>1. /\ pc'[u] = pc[u] /\ key'[u] = key[u] /\ seen'[u] = seen[u] /\ mine'[u] = mine[u]
            BY Zenon, <1>0, <2>1 DEF TypeOK
        <3>2. pc[u] \in WaitingPCs => mine[u] \in Flights
            BY Zenon DEF IInv, ThreadsOK, ThreadOK
        <3>3. pc[u] \in WaitingPCs => state'[mine[u]] = state[mine[u]]
            BY Zenon, <2>1, <3>2
        <3> QED BY Zenon, <2>1, <3>1, <3>3, OtherThread
    <2>4. ThreadsOK'
        BY Zenon, <2>2, <2>3 DEF ThreadsOK
    <2>5. OneLeads'
        BY SMTT(60), <1>0, <2>1 DEF IInv, OneLeads, TypeOK, LeaderPCs
    <2>6. Registered'
        <3>1. ASSUME NEW k \in Keys, registry[k] # None
              PROVE  /\ state'[registry[k]].outcome = nothing
                     /\ \E u \in Threads : pc'[u] \in LeaderPCs /\ key'[u] = k
            <4>1. registry[k] \in Flights /\ state[registry[k]].outcome = nothing
                BY <3>1 DEF IInv, TypeOK, Registered
            <4>2. PICK u \in Threads : pc[u] \in LeaderPCs /\ key[u] = k
                BY Zenon, <3>1 DEF IInv, Registered
            <4>3. pc'[u] \in LeaderPCs /\ key'[u] = k
                BY Zenon, <1>0, <2>1, <4>2 DEF TypeOK, LeaderPCs
            <4> QED BY Zenon, <2>1, <4>1, <4>3
        <3> QED BY Zenon, <2>1, <3>1 DEF IInv, Registered
    <2> QED BY Zenon, <2>4, <2>5, <2>6 DEF IInv
<1> QED BY Zenon, <1>1, <1>2

LEMMA NextIInv ==
    IInv /\ [Next]_vars => IInv'
<1> SUFFICES ASSUME IInv, [Next]_vars PROVE IInv'
    OBVIOUS
<1>1. TypeOK'
    BY Zenon, NextType
<1>2. CASE UNCHANGED vars
    BY Zenon, <1>2 DEF vars, IInv, TypeOK, ThreadsOK, ThreadOK, Registered, OneLeads
<1>3. ASSUME NEW t \in Threads, Acquiring(t) \/ Leading(t) \/ Waiting(t) \/ SpuriousWake(t)
      PROVE  IInv'
    BY Zenon, <1>1, <1>3, QuietActions, LeadStep, CompleteStep, WaitingStep
       DEF Acquiring, Leading, Waiting
<1> QED BY Zenon, <1>2, <1>3 DEF Next

-----------------------------------------------------------------------------
(* The refinement.                                                         *)

LEMMA Shape ==
    ASSUME NEW k \in Keys
    PROVE  /\ RoleIn(k) = [u \in Threads |-> RoleIn(k)[u]]
           /\ AskedIn(k) = [u \in Threads |-> AskedIn(k)[u]]
           /\ GotIn(k) = [u \in Threads |-> GotIn(k)[u]]
           /\ RoleIn(k)' = [u \in Threads |-> RoleIn(k)'[u]]
           /\ AskedIn(k)' = [u \in Threads |-> AskedIn(k)'[u]]
           /\ GotIn(k)' = [u \in Threads |-> GotIn(k)'[u]]
BY Zenon DEF RoleIn, AskedIn, GotIn

\* What the callers of k see of thread u stays.
Same(k, u) ==
    RoleIn(k)'[u] = RoleIn(k)[u] /\ AskedIn(k)'[u] = AskedIn(k)[u] /\ GotIn(k)'[u] = GotIn(k)[u]

LEMMA SameView ==
    ASSUME NEW k \in Keys, NEW u \in Threads,
           pc'[u] = pc[u], key'[u] = key[u], seen'[u] = seen[u], mine'[u] = mine[u],
           given'[k][u] = given[k][u],
           pc[u] \in WaitingPCs /\ key[u] = k => state'[mine[u]].outcome = state[mine[u]].outcome
    PROVE  Same(k, u)
BY DEF Same, RoleIn, AskedIn, GotIn, Then, LeaderPCs, WaitingPCs

LEMMA StutterView ==
    ASSUME NEW k \in Keys, \A u \in Threads : Same(k, u), AcceptedIn(k)' = AcceptedIn(k)
    PROVE  [Promise(k)!FlightNext]_(Promise(k)!flightSpecVars)
<1>1. RoleIn(k)' = RoleIn(k)
    BY Zenon, Shape DEF Same
<1>2. AskedIn(k)' = AskedIn(k)
    BY Zenon, Shape DEF Same
<1>3. GotIn(k)' = GotIn(k)
    BY Zenon, Shape DEF Same
<1> QED BY Zenon, <1>1, <1>2, <1>3 DEF Promise!flightSpecVars

\* A thread the callers of k do not see, before and after a step.
LEMMA Unseen ==
    ASSUME NEW k \in Keys, NEW t \in Threads, key[t] # k, key'[t] # k,
           given'[k][t] = given[k][t]
    PROVE  Same(k, t)
BY Zenon DEF Same, RoleIn, AskedIn, GotIn

LEMMA AskRefines ==
    ASSUME IInv, NEW t \in Threads, Acquire(t), NEW k \in Keys
    PROVE  [Promise(k)!FlightNext]_(Promise(k)!flightSpecVars)
<1>1. PICK l \in Keys, v \in Versions :
          key' = [key EXCEPT ![t] = l] /\ seen' = [seen EXCEPT ![t] = v]
    BY Zenon DEF Acquire
<1>2. /\ TypeOK /\ pc[t] = "idle" /\ key[t] = None /\ pc' = [pc EXCEPT ![t] = "acquire"]
      /\ UNCHANGED <<registry, state, mine, given>>
    BY Zenon DEF Acquire, Goto, IInv, ThreadsOK, ThreadOK
<1>3. ASSUME NEW u \in Threads \ {t} PROVE Same(k, u)
    BY Zenon, <1>1, <1>2, SameView DEF TypeOK
<1>4. AcceptedIn(k)' = AcceptedIn(k)
    BY Zenon, <1>2 DEF AcceptedIn
<1>5. CASE k # l
    <2>1. key[t] # k /\ key'[t] # k
        BY Zenon, <1>1, <1>2, <1>5, FlightCoordinatorAssumption DEF TypeOK
    <2>2. Same(k, t)
        BY Zenon, <1>2, <2>1, Unseen
    <2> QED BY Zenon, <1>3, <1>4, <2>2, StutterView
<1>6. CASE k = l
    <2>1. /\ RoleIn(k)[t] = "none" /\ RoleIn(k)'[t] = "none"
          /\ AskedIn(k)[t] = {} /\ AskedIn(k)'[t] = {v}
          /\ GotIn(k)'[t] = GotIn(k)[t]
        BY Zenon, <1>1, <1>2, <1>6 DEF RoleIn, AskedIn, GotIn, TypeOK, LeaderPCs, WaitingPCs
    <2>2. AskedIn(k)' = [AskedIn(k) EXCEPT ![t] = {v}]
        BY Zenon, <1>3, <2>1, Shape DEF Same
    <2>3. RoleIn(k)' = RoleIn(k)
        BY <1>3, <2>1, Shape DEF Same
    <2>4. GotIn(k)' = GotIn(k)
        BY SMTT(60), <1>3, <2>1, Shape DEF Same
    <2>5. Promise(k)!ask(t, v)
        BY Zenon, <1>4, <2>1, <2>2, <2>3, <2>4 DEF Promise!ask
    <2> QED BY Zenon, <2>5 DEF Promise!FlightNext
<1> QED BY Zenon, <1>5, <1>6

\* Who leads in the eyes of the callers of k.
LEMMA Led ==
    ASSUME IInv, NEW k \in Keys
    PROVE  (\E u \in Threads : RoleIn(k)[u] = "leader") <=> registry[k] # None
<1>1. ASSUME NEW u \in Threads, RoleIn(k)[u] = "leader" PROVE registry[k] # None
    <2>1. key[u] = k /\ pc[u] \in LeaderPCs
        BY Zenon, <1>1 DEF RoleIn, Then
    <2> QED BY <2>1, LeaderOf, FlightCoordinatorAssumption
<1>2. ASSUME registry[k] # None PROVE \E u \in Threads : RoleIn(k)[u] = "leader"
    <2>1. PICK u \in Threads : pc[u] \in LeaderPCs /\ key[u] = k
        BY Zenon, <1>2 DEF IInv, Registered
    <2>2. RoleIn(k)[u] = "leader"
        BY Zenon, <2>1 DEF RoleIn
    <2> QED BY Zenon, <2>2
<1> QED BY Zenon, <1>1, <1>2

LEMMA AcquireNewRefines ==
    ASSUME IInv, NEW t \in Threads, AcquireNew(t), NEW k \in Keys
    PROVE  [Promise(k)!FlightNext]_(Promise(k)!flightSpecVars)
<1>1. /\ TypeOK /\ pc[t] = "acquire" /\ key[t] \in Keys /\ registry[key[t]] = None
      /\ key' = key /\ seen' = [seen EXCEPT ![t] = None]
      /\ given' = [given EXCEPT ![key[t]][t] = nothing]
    BY Zenon DEF AcquireNew, Acquired, IInv, ThreadsOK, ThreadOK
<1>2. PICK f \in Unused :
          /\ state' = [state EXCEPT ![f] = [accepted_versions |-> {seen[t]}, outcome |-> nothing]]
          /\ registry' = [registry EXCEPT ![key[t]] = f]
          /\ mine' = [mine EXCEPT ![t] = f]
          /\ pc' = [pc EXCEPT ![t] = "leading"]
    BY Zenon DEF AcquireNew, Lead, Goto
<1>3. /\ f \in Flights /\ f # None
      /\ \A u \in Threads : mine[u] # f
      /\ \A l \in Keys : registry[l] # f
    BY Zenon, FlightCoordinatorAssumption DEF Unused
<1>4. \A l \in Keys, u \in Threads : l # key[t] \/ u # t => given'[l][u] = given[l][u]
    BY Zenon, <1>1 DEF TypeOK
<1>5. given'[key[t]][t] = nothing
    BY Zenon, <1>1 DEF TypeOK
<1>6. \A g \in Flights \ {f} : state'[g] = state[g]
    BY Zenon, <1>1, <1>2 DEF TypeOK
<1>7. ASSUME NEW u \in Threads \ {t} PROVE Same(k, u)
    <2>1. /\ pc'[u] = pc[u] /\ key'[u] = key[u] /\ seen'[u] = seen[u] /\ mine'[u] = mine[u]
          /\ given'[k][u] = given[k][u]
        BY Zenon, <1>1, <1>2, <1>4 DEF TypeOK
    <2>2. pc[u] \in WaitingPCs => state'[mine[u]].outcome = state[mine[u]].outcome
        <3>1. pc[u] \in WaitingPCs => mine[u] \in Flights
            BY Zenon DEF IInv, ThreadsOK, ThreadOK
        <3> QED BY Zenon, <1>3, <1>6, <3>1
    <2> QED BY Zenon, <2>1, <2>2, SameView
<1>8. CASE k # key[t]
    <2>1. Same(k, t)
        BY Zenon, <1>1, <1>4, <1>8, Unseen
    <2>2. AcceptedIn(k)' = AcceptedIn(k)
        <3>1. registry'[k] = registry[k] /\ registry[k] # f
            BY Zenon, <1>1, <1>2, <1>3, <1>8 DEF TypeOK
        <3>2. registry[k] # None => state'[registry[k]] = state[registry[k]]
            BY Zenon, <1>1, <1>6, <3>1 DEF TypeOK
        <3> QED BY Zenon, <3>1, <3>2 DEF AcceptedIn
    <2> QED BY Zenon, <1>7, <2>1, <2>2, StutterView
<1>9. CASE k = key[t]
    <2>1. /\ AskedIn(k)[t] = {seen[t]} /\ AskedIn(k)'[t] = {}
          /\ RoleIn(k)'[t] = "leader" /\ GotIn(k)'[t] = nothing
        BY Zenon, <1>1, <1>2, <1>5, <1>9
           DEF AskedIn, RoleIn, GotIn, TypeOK, LeaderPCs, WaitingPCs
    <2>2. AcceptedIn(k)' = {seen[t]}
        <3>1. registry'[k] = f /\ state'[f].accepted_versions = {seen[t]}
            BY Zenon, <1>1, <1>2, <1>3, <1>9 DEF TypeOK
        <3> QED BY Zenon, <1>3, <3>1 DEF AcceptedIn
    <2>3. ~ \E u \in Threads : RoleIn(k)[u] = "leader"
        BY Zenon, <1>1, <1>9, Led
    <2>4. AskedIn(k)' = [AskedIn(k) EXCEPT ![t] = {}]
        BY Zenon, <1>7, <2>1, Shape DEF Same
    <2>5. RoleIn(k)' = [RoleIn(k) EXCEPT ![t] = "leader"]
        BY Zenon, <1>7, <2>1, Shape DEF Same
    <2>6. GotIn(k)' = [GotIn(k) EXCEPT ![t] = nothing]
        BY Zenon, <1>7, <2>1, Shape DEF Same
    <2>7. Promise(k)!acquire(t)
        BY Zenon, <2>1, <2>2, <2>3, <2>4, <2>5, <2>6 DEF Promise!acquire, Promise!nothing, nothing
    <2> QED BY Zenon, <2>7 DEF Promise!FlightNext
<1> QED BY Zenon, <1>8, <1>9

LEMMA JoinRefines ==
    ASSUME IInv, NEW t \in Threads, AcquireState(t), NEW k \in Keys
    PROVE  [Promise(k)!FlightNext]_(Promise(k)!flightSpecVars)
<1> DEFINE f == registry[key[t]]
           accepted == seen[t] \in state[f].accepted_versions
<1>1. /\ TypeOK /\ pc[t] = "acquire_state" /\ key[t] \in Keys /\ f \in Flights
      /\ state[f].outcome = nothing
      /\ mine' = [mine EXCEPT ![t] = f]
      /\ pc' = [pc EXCEPT ![t] = IF accepted THEN "joined" ELSE "closing"]
      /\ UNCHANGED <<registry, state, key>>
      /\ seen' = [seen EXCEPT ![t] = None]
      /\ given' = [given EXCEPT ![key[t]][t] = nothing]
    BY Zenon, Joins DEF Goto, Acquired, AcquireState, IInv
<1>2. \A l \in Keys, u \in Threads : l # key[t] \/ u # t => given'[l][u] = given[l][u]
    BY Zenon, <1>1 DEF TypeOK
<1>3. given'[key[t]][t] = nothing
    BY Zenon, <1>1 DEF TypeOK
<1>4. ASSUME NEW u \in Threads \ {t} PROVE Same(k, u)
    <2>1. /\ pc'[u] = pc[u] /\ key'[u] = key[u] /\ seen'[u] = seen[u] /\ mine'[u] = mine[u]
          /\ given'[k][u] = given[k][u] /\ state' = state
        BY Zenon, <1>1, <1>2 DEF TypeOK
    <2> QED BY Zenon, <2>1, SameView
<1>5. AcceptedIn(k)' = AcceptedIn(k)
    BY Zenon, <1>1 DEF AcceptedIn
<1>6. CASE k # key[t]
    <2>1. Same(k, t)
        BY Zenon, <1>1, <1>2, <1>6, Unseen
    <2> QED BY Zenon, <1>4, <1>5, <2>1, StutterView
<1>7. CASE k = key[t]
    <2>1. f # None
        BY Zenon, <1>1, FlightCoordinatorAssumption
    <2>2. AcceptedIn(k) = state[f].accepted_versions
        BY Zenon, <2>1, <1>7 DEF AcceptedIn
    <2>3. pc'[t] = (IF accepted THEN "joined" ELSE "closing") /\ mine'[t] = f /\ key'[t] = k
          /\ state'[mine'[t]].outcome = nothing
        BY Zenon, <1>1, <1>7 DEF TypeOK
    <2>4. /\ AskedIn(k)[t] = {seen[t]} /\ AskedIn(k)'[t] = {}
          /\ GotIn(k)'[t] = nothing
          /\ RoleIn(k)'[t] = IF accepted THEN "joined" ELSE "closing"
        <3>1. AskedIn(k)[t] = {seen[t]}
            BY Zenon, <1>1, <1>7 DEF AskedIn
        <3> HIDE DEF accepted, f
        <3>2. AskedIn(k)'[t] = {}
            BY Zenon, <2>3 DEF AskedIn
        <3>3. GotIn(k)'[t] = nothing
            BY Zenon, <2>3, <1>3, <1>7 DEF GotIn
        <3>4. RoleIn(k)'[t] = IF accepted THEN "joined" ELSE "closing"
            BY Zenon, <2>3 DEF RoleIn, LeaderPCs, WaitingPCs, Then
        <3> QED BY Zenon, <3>1, <3>2, <3>3, <3>4
    <2>5. \E u \in Threads : RoleIn(k)[u] = "leader"
        BY Zenon, <1>7, <2>1, Led
    <2>6. accepted <=> AskedIn(k)[t] \subseteq AcceptedIn(k)
        BY Zenon, <2>2, <2>4
    <2>7. AskedIn(k)' = [AskedIn(k) EXCEPT ![t] = {}]
        BY Zenon, <1>4, <2>4, Shape DEF Same
    <2>8. RoleIn(k)' = [RoleIn(k) EXCEPT ![t] = IF accepted THEN "joined" ELSE "closing"]
        BY Zenon, <1>4, <2>4, Shape DEF Same
    <2>9. GotIn(k)' = [GotIn(k) EXCEPT ![t] = nothing]
        BY Zenon, <1>4, <2>4, Shape DEF Same
    <2>10. AskedIn(k)[t] # {}
        BY Zenon, <2>4
    <2> HIDE DEF accepted
    <2>11. Promise(k)!acquire(t)
        BY Zenon, <1>5, <2>5, <2>6, <2>7, <2>8, <2>9, <2>10
           DEF Promise!acquire, Promise!nothing, nothing
    <2> QED BY Zenon, <2>11 DEF Promise!FlightNext
<1> QED BY Zenon, <1>6, <1>7

LEMMA AliasRefines ==
    ASSUME IInv, NEW t \in Threads, add_alias(t), NEW k \in Keys
    PROVE  [Promise(k)!FlightNext]_(Promise(k)!flightSpecVars)
<1>1. /\ TypeOK /\ pc[t] = "alias" /\ pc[t] \in LeaderPCs
      /\ pc' = [pc EXCEPT ![t] = "leading"] /\ UNCHANGED <<registry, key, seen, mine, given>>
    BY Zenon DEF add_alias, Goto, IInv, LeaderPCs
<1>2. /\ mine[t] \in Flights /\ key[t] \in Keys /\ registry[key[t]] = mine[t]
      /\ state[mine[t]].outcome = nothing
      /\ \A l \in Keys : registry[l] = mine[t] => l = key[t]
    BY Zenon, <1>1, LeaderOf
<1>3. PICK v \in Versions : state' = [state EXCEPT ![mine[t]].accepted_versions = @ \cup {v}]
    BY Zenon, <1>2 DEF add_alias
<1>4. /\ \A g \in Flights : state'[g].outcome = state[g].outcome
      /\ \A g \in Flights \ {mine[t]} : state'[g] = state[g]
      /\ state'[mine[t]].accepted_versions = state[mine[t]].accepted_versions \cup {v}
    BY <1>1, <1>2, <1>3 DEF TypeOK, FlightState
<1>5. ASSUME NEW u \in Threads \ {t} PROVE Same(k, u)
    <2>1. /\ pc'[u] = pc[u] /\ key'[u] = key[u] /\ seen'[u] = seen[u] /\ mine'[u] = mine[u]
          /\ given'[k][u] = given[k][u]
        BY Zenon, <1>1 DEF TypeOK
    <2>2. pc[u] \in WaitingPCs => state'[mine[u]].outcome = state[mine[u]].outcome
        BY Zenon, <1>4 DEF IInv, ThreadsOK, ThreadOK
    <2> QED BY Zenon, <2>1, <2>2, SameView
<1>6. Same(k, t)
    BY Zenon, <1>1 DEF Same, RoleIn, AskedIn, GotIn, TypeOK, LeaderPCs, WaitingPCs
<1>7. CASE k # key[t]
    <2>1. AcceptedIn(k)' = AcceptedIn(k)
        BY Zenon, <1>1, <1>2, <1>4, <1>7 DEF AcceptedIn, TypeOK
    <2> QED BY Zenon, <1>5, <1>6, <2>1, StutterView
<1>8. CASE k = key[t]
    <2>1. AcceptedIn(k)' = AcceptedIn(k) \cup {v}
        BY Zenon, <1>1, <1>2, <1>4, <1>8, FlightCoordinatorAssumption DEF AcceptedIn
    <2>2. RoleIn(k)[t] = "leader"
        BY Zenon, <1>1, <1>8 DEF RoleIn
    <2>3. RoleIn(k)' = RoleIn(k) /\ AskedIn(k)' = AskedIn(k) /\ GotIn(k)' = GotIn(k)
        <3>1. RoleIn(k)' = RoleIn(k)
            BY <1>5, <1>6, Shape DEF Same
        <3>2. AskedIn(k)' = AskedIn(k)
            BY <1>5, <1>6, Shape DEF Same
        <3>3. GotIn(k)' = GotIn(k)
            BY <1>5, <1>6, Shape DEF Same
        <3> QED BY Zenon, <3>1, <3>2, <3>3
    <2>4. Promise(k)!add_alias(t, v)
        BY Zenon, <2>1, <2>2, <2>3 DEF Promise!add_alias
    <2> QED BY Zenon, <2>4 DEF Promise!FlightNext
<1> QED BY Zenon, <1>7, <1>8

LEMMA CompleteRefines ==
    ASSUME IInv, NEW t \in Threads, complete(t), NEW k \in Keys
    PROVE  [Promise(k)!FlightNext]_(Promise(k)!flightSpecVars)
<1>1. PICK o \in Outcomes :
          /\ pc[t] = "completing_state"
          /\ registry' = [registry EXCEPT ![key[t]] = None]
          /\ pc' = [pc EXCEPT ![t] = "idle"]
          /\ mine' = [mine EXCEPT ![t] = None]
          /\ key' = [key EXCEPT ![t] = None]
          /\ seen' = seen
          /\ \A g \in Flights \ {mine[t]} : state'[g] = state[g]
          /\ given' = [given EXCEPT ![key[t]][t] = o]
          /\ \A u \in Threads \ {t} : mine[u] = mine[t] => state'[mine[t]].outcome = o
    BY ZenonT(60), Publishes
<1>2. TypeOK /\ pc[t] \in LeaderPCs
    BY Zenon, <1>1 DEF IInv, LeaderPCs
<1>3. /\ mine[t] \in Flights /\ key[t] \in Keys /\ registry[key[t]] = mine[t]
      /\ state[mine[t]].outcome = nothing
      /\ \A l \in Keys : registry[l] = mine[t] => l = key[t]
      /\ \A u \in Threads : pc[u] \in WaitingPCs /\ mine[u] = mine[t] => key[u] = key[t]
    BY Zenon, <1>2, LeaderOf
<1>4. \A l \in Keys, u \in Threads : l # key[t] \/ u # t => given'[l][u] = given[l][u]
    BY Zenon, <1>1, <1>2 DEF TypeOK
<1>5. given'[key[t]][t] = o
    BY Zenon, <1>1, <1>2, <1>3 DEF TypeOK
<1>6. ASSUME NEW u \in Threads \ {t}
      PROVE  /\ pc'[u] = pc[u] /\ key'[u] = key[u] /\ seen'[u] = seen[u] /\ mine'[u] = mine[u]
             /\ given'[k][u] = given[k][u]
             /\ pc[u] \in WaitingPCs => mine[u] \in Flights
    BY SMTT(60), <1>1, <1>2, <1>4 DEF TypeOK, IInv, ThreadsOK, ThreadOK
<1>7. CASE k # key[t]
    <2>1. ASSUME NEW u \in Threads \ {t} PROVE Same(k, u)
        <3>1. pc[u] \in WaitingPCs /\ key[u] = k =>
                  state'[mine[u]].outcome = state[mine[u]].outcome
            BY Zenon, <1>1, <1>3, <1>6, <1>7
        <3> QED BY Zenon, <1>6, <3>1, SameView
    <2>2. Same(k, t)
        <3>1. key[t] # k /\ key'[t] # k /\ given'[k][t] = given[k][t]
            BY Zenon, <1>1, <1>2, <1>4, <1>7, FlightCoordinatorAssumption DEF TypeOK
        <3> QED BY Zenon, <3>1, Unseen
    <2>3. AcceptedIn(k)' = AcceptedIn(k)
        <3>1. registry'[k] = registry[k] /\ registry[k] # mine[t]
            BY Zenon, <1>1, <1>2, <1>3, <1>7 DEF TypeOK
        <3>2. registry[k] # None => state'[registry[k]] = state[registry[k]]
            BY Zenon, <1>1, <1>2, <3>1 DEF TypeOK
        <3> QED BY Zenon, <3>1, <3>2 DEF AcceptedIn
    <2> QED BY <2>1, <2>2, <2>3, StutterView
<1>8. CASE k = key[t]
    <2>1. AcceptedIn(k)' = {}
        BY Zenon, <1>1, <1>2, <1>3, <1>8 DEF AcceptedIn, TypeOK
    <2>2. RoleIn(k)[t] = "leader"
        BY Zenon, <1>2, <1>8 DEF RoleIn
    <2>3. /\ RoleIn(k)'[t] = "none" /\ AskedIn(k)'[t] = {} /\ AskedIn(k)[t] = {}
          /\ GotIn(k)'[t] = o
        BY Zenon, <1>1, <1>2, <1>5, <1>8
           DEF RoleIn, AskedIn, GotIn, TypeOK, LeaderPCs, WaitingPCs
    <2>4. ASSUME NEW u \in Threads \ {t}
          PROVE  /\ RoleIn(k)'[u] = "none" /\ AskedIn(k)'[u] = AskedIn(k)[u]
                 /\ GotIn(k)'[u] = IF RoleIn(k)[u] \in {"leader", "joined"} THEN o
                                   ELSE GotIn(k)[u]
        <3>0. AskedIn(k)'[u] = AskedIn(k)[u]
            BY Zenon, <1>6 DEF AskedIn
        <3>1. CASE key[u] # k \/ pc[u] \notin LeaderPCs \cup WaitingPCs
            BY Zenon, <1>6, <3>0, <3>1 DEF RoleIn, GotIn
        <3>2. CASE key[u] = k /\ pc[u] \in LeaderPCs
            BY Zenon, <1>2, <1>8, <3>2 DEF IInv, OneLeads
        <3>3. CASE key[u] = k /\ pc[u] \in WaitingPCs /\ mine[u] = mine[t]
            <4>1. state'[mine'[u]].outcome = o /\ o # nothing /\ state[mine[u]].outcome = nothing
                BY <1>1, <1>3, <1>6, <3>3, FlightCoordinatorAssumption
            <4>2. pc[u] \notin LeaderPCs
                BY Zenon, <3>3 DEF LeaderPCs, WaitingPCs
            <4>3. RoleIn(k)'[u] = "none" /\ RoleIn(k)[u] = Then(u, "joined", "closing")
                BY Zenon, <1>6, <3>3, <4>1, <4>2 DEF RoleIn
            <4>4. GotIn(k)'[u] = IF Then(u, TRUE, FALSE) THEN o ELSE GotIn(k)[u]
                BY Zenon, <1>6, <3>3, <4>1 DEF GotIn, Then
            <4> QED BY Zenon, <3>0, <4>3, <4>4 DEF Then
        <3>4. CASE key[u] = k /\ pc[u] \in WaitingPCs /\ mine[u] # mine[t]
            <4>1. state[mine[u]].outcome # nothing
                BY SMTT(60), <1>3, <1>8, <3>4 DEF IInv, ThreadsOK, ThreadOK
            <4>2. state'[mine'[u]].outcome = state[mine[u]].outcome
                BY SMTT(60), <1>1, <1>6, <3>4
            <4>3. pc[u] \notin LeaderPCs
                BY Zenon, <3>4 DEF LeaderPCs, WaitingPCs
            <4>4. RoleIn(k)'[u] = "none" /\ RoleIn(k)[u] = "none"
                BY ZenonT(60), <1>6, <3>4, <4>1, <4>2, <4>3 DEF RoleIn
            <4>5. GotIn(k)'[u] = GotIn(k)[u]
                BY Zenon, <1>6, <3>4, <4>2 DEF GotIn, Then
            <4> QED BY Zenon, <3>0, <4>4, <4>5
        <3> QED BY Zenon, <3>1, <3>2, <3>3, <3>4
    <2>5. RoleIn(k)' = [u \in Threads |-> "none"]
        BY Zenon, <2>3, <2>4, Shape
    <2>6. AskedIn(k)' = AskedIn(k)
        <3>1. \A u \in Threads : AskedIn(k)'[u] = AskedIn(k)[u]
            BY Zenon, <2>3, <2>4
        <3>2. /\ AskedIn(k)' = [u \in Threads |-> AskedIn(k)'[u]]
              /\ AskedIn(k) = [u \in Threads |-> AskedIn(k)[u]]
            BY Zenon, Shape
        <3> QED BY ZenonT(60), <3>1, <3>2, Zenon
    <2>7. GotIn(k)' = [u \in Threads |-> IF RoleIn(k)[u] \in {"leader", "joined"} THEN o
                                         ELSE GotIn(k)[u]]
        <3>1. \A u \in Threads : GotIn(k)'[u] = IF RoleIn(k)[u] \in {"leader", "joined"} THEN o
                                                ELSE GotIn(k)[u]
            BY Zenon, <2>2, <2>3, <2>4
        <3>2. GotIn(k)' = [u \in Threads |-> GotIn(k)'[u]]
            BY Zenon, Shape
        <3> QED BY Zenon, <3>1, <3>2, Zenon
    <2>8. Promise(k)!complete(t, o)
        BY Zenon, <2>1, <2>2, <2>5, <2>6, <2>7 DEF Promise!complete
    <2> QED BY Zenon, <2>8 DEF Promise!FlightNext
<1> QED BY <1>7, <1>8

\* The other steps are not seen by any caller.
LEMMA OthersStutter ==
    ASSUME IInv, NEW t \in Threads, NEW k \in Keys,
           \/ AcquireExisting(t) \/ AddAlias(t) \/ Completing(t) \/ CompletingState(t)
           \/ WaitOutcome(t) \/ Wake(t) \/ SpuriousWake(t) \/ CheckOutcome(t)
    PROVE  [Promise(k)!FlightNext]_(Promise(k)!flightSpecVars)
<1>0. TypeOK
    BY Zenon DEF IInv
<1>1. CASE CheckOutcome(t) /\ state[mine[t]].outcome # nothing
    <2>1. /\ pc[t] \in {"joined_check", "closing_check"} /\ mine[t] \in Flights /\ key[t] \in Keys
          /\ pc' = [pc EXCEPT ![t] = "idle"] /\ mine' = [mine EXCEPT ![t] = None]
          /\ key' = [key EXCEPT ![t] = None] /\ UNCHANGED <<registryLock, registry, seen>>
          /\ \A g \in Flights : (\E u \in Threads \ {t} : mine[u] = g) \/ g # mine[t] =>
                 state'[g] = state[g]
          /\ given' = IF pc[t] = "joined_check"
                      THEN [given EXCEPT ![key[t]][t] = state[mine[t]].outcome] ELSE given
          /\ \A l \in Keys : registry[l] # mine[t]
        BY Zenon, <1>1, Leaves
    <2>2. \A u \in Threads, l \in Keys : u # t \/ l # key[t] => given'[l][u] = given[l][u]
        <3> DEFINE o == state[mine[t]].outcome
        <3>1. given' = given \/ given' = [given EXCEPT ![key[t]][t] = o]
            BY Zenon, <2>1
        <3> HIDE DEF o
        <3> QED BY SMTT(60), <1>0, <3>1 DEF TypeOK
    <2>3. given'[key[t]][t] = IF pc[t] = "joined_check" THEN state[mine[t]].outcome
                              ELSE given[key[t]][t]
        <3> DEFINE o == state[mine[t]].outcome
        <3>1. given' = IF pc[t] = "joined_check" THEN [given EXCEPT ![key[t]][t] = o] ELSE given
            BY Zenon, <2>1
        <3> HIDE DEF o
        <3>2. given'[key[t]][t] = IF pc[t] = "joined_check" THEN o ELSE given[key[t]][t]
            <4>1. given[key[t]] \in [Threads -> Outcomes \cup {nothing}] /\ DOMAIN given = Keys
                BY Zenon, <1>0, <2>1 DEF TypeOK
            <4>2. CASE pc[t] = "joined_check"
                BY Zenon, <2>1, <3>1, <4>1, <4>2
            <4>3. CASE pc[t] # "joined_check"
                BY Zenon, <3>1, <4>3
            <4> QED BY Zenon, <4>2, <4>3
        <3> QED BY Zenon, <3>2 DEF o
    <2>4. ASSUME NEW u \in Threads \ {t} PROVE Same(k, u)
        <3>1. /\ pc'[u] = pc[u] /\ key'[u] = key[u] /\ seen'[u] = seen[u] /\ mine'[u] = mine[u]
              /\ given'[k][u] = given[k][u]
            BY ZenonT(60), <1>0, <2>1, <2>2 DEF TypeOK
        <3>2. pc[u] \in WaitingPCs => mine[u] \in Flights
            BY Zenon DEF IInv, ThreadsOK, ThreadOK
        <3>3. pc[u] \in WaitingPCs => state'[mine[u]] = state[mine[u]]
            BY Zenon, <2>1, <3>2
        <3> QED BY ZenonT(60), <3>1, <3>3, SameView
    <2>5. Same(k, t)
        <3>1. pc'[t] = "idle" /\ key'[t] = None
            BY ZenonT(60), <1>0, <2>1 DEF TypeOK
        <3>2. CASE k # key[t]
            BY ZenonT(60), <2>2, <3>1, <3>2, Unseen, FlightCoordinatorAssumption
        <3>3. CASE k = key[t]
            <4>1. RoleIn(k)[t] = "none" /\ RoleIn(k)'[t] = "none"
                BY Zenon, <1>1, <2>1, <3>1 DEF RoleIn, LeaderPCs, WaitingPCs
            <4>2. AskedIn(k)[t] = {} /\ AskedIn(k)'[t] = {}
                BY Zenon, <2>1, <3>1 DEF AskedIn
            <4>3. GotIn(k)'[t] = given'[k][t]
                BY Zenon, <3>1 DEF GotIn, WaitingPCs
            <4>4. GotIn(k)[t] = IF pc[t] = "joined_check" THEN state[mine[t]].outcome
                                ELSE given[k][t]
                BY Zenon, <2>1, <3>3 DEF GotIn, WaitingPCs, Then
            <4> QED BY Zenon, <2>3, <3>3, <4>1, <4>2, <4>3, <4>4 DEF Same
        <3> QED BY Zenon, <3>2, <3>3
    <2>6. AcceptedIn(k)' = AcceptedIn(k)
        <3>1. registry[k] # None => registry[k] \in Flights /\ registry[k] # mine[t]
            BY Zenon, <1>0, <2>1 DEF TypeOK
        <3>2. registry[k] # None => state'[registry[k]] = state[registry[k]]
            BY Zenon, <2>1, <3>1
        <3> QED BY Zenon, <2>1, <3>2 DEF AcceptedIn
    <2> QED BY Zenon, <2>4, <2>5, <2>6, StutterView
<1>2. CASE \/ WaitOutcome(t) \/ Wake(t) \/ SpuriousWake(t)
           \/ CheckOutcome(t) /\ state[mine[t]].outcome = nothing
    <2>1. /\ \/ /\ pc[t] \in {"joined", "joined_check", "joined_wait"}
                /\ \E n \in {"joined_check", "joined_wait"} : pc' = [pc EXCEPT ![t] = n]
             \/ /\ pc[t] \in {"closing", "closing_check", "closing_wait"}
                /\ \E n \in {"closing_check", "closing_wait"} : pc' = [pc EXCEPT ![t] = n]
          /\ UNCHANGED <<registry, state, key, seen, mine, given>>
        BY Zenon, <1>2
           DEF WaitOutcome, Wake, SpuriousWake, Relock, LockState, CheckOutcome, Goto, Then
    <2>2. ASSUME NEW u \in Threads \ {t} PROVE Same(k, u)
        BY Zenon, <1>0, <2>1, SameView DEF TypeOK
    <2>3. Same(k, t)
        BY Zenon, <1>0, <2>1
           DEF Same, RoleIn, AskedIn, GotIn, Then, LeaderPCs, WaitingPCs, TypeOK
    <2>4. AcceptedIn(k)' = AcceptedIn(k)
        BY ZenonT(60), <2>1 DEF AcceptedIn
    <2> QED BY <2>2, <2>3, <2>4, StutterView
<1>3. CASE AcquireExisting(t) \/ AddAlias(t) \/ Completing(t) \/ CompletingState(t)
    <2>1. /\ \/ pc[t] = "acquire" /\ pc' = [pc EXCEPT ![t] = "acquire_state"]
             \/ pc[t] \in LeaderPCs /\ \E n \in LeaderPCs : pc' = [pc EXCEPT ![t] = n]
          /\ UNCHANGED <<registry, state, key, seen, mine, given>>
        BY ZenonT(60), <1>3
           DEF AcquireExisting, AddAlias, Completing, CompletingState, LockState, Goto,
                    LeaderPCs
    <2>2. ASSUME NEW u \in Threads \ {t} PROVE Same(k, u)
        BY Zenon, <1>0, <2>1, SameView DEF TypeOK
    <2>3. Same(k, t)
        BY ZenonT(60), <1>0, <2>1 DEF Same, RoleIn, AskedIn, GotIn, LeaderPCs, WaitingPCs, TypeOK
    <2>4. AcceptedIn(k)' = AcceptedIn(k)
        BY Zenon, <2>1 DEF AcceptedIn
    <2> QED BY <2>2, <2>3, <2>4, StutterView
<1> QED BY Zenon, <1>1, <1>2, <1>3

LEMMA NextRefines ==
    ASSUME IInv, [Next]_vars, NEW k \in Keys
    PROVE  [Promise(k)!FlightNext]_(Promise(k)!flightSpecVars)
<1>1. CASE UNCHANGED vars
    BY Zenon, <1>1 DEF vars, RoleIn, AskedIn, AcceptedIn, GotIn, Then, Promise!flightSpecVars
<1>2. ASSUME NEW t \in Threads, Acquiring(t) \/ Leading(t) \/ Waiting(t) \/ SpuriousWake(t)
      PROVE  [Promise(k)!FlightNext]_(Promise(k)!flightSpecVars)
    BY Zenon, <1>2, AskRefines, AcquireNewRefines, JoinRefines, AliasRefines, CompleteRefines,
       OthersStutter DEF Acquiring, Leading, Waiting
<1> QED BY Zenon, <1>1, <1>2 DEF Next

\* With its registry, two levels of mutexes and condition variables, flight.rs looks to the
\* callers of every session id like one flight whose outcome reaches all in one step
\* (FlightCoordinator::acquire, complete, add_alias, FlightWaiter::wait_outcome).
THEOREM FlightImplementsSpec ==
    Spec => ImplementsFlightSpec
<1>1. Init => \A k \in Keys : Promise(k)!FlightInit
    BY FlightCoordinatorAssumption
    DEF Init, Promise!FlightInit, RoleIn, AskedIn, AcceptedIn, GotIn, LeaderPCs, WaitingPCs,
        Promise!nothing, nothing
<1>2. IInv /\ [Next]_vars =>
          [\A k \in Keys : [Promise(k)!FlightNext]_(Promise(k)!flightSpecVars)]_vars
    BY Zenon, NextRefines
<1> QED BY <1>1, <1>2, InitIInv, NextIInv, PTL DEF Spec, ImplementsFlightSpec
=============================================================================
