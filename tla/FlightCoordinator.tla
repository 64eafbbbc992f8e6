-------------------------- MODULE FlightCoordinator --------------------------
(***************************************************************************)
(* src/src/flight.rs with its locks: the mutex of the registry, the mutex  *)
(* and the condition variable of each flight, and the leader's Drop.       *)
(*                                                                         *)
(* A step is what a thread does between two lock operations.  A condition  *)
(* variable may wake a thread for no reason; only a wake-up that was       *)
(* notified is sure to happen.  The registry maps the session ids (Keys),  *)
(* which share its mutex, to open flights.                                 *)
(***************************************************************************)
CONSTANTS
    Threads,      \* threads that run auth checks
    Keys,         \* session ids
    Versions,     \* ObservedVersion
    Outcomes,     \* FlightOutcome
    Flights,      \* flights that may be allocated at the same time
    None          \* no thread, session id, version or flight

\* No outcome yet.
nothing == "nothing"

ASSUME FlightCoordinatorAssumption ==
    /\ nothing \notin Outcomes
    /\ None \notin Threads \cup Keys \cup Versions \cup Flights

VARIABLES
    registryLock,  \* holder of the registry's mutex
    registry,      \* flight of each session id
    stateLock,     \* holder of each flight's mutex
    state,         \* FlightState of each flight
    pc,            \* where each thread is
    key,           \* session id it works on
    seen,          \* version it has observed
    mine,          \* the flight it leads or waits for
    asleep,        \* threads in Condvar::wait that nobody has notified
    given          \* history: outcome each thread has been given, per session id

vars == <<registryLock, registry, stateLock, state, pc, key, seen, mine,
          asleep, given>>

NoState == [accepted_versions |-> {}, outcome |-> nothing]

LeaderPCs  == {"leading", "alias", "completing", "completing_state"}
WaitingPCs == {"joined", "joined_check", "joined_wait",
               "closing", "closing_check", "closing_wait"}
PCs == {"idle", "acquire", "acquire_state"} \cup LeaderPCs \cup WaitingPCs

Init ==
    /\ registryLock = None
    /\ registry = [k \in Keys |-> None]
    /\ stateLock = [f \in Flights |-> None]
    /\ state = [f \in Flights |-> NoState]
    /\ pc = [t \in Threads |-> "idle"]
    /\ key = [t \in Threads |-> None]
    /\ seen = [t \in Threads |-> None]
    /\ mine = [t \in Threads |-> None]
    /\ asleep = {}
    /\ given = [k \in Keys |-> [t \in Threads |-> nothing]]

Goto(t, next) == pc' = [pc EXCEPT ![t] = next]

\* lock_unpoison on a flight's mutex, on the way to `next`.
LockState(t, f, next) ==
    /\ stateLock[f] = None
    /\ stateLock' = [stateLock EXCEPT ![f] = t]
    /\ Goto(t, next)

UnlockState(f) == stateLock' = [stateLock EXCEPT ![f] = None]

\* The thread is done with its flight; the last Arc<Flight> to go frees the state.
Leave(t, st) ==
    /\ state' = IF \E u \in Threads \ {t} : mine[u] = mine[t]
                THEN st ELSE [st EXCEPT ![mine[t]] = NoState]
    /\ Goto(t, "idle")
    /\ mine' = [mine EXCEPT ![t] = None]
    /\ key' = [key EXCEPT ![t] = None]

\* Condvar::notify_all of a flight.
notify_all(f) == asleep' = {u \in asleep : mine[u] # f}

-----------------------------------------------------------------------------
(* FlightCoordinator::acquire.                                             *)

\* The call, up to the registry's mutex.
Acquire(t) ==
    /\ pc[t] = "idle" /\ registryLock = None
    /\ \E k \in Keys, v \in Versions :
          /\ key' = [key EXCEPT ![t] = k]
          /\ seen' = [seen EXCEPT ![t] = v]
    /\ registryLock' = t
    /\ Goto(t, "acquire")
    /\ UNCHANGED <<registry, stateLock, state, mine, asleep, given>>

\* acquire returns: what t has observed is in the flight or not needed any more.
Acquired(t) ==
    /\ seen' = [seen EXCEPT ![t] = None]
    /\ given' = [given EXCEPT ![key[t]][t] = nothing]

\* Arc<Flight> that nobody holds: no thread and not the registry.
Unused == {f \in Flights : (\A t \in Threads : mine[t] # f) /\ (\A k \in Keys : registry[k] # f)}

\* A new flight takes the session's place in the registry.
Lead(t) ==
    \E f \in Unused :
        /\ state' = [state EXCEPT ![f] = [accepted_versions |-> {seen[t]}, outcome |-> nothing]]
        /\ registry' = [registry EXCEPT ![key[t]] = f]
        /\ mine' = [mine EXCEPT ![t] = f]
        /\ registryLock' = None
        /\ Goto(t, "leading")

AcquireNew(t) ==
    /\ pc[t] = "acquire" /\ registry[key[t]] = None
    /\ Lead(t)
    /\ Acquired(t)
    /\ UNCHANGED <<stateLock, key, asleep>>

AcquireExisting(t) ==
    /\ pc[t] = "acquire" /\ registry[key[t]] # None
    /\ LockState(t, registry[key[t]], "acquire_state")
    /\ UNCHANGED <<registryLock, registry, state, key, seen, mine, asleep, given>>

\* Does the flight work on the version this thread has seen?
accepts_Mutant(f, v) == TRUE

accepts(f, v) == v \in state[f].accepted_versions

\* Holding both mutexes: join the flight, or wait for it to close; a flight that has
\* an outcome is replaced.
AcquireState(t) ==
    LET f == registry[key[t]]
    IN  /\ pc[t] = "acquire_state"
        /\ UnlockState(f)
        /\ IF state[f].outcome = nothing
           THEN /\ mine' = [mine EXCEPT ![t] = f]
                /\ registryLock' = None
                /\ IF accepts(f, seen[t])
                   THEN Goto(t, "joined") /\ notify_all(f)
                   ELSE Goto(t, "closing") /\ UNCHANGED asleep
                /\ UNCHANGED <<registry, state>>
           ELSE Lead(t) /\ UNCHANGED asleep
        /\ Acquired(t)
        /\ UNCHANGED key

-----------------------------------------------------------------------------
(* FlightLeader.                                                           *)

\* add_alias, up to the flight's mutex.
AddAlias(t) ==
    /\ pc[t] = "leading"
    /\ LockState(t, mine[t], "alias")
    /\ UNCHANGED <<registryLock, registry, state, key, seen, mine, asleep, given>>

add_alias(t) ==
    LET f == mine[t]
    IN  /\ pc[t] = "alias"
        /\ \E v \in Versions :
              state' = IF state[f].outcome = nothing
                       THEN [state EXCEPT ![f].accepted_versions = @ \cup {v}] ELSE state
        /\ UnlockState(f)
        /\ Goto(t, "leading")
        /\ UNCHANGED <<registryLock, registry, key, seen, mine, asleep, given>>

\* complete, also the one of Drop, up to the registry's mutex.
Completing(t) ==
    /\ pc[t] = "leading" /\ registryLock = None
    /\ registryLock' = t
    /\ Goto(t, "completing")
    /\ UNCHANGED <<registry, stateLock, state, key, seen, mine, asleep, given>>

CompletingState(t) ==
    /\ pc[t] = "completing"
    /\ LockState(t, mine[t], "completing_state")
    /\ UNCHANGED <<registryLock, registry, state, key, seen, mine, asleep, given>>

\* Holding both mutexes: publish, leave the registry, wake the waiters.  Drop of a
\* leader that panicked publishes Aborted, complete publishes what the caller gives.
complete_Mutant(t) ==
    LET f == mine[t]
    IN  /\ pc[t] = "completing_state"
        /\ \E o \in Outcomes :
              /\ Leave(t, [state EXCEPT ![f].outcome = o])
              /\ given' = [given EXCEPT ![key[t]][t] = o]
        /\ registry' = [registry EXCEPT ![key[t]] = None]
        /\ UnlockState(f)
        /\ registryLock' = None
        /\ UNCHANGED <<seen, asleep>>

complete(t) ==
    LET f == mine[t]
    IN  /\ pc[t] = "completing_state"
        /\ \E o \in Outcomes :
              LET shared == IF state[f].outcome = nothing THEN o ELSE state[f].outcome
              IN  /\ Leave(t, [state EXCEPT ![f].outcome = shared])
                  /\ given' = [given EXCEPT ![key[t]][t] = shared]
        /\ registry' = IF registry[key[t]] = f
                       THEN [registry EXCEPT ![key[t]] = None] ELSE registry
        /\ notify_all(f)
        /\ UnlockState(f)
        /\ registryLock' = None
        /\ UNCHANGED seen

-----------------------------------------------------------------------------
(* FlightWaiter::wait_outcome and wait_closed.                              *)

Then(t, a, b) == IF pc[t] \in {"joined", "joined_check", "joined_wait"} THEN a ELSE b

\* The first lock of wait_outcome, or the one Condvar::wait takes when it returns,
\* notified or not.
Relock(t) ==
    /\ LockState(t, mine[t], Then(t, "joined_check", "closing_check"))
    /\ asleep' = asleep \ {t}
    /\ UNCHANGED <<registryLock, registry, state, key, seen, mine, given>>

WaitOutcome(t) == pc[t] \in {"joined", "closing"} /\ Relock(t)

Wake(t) == pc[t] \in {"joined_wait", "closing_wait"} /\ t \notin asleep /\ Relock(t)

SpuriousWake(t) == pc[t] \in {"joined_wait", "closing_wait"} /\ t \in asleep /\ Relock(t)

\* The body of wait_outcome's loop; Condvar::wait releases the mutex and sleeps in one step.
CheckOutcome(t) ==
    LET f == mine[t]
    IN  /\ pc[t] \in {"joined_check", "closing_check"}
        /\ UnlockState(f)
        /\ IF state[f].outcome # nothing
           THEN /\ Leave(t, state)
                /\ given' = IF pc[t] = "joined_check"
                            THEN [given EXCEPT ![key[t]][t] = state[f].outcome] ELSE given
                /\ UNCHANGED asleep
           ELSE /\ Goto(t, Then(t, "joined_wait", "closing_wait"))
                /\ asleep' = asleep \cup {t}
                /\ UNCHANGED <<given, mine, key, state>>
        /\ UNCHANGED <<registryLock, registry, seen>>
-----------------------------------------------------------------------------
Waiting(t) == WaitOutcome(t) \/ Wake(t) \/ CheckOutcome(t)

Leading(t) == AddAlias(t) \/ add_alias(t) \/ Completing(t) \/ CompletingState(t) \/ complete(t)

Acquiring(t) == Acquire(t) \/ AcquireNew(t) \/ AcquireExisting(t) \/ AcquireState(t)

Next == \E t \in Threads : Acquiring(t) \/ Leading(t) \/ Waiting(t) \/ SpuriousWake(t)

Spec == Init /\ [][Next]_vars

\* The operating system schedules every thread that can run.
LiveSpec == Spec /\ \A t \in Threads :
                /\ WF_vars(Waiting(t))
                /\ WF_vars(AcquireNew(t) \/ AcquireExisting(t) \/ AcquireState(t))
                /\ WF_vars(add_alias(t) \/ CompletingState(t) \/ complete(t))

-----------------------------------------------------------------------------
(* Properties.                                                             *)

\* What a thread is to the flight of session id k: a waiter stops waiting, as far as a
\* caller can tell, when the outcome is there.
RoleIn(k) ==
    [t \in Threads |->
        IF key[t] # k \/ pc[t] \notin LeaderPCs \cup WaitingPCs THEN "none"
        ELSE IF pc[t] \in LeaderPCs THEN "leader"
        ELSE IF state[mine[t]].outcome # nothing THEN "none"
        ELSE Then(t, "joined", "closing")]

AskedIn(k) ==
    [t \in Threads |-> IF key[t] = k /\ pc[t] \in {"acquire", "acquire_state"} THEN {seen[t]} ELSE {}]

AcceptedIn(k) ==
    IF registry[k] = None THEN {} ELSE state[registry[k]].accepted_versions

GotIn(k) ==
    [t \in Threads |->
        IF key[t] = k /\ pc[t] \in WaitingPCs /\ Then(t, TRUE, FALSE)
        THEN state[mine[t]].outcome ELSE given[k][t]]

Promise(k) == INSTANCE FlightSpec WITH asked <- AskedIn(k), role <- RoleIn(k),
                                       accepted <- AcceptedIn(k), got <- GotIn(k)

\* For every session id the locks, the condition variable and the registry behave like
\* the abstract single flight: publishing looks atomic to all the threads.
ImplementsFlightSpec ==
    /\ \A k \in Keys : Promise(k)!FlightInit
    /\ [][\A k \in Keys : [Promise(k)!FlightNext]_(Promise(k)!flightSpecVars)]_vars

\* A thread that waits for a flight that has its outcome returns: no wake-up is lost
\* between the check of the outcome and Condvar::wait.
WaitersReturn ==
    \A t \in Threads :
        pc[t] \in WaitingPCs /\ state[mine[t]].outcome # nothing ~> pc[t] = "idle"
=============================================================================
