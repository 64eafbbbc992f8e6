---------------------------- MODULE AuthExecutor ----------------------------
(***************************************************************************)
(* AuthExecutor of src/src/server.rs, which runs the blocking operations   *)
(* (login, callback, auth check, logout) of the asynchronous server, with  *)
(* the flights those operations wait for.                                  *)
(*                                                                         *)
(* A call takes an admission permit or is refused, waits in the queue of   *)
(* the work semaphore, and then occupies a thread of the blocking pool,    *)
(* which resolver tasks share.  The client may go away at any moment: a    *)
(* call that waits is dropped with its permits, an operation that runs     *)
(* keeps its permits and runs on.  The operations use the single flight    *)
(* only through FlightSpec.                                                *)
(***************************************************************************)
EXTENDS FlightSpec, Naturals, Sequences, FiniteSets

CONSTANTS
    AUTH_BLOCKING_WORKERS,     \* 64
    AUTH_BLOCKING_ADMISSION,   \* 128
    BLOCKING_RUNTIME_MARGIN,   \* 16
    ResolverLimit,             \* config.max_blocking_resolvers
    MaxTries                   \* iterations of auth_decision's loop (8)

ASSUME AuthExecutorAssumption ==
    /\ AUTH_BLOCKING_WORKERS \in Nat \ {0}
    /\ AUTH_BLOCKING_ADMISSION \in Nat \ {0}
    /\ BLOCKING_RUNTIME_MARGIN \in Nat
    /\ ResolverLimit \in Nat \ {0} /\ MaxTries \in Nat \ {0}
    /\ nothing \notin Outcomes

\* RuntimePlan::new: the size of the runtime's blocking pool.
max_blocking_threads_Mutant == AUTH_BLOCKING_WORKERS + BLOCKING_RUNTIME_MARGIN

max_blocking_threads ==
    AUTH_BLOCKING_WORKERS + ResolverLimit + BLOCKING_RUNTIME_MARGIN

VARIABLES
    admission,   \* free admission permits
    work,        \* free work permits
    queue,       \* calls that wait for a work permit, in the semaphore's order
    call,        \* the future of AuthExecutor::run of each thread's caller
    op,          \* the blocking operation
    tries,       \* flights it may still ask for
    resolving    \* threads of the pool that resolver tasks occupy

executorVars == <<admission, work, queue, call, op, tries, resolving>>
allVars == <<executorVars, flightSpecVars>>

\* A member of Threads is a call of `run` and the blocking thread that serves it.
\* An answered call is gone; its answer, 503 apart, is the operation's.
CallStates == {"none", "waiting", "overloaded"}
Ops        == {"none", "queued", "spawned", "running"}

ExecutorInit ==
    /\ FlightInit
    /\ admission = AUTH_BLOCKING_ADMISSION
    /\ work = AUTH_BLOCKING_WORKERS
    /\ queue = <<>>
    /\ call = [t \in Threads |-> "none"]
    /\ op = [t \in Threads |-> "none"]
    /\ tries = [t \in Threads |-> 0]
    /\ resolving = 0

Occupying == {t \in Threads : op[t] = "running"}

FreeThread == Cardinality(Occupying) + resolving < max_blocking_threads

-----------------------------------------------------------------------------
(* AuthExecutor::run.                                                      *)

\* The first poll: admission.try_acquire_owned, then the queue of the work semaphore.
run(t) ==
    /\ call[t] # "waiting" /\ op[t] = "none"
    /\ \/ /\ admission > 0
          /\ admission' = admission - 1
          /\ queue' = Append(queue, t)
          /\ call' = [call EXCEPT ![t] = "waiting"]
          /\ op' = [op EXCEPT ![t] = "queued"]
       \/ /\ admission = 0
          /\ call' = [call EXCEPT ![t] = "overloaded"]
          /\ UNCHANGED <<admission, queue, op>>
    /\ UNCHANGED <<work, tries, resolving, flightSpecVars>>

\* The semaphore gives its permits in order; the future goes on to spawn_blocking.
Granted(t) ==
    /\ queue # <<>> /\ Head(queue) = t
    /\ work > 0
    /\ work' = work - 1
    /\ queue' = Tail(queue)
    /\ op' = [op EXCEPT ![t] = "spawned"]
    /\ UNCHANGED <<admission, call, tries, resolving, flightSpecVars>>

\* A thread of the pool takes the task.
Scheduled(t) ==
    /\ op[t] = "spawned" /\ FreeThread
    /\ op' = [op EXCEPT ![t] = "running"]
    /\ tries' = [tries EXCEPT ![t] = MaxTries]
    /\ UNCHANGED <<admission, work, queue, call, resolving, flightSpecVars>>

\* The closure ends, normally or by a panic, and its permits and the outcome it has been
\* given drop; if the future still exists it answers.
Finished(t) ==
    /\ op[t] = "running" /\ role[t] = "none" /\ asked[t] = {}
    /\ op' = [op EXCEPT ![t] = "none"]
    /\ call' = [call EXCEPT ![t] = "none"]
    /\ admission' = admission + 1
    /\ work' = work + 1
    /\ tries' = [tries EXCEPT ![t] = 0]
    /\ forget(t)
    /\ UNCHANGED <<queue, resolving>>

\* The queue of the semaphore without its k-th waiter.
WithoutPosition(k) == [i \in 1 .. Len(queue) - 1 |-> IF i < k THEN queue[i] ELSE queue[i + 1]]

\* The client goes away and the future is dropped: a queued call gives its admission
\* permit back, a spawned operation is detached and keeps both permits.
Dropped_Mutant(t) ==
    /\ call[t] = "waiting"
    /\ call' = [call EXCEPT ![t] = "none"]
    /\ queue' = SelectSeq(queue, LAMBDA u : u # t)
    /\ op' = IF op[t] = "queued" THEN [op EXCEPT ![t] = "none"] ELSE op
    /\ admission' = admission + 1
    /\ work' = IF op[t] = "queued" THEN work ELSE work + 1
    /\ UNCHANGED <<tries, resolving, flightSpecVars>>

Dropped(t) ==
    /\ call[t] = "waiting"
    /\ call' = [call EXCEPT ![t] = "none"]
    /\ \/ /\ op[t] = "queued"
          /\ \E k \in DOMAIN queue : queue[k] = t /\ queue' = WithoutPosition(k)
          /\ op' = [op EXCEPT ![t] = "none"]
          /\ admission' = admission + 1
       \/ /\ op[t] # "queued"
          /\ UNCHANGED <<queue, op, admission>>
    /\ UNCHANGED <<work, tries, resolving, flightSpecVars>>

-----------------------------------------------------------------------------
(* What a running operation does with the flight of its session, and the   *)
(* resolver tasks that share the pool.                                     *)

Asking(t) ==
    /\ op[t] = "running" /\ tries[t] > 0
    /\ \E v \in Versions : ask(t, v)
    /\ tries' = [tries EXCEPT ![t] = @ - 1]
    /\ UNCHANGED <<admission, work, queue, call, op, resolving>>

Flying(t) ==
    /\ op[t] = "running"
    /\ acquire(t)
    /\ UNCHANGED executorVars

\* The leader's operation ends; complete or the leader's Drop publishes.
Landing(t) ==
    /\ op[t] = "running"
    /\ \E o \in Outcomes : complete(t, o)
    /\ UNCHANGED executorVars

Aliasing(t) ==
    /\ op[t] = "running"
    /\ \E v \in Versions \ accepted : add_alias(t, v)
    /\ UNCHANGED executorVars

\* submit_resolution_tracked holds a resolver permit while it runs.
Resolve ==
    /\ FreeThread
    /\ resolving < ResolverLimit
    /\ resolving' = resolving + 1
    /\ UNCHANGED <<admission, work, queue, call, op, tries, flightSpecVars>>

Resolved ==
    /\ resolving > 0
    /\ resolving' = resolving - 1
    /\ UNCHANGED <<admission, work, queue, call, op, tries, flightSpecVars>>
-----------------------------------------------------------------------------
ExecutorNext ==
    \/ \E t \in Threads : \/ run(t) \/ Granted(t) \/ Scheduled(t) \/ Finished(t) \/ Dropped(t)
                          \/ Asking(t) \/ Flying(t) \/ Landing(t) \/ Aliasing(t)
    \/ Resolve
    \/ Resolved

ExecutorSpec == ExecutorInit /\ [][ExecutorNext]_allVars

\* The runtime polls woken futures and the pool runs its tasks; the leader's operation
\* ends (AuthSession's EveryCheckDecides).  A name lookup need not end, a client need
\* not stay.
ExecutorLiveSpec ==
    /\ ExecutorSpec
    /\ \A t \in Threads : /\ WF_allVars(Granted(t) \/ Scheduled(t))
                          /\ WF_allVars(Flying(t)) /\ WF_allVars(Landing(t))
                          /\ WF_allVars(Finished(t))
-----------------------------------------------------------------------------
(* Properties.                                                             *)

\* The counters, the queue and the state of every call have their types.
ExecutorTypeOK ==
    /\ FlightSpecTypeOK
    /\ admission \in Nat /\ work \in Nat /\ resolving \in Nat
    /\ queue \in Seq(Threads)
    /\ call \in [Threads -> CallStates]
    /\ op \in [Threads -> Ops]
    /\ tries \in [Threads -> Nat]

\* Permits are neither lost nor made, whoever goes away at whatever moment: each free
\* permit and each operation that holds one add up to the configured limits, and the
\* operations that run never exceed the workers, also the detached ones.  (With the types.)
PermitsAddUp ==
    LET holders == {t \in Threads : op[t] # "none"}
        workers == {t \in Threads : op[t] \in {"spawned", "running"}}
    IN  /\ ExecutorTypeOK
        /\ admission + Cardinality(holders) = AUTH_BLOCKING_ADMISSION
        /\ work + Cardinality(workers) = AUTH_BLOCKING_WORKERS

\* A permit of the work semaphore is worth a thread: an operation that has been spawned
\* finds a free thread at once, however many resolver tasks the pool runs.
SpawnedHasThread == \A t \in Threads : op[t] = "spawned" => FreeThread

\* A thread that waits for a flight holds a work permit that the leader does not need:
\* the leader is always an operation that runs itself.
LeaderRuns ==
    \A t \in Threads : role[t] # "none" =>
        \E u \in Threads : role[u] = "leader" /\ op[u] = "running"

\* The two together: operations with a work permit, also those that wait, go on by
\* themselves; the pool has a thread for each and one of them leads what the others wait for.
WorkersGoOn == SpawnedHasThread /\ LeaderRuns

\* Every call is answered, unless its client goes away, even when all the workers wait
\* for one flight; and every operation ends, whether anybody waits for it or not.
EveryCallEnds ==
    \A t \in Threads : /\ (call[t] = "waiting" ~> call[t] # "waiting")
                       /\ (op[t] # "none" ~> op[t] = "none")
=============================================================================
