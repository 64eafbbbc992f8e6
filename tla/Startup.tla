------------------------------ MODULE Startup ------------------------------
(***************************************************************************)
(* Gateway processes starting on one database: run of src/src/main.rs with *)
(* the limits of src/src/config.rs and src/src/runtime_plan.rs, and        *)
(* Store::initialize with its migration of src/src/db.rs.                  *)
(*                                                                         *)
(* The database outlives the processes.  Before, after and between them,   *)
(* the binary of the schema's first version may run on it: it is not part  *)
(* of the repository and is modelled from what the migration, its repair   *)
(* of legacy rows and the compatibility value of session_expires_at expect *)
(* of it.  It knows none of the columns of version 2 and accepts a session *)
(* until session_expires_at.                                               *)
(*                                                                         *)
(* A transaction is two steps, the lock and the commit; whatever fails or  *)
(* stops in between rolls it back.  The later statements of a gateway are  *)
(* one step each here, SessionRow and AuthSession have their detail.       *)
(***************************************************************************)
EXTENDS Integers

CONSTANTS
    Procs,            \* gateway processes
    Ids,              \* session ids
    Environments,     \* environments a process may be started with
    IdleTTL,          \* config.session_ttl_seconds
    AbsoluteTTL,      \* config.session_absolute_ttl_seconds
    LEGACY_ABSOLUTE_TTL,
    OldTTLs,          \* lifetimes the old binary may give a session
    NULL,             \* the SQL value
    NoProc,
    MaxTime           \* bound on the clock

\* A column that may be NULL, and a row of gateway_sessions.
Column(T) == T \cup {NULL}

Row ==
    [created_at : Nat, session_expires_at : Nat, revoked : BOOLEAN,
     idle_expires_at : Column(Nat), absolute_expires_at : Column(Nat),
     identity_state : Column({"ready", "pending"}), pending_since : Column(Nat)]

\* Times are naturals, and NULL and NoProc are nobody's value.
ASSUME StartupAssumption ==
    /\ IdleTTL \in Nat /\ AbsoluteTTL \in Nat /\ LEGACY_ABSOLUTE_TTL \in Nat
    /\ OldTTLs \subseteq Nat
    /\ NULL \notin Nat /\ NULL \notin {"ready", "pending"}
    /\ NULL \notin Row /\ NoProc \notin Procs

\* Limits are counts, lifetimes any number of seconds.
ASSUME EnvironmentsAssumption ==
    Environments \subseteq
        [proxy : BOOLEAN, scheme : STRING, protocol : STRING, resolvers : Nat,
         max_downstream : Nat, max_active : Nat, soft_nofile : Column(Nat),
         touch : Int, idle : Int, absolute : Int]

VARIABLES
    now,
    user_version,     \* PRAGMA user_version; the columns of version 2 exist from 2 on
    rows,             \* gateway_sessions: the row of each id, NULL if there is none
    writer,           \* the process that holds an immediate transaction
    proc,             \* each process: the step of run it is at, what it has read
    legacy,           \* ids the old binary inserted since the last commit of a migration
    deadline          \* the latest moment each session was ever promised

vars == <<now, user_version, rows, writer, proc, legacy, deadline>>

SCHEMA_VERSION == 2

COMPAT_DENY_AT == 0

Minimum(a, b) == IF a <= b THEN a ELSE b

-----------------------------------------------------------------------------
(* Limits.  An environment is the values that decide whether run goes on.  *)

USIZE_MAX == 8191      \* the width of usize, scaled down
MAX_PERMITS == USIZE_MAX \div 8

AUTH_BLOCKING_WORKERS       == 64
BLOCKING_RUNTIME_MARGIN     == 16
UPSTREAM_IDLE_POOL_CAPACITY == 8
LISTENER_FD_BUDGET          == 1
ANCILLARY_FD_RESERVE        == 512
MAX_BLOCKING_RESOLVERS      == 32
PROXY_DOWNSTREAM_HEADROOM   == 16

validate_session_lifetimes(e) ==
    0 < e.touch /\ e.touch <= e.idle /\ e.idle <= e.absolute

validate_capacity(value) == 0 < value /\ value <= MAX_PERMITS

validate_upstream_protocol(e) == ~(e.proxy /\ e.scheme = "http" /\ e.protocol = "Auto")

\* Config::validate.
validate(e) ==
    /\ validate_session_lifetimes(e)
    /\ validate_capacity(e.max_downstream) /\ validate_capacity(e.max_active)
    /\ e.resolvers \in 1 .. MAX_BLOCKING_RESOLVERS
    /\ validate_upstream_protocol(e)
    /\ e.proxy => /\ e.max_active + PROXY_DOWNSTREAM_HEADROOM <= USIZE_MAX
                  /\ e.max_downstream >= e.max_active + PROXY_DOWNSTREAM_HEADROOM

\* RuntimePlan::new.
max_blocking_threads(e) == AUTH_BLOCKING_WORKERS + e.resolvers + BLOCKING_RUNTIME_MARGIN

required_nofile_Mutant(e) ==
    (IF e.proxy THEN e.max_downstream + UPSTREAM_IDLE_POOL_CAPACITY ELSE e.max_downstream)
        + LISTENER_FD_BUDGET + ANCILLARY_FD_RESERVE

required_nofile(e) ==
    (IF e.proxy THEN e.max_downstream + e.max_active + UPSTREAM_IDLE_POOL_CAPACITY
                ELSE e.max_downstream)
        + LISTENER_FD_BUDGET + ANCILLARY_FD_RESERVE

\* The soft limit; NULL stands for RLIM_INFINITY.
validate_nofile(required, limit) == limit # NULL => required <= limit

\* run up to Store::initialize returns no error.
run_accepts(e) ==
    /\ validate(e)
    /\ max_blocking_threads(e) <= USIZE_MAX
    /\ required_nofile(e) <= USIZE_MAX
    /\ validate_nofile(required_nofile(e), e.soft_nofile)

-----------------------------------------------------------------------------
(* Rows.                                                                   *)

\* A row the old binary inserts: the columns of version 2 are absent or NULL.
v1_row(t, ttl) ==
    [created_at |-> t, session_expires_at |-> t + ttl, revoked |-> FALSE,
     idle_expires_at |-> NULL, absolute_expires_at |-> NULL, identity_state |-> NULL,
     pending_since |-> NULL]

create_session(t) ==
    LET absolute == t + AbsoluteTTL
        idle     == Minimum(t + IdleTTL, absolute)
    IN  [created_at |-> t, session_expires_at |-> idle, revoked |-> FALSE,
         idle_expires_at |-> idle, absolute_expires_at |-> absolute,
         identity_state |-> "ready", pending_since |-> NULL]

is_legacy_null(row) ==
    /\ row.idle_expires_at = NULL /\ row.absolute_expires_at = NULL
    /\ row.identity_state = NULL /\ row.pending_since = NULL

\* What row_to_session demands of a row.
validate_session_invariants(row) ==
    /\ row.idle_expires_at # NULL /\ row.absolute_expires_at # NULL
    /\ row.identity_state # NULL
    /\ row.idle_expires_at <= row.absolute_expires_at
    /\ IF row.identity_state = "ready"
       THEN row.pending_since = NULL /\ row.session_expires_at = row.idle_expires_at
       ELSE row.pending_since # NULL /\ row.session_expires_at = COMPAT_DENY_AT

is_active(row) ==
    ~row.revoked /\ now < row.idle_expires_at /\ now < row.absolute_expires_at

\* The old binary's test of a session.
old_accepts(row) == ~row.revoked /\ now < row.session_expires_at

\* One row of backfill_v1_rows: never later than the old deadline, and never
\* later than LEGACY_ABSOLUTE_TTL after the session was created.
backfill_row_Mutant(row) ==
    LET absolute == row.created_at + LEGACY_ABSOLUTE_TTL
    IN  [row EXCEPT !.idle_expires_at = absolute, !.absolute_expires_at = absolute,
                    !.identity_state = "ready", !.pending_since = NULL,
                    !.session_expires_at = absolute]

backfill_row(row) ==
    LET absolute == Minimum(row.session_expires_at, row.created_at + LEGACY_ABSOLUTE_TTL)
        idle     == Minimum(row.session_expires_at, absolute)
    IN  [row EXCEPT !.idle_expires_at = idle, !.absolute_expires_at = absolute,
                    !.identity_state = "ready", !.pending_since = NULL,
                    !.session_expires_at = idle]

backfill_v1_rows(table) ==
    [id \in Ids |-> IF table[id] = NULL THEN NULL ELSE backfill_row(table[id])]

\* The rows are left as they are.
repair_legacy_null_rows_Mutant(table) == table

repair_legacy_null_rows(table) ==
    [id \in Ids |-> IF table[id] # NULL /\ is_legacy_null(table[id])
                    THEN backfill_row(table[id]) ELSE table[id]]

-----------------------------------------------------------------------------
(* Starting.                                                               *)

Down == [pc |-> "down", env |-> NULL, version |-> 0]

Init ==
    /\ now = 1 /\ user_version \in {0, 1, SCHEMA_VERSION + 1}
    /\ rows = [id \in Ids |-> NULL] /\ writer = NoProc
    /\ proc = [p \in Procs |-> Down]
    /\ legacy = {} /\ deadline = [id \in Ids |-> 0]

\* run with an environment it accepts; with any other the process ends where it
\* started, before it has opened the database.
run(p) ==
    /\ proc[p].pc = "down"
    /\ \E e \in Environments :
          /\ run_accepts(e)
          /\ proc' = [proc EXCEPT ![p] = [pc |-> "opening", env |-> e, version |-> 0]]
    /\ UNCHANGED <<now, user_version, rows, writer, legacy, deadline>>

\* migrate reads the version outside of the transaction it then begins.
ReadVersion(p) ==
    /\ proc[p].pc = "opening" /\ user_version <= SCHEMA_VERSION
    /\ proc' = [proc EXCEPT ![p].pc = "begin", ![p].version = user_version]
    /\ UNCHANGED <<now, user_version, rows, writer, legacy, deadline>>

BeginImmediate(p) ==
    /\ proc[p].pc = "begin" /\ writer = NoProc
    /\ writer' = p /\ proc' = [proc EXCEPT ![p].pc = "migrating"]
    /\ UNCHANGED <<now, user_version, rows, legacy, deadline>>

\* The statements of the transaction and its commit.  ALTER TABLE fails if
\* another process has added the columns since the version was read; the
\* transaction is rolled back and the process ends.
migrate(p) ==
    /\ proc[p].pc = "migrating"
    /\ writer' = NoProc
    /\ IF proc[p].version < 2 /\ user_version >= 2
       THEN /\ proc' = [proc EXCEPT ![p] = Down]
            /\ UNCHANGED <<user_version, rows, legacy>>
       ELSE /\ rows' = repair_legacy_null_rows(
                          IF proc[p].version < 2 THEN backfill_v1_rows(rows) ELSE rows)
            /\ user_version' = SCHEMA_VERSION
            /\ legacy' = {}
            /\ proc' = [proc EXCEPT ![p].pc = "serving"]
    /\ UNCHANGED <<now, deadline>>

\* The process ends, at any step: a newer schema, a busy or failing database, a
\* runtime that cannot be built, a crash, a stop.
Exit(p) ==
    /\ proc[p].pc # "down"
    /\ proc' = [proc EXCEPT ![p] = Down]
    /\ writer' = IF writer = p THEN NoProc ELSE writer
    /\ UNCHANGED <<now, user_version, rows, legacy, deadline>>

-----------------------------------------------------------------------------
(* Statements on the table: a running gateway's, and the old binary's.     *)

Write(id, row) ==
    /\ writer = NoProc
    /\ rows' = [rows EXCEPT ![id] = row]
    /\ UNCHANGED <<now, user_version, writer, proc>>

Serving == \E p \in Procs : proc[p].pc = "serving"

CreateSession(id) ==
    /\ Serving /\ rows[id] = NULL
    /\ Write(id, create_session(now))
    /\ deadline' = [deadline EXCEPT ![id] = now + AbsoluteTTL]
    /\ UNCHANGED legacy

\* persist_pending, finalize_pending and touch_ready change only a row they can
\* read and that is active.
Usable(id) ==
    /\ Serving /\ rows[id] # NULL
    /\ validate_session_invariants(rows[id]) /\ is_active(rows[id])

PersistPending(id) ==
    /\ Usable(id)
    /\ Write(id, [rows[id] EXCEPT !.identity_state = "pending", !.pending_since = now,
                                  !.session_expires_at = COMPAT_DENY_AT])
    /\ UNCHANGED <<legacy, deadline>>

FinalizePending(id) ==
    /\ Usable(id) /\ rows[id].identity_state = "pending"
    /\ Write(id, [rows[id] EXCEPT !.identity_state = "ready", !.pending_since = NULL,
                                  !.session_expires_at = rows[id].idle_expires_at])
    /\ UNCHANGED <<legacy, deadline>>

TouchReady(id) ==
    /\ Usable(id) /\ rows[id].identity_state = "ready"
    /\ LET candidate == Minimum(now + IdleTTL, rows[id].absolute_expires_at)
       IN  /\ candidate > rows[id].idle_expires_at
           /\ Write(id, [rows[id] EXCEPT !.idle_expires_at = candidate,
                                         !.session_expires_at = candidate])
    /\ UNCHANGED <<legacy, deadline>>

\* A logout, by either binary.
RevokeSession(id) ==
    /\ Serving \/ user_version \in {1, 2}
    /\ rows[id] # NULL /\ ~rows[id].revoked
    /\ Write(id, [rows[id] EXCEPT !.revoked = TRUE])
    /\ UNCHANGED <<legacy, deadline>>

\* A comparison with NULL selects no row.
Prune(id) ==
    /\ Serving /\ rows[id] # NULL
    /\ \/ rows[id].revoked
       \/ rows[id].idle_expires_at # NULL /\ rows[id].idle_expires_at <= now
       \/ rows[id].absolute_expires_at # NULL /\ rows[id].absolute_expires_at <= now
    /\ Write(id, NULL)
    /\ legacy' = legacy \ {id} /\ UNCHANGED deadline

OldCreatesSchema ==
    /\ user_version = 0 /\ writer = NoProc
    /\ user_version' = 1
    /\ UNCHANGED <<now, rows, writer, proc, legacy, deadline>>

OldCreates(id) ==
    /\ user_version \in {1, 2} /\ rows[id] = NULL
    /\ \E ttl \in OldTTLs :
          /\ Write(id, v1_row(now, ttl))
          /\ deadline' = [deadline EXCEPT ![id] = now + ttl]
    /\ legacy' = legacy \cup {id}

OldPrunes(id) ==
    /\ user_version \in {1, 2} /\ rows[id] # NULL
    /\ rows[id].revoked \/ rows[id].session_expires_at <= now
    /\ Write(id, NULL)
    /\ legacy' = legacy \ {id} /\ UNCHANGED deadline

Tick ==
    /\ now < MaxTime /\ now' = now + 1
    /\ UNCHANGED <<user_version, rows, writer, proc, legacy, deadline>>

Next ==
    \/ \E p \in Procs : run(p) \/ ReadVersion(p) \/ BeginImmediate(p) \/ migrate(p) \/ Exit(p)
    \/ \E id \in Ids :
          \/ CreateSession(id) \/ PersistPending(id) \/ FinalizePending(id) \/ TouchReady(id)
          \/ RevokeSession(id) \/ Prune(id) \/ OldCreates(id) \/ OldPrunes(id)
    \/ OldCreatesSchema \/ Tick

Spec == Init /\ [][Next]_vars

-----------------------------------------------------------------------------
(* Properties.                                                             *)

\* A gateway that serves has brought the schema to its version, and every row
\* of a version 2 table is one row_to_session can read, except rows the old
\* binary has inserted since; in whatever order gateways and the old binary
\* start, stop, fail and write.  A newer schema is left alone (migrate with
\* backfill_v1_rows and repair_legacy_null_rows, and every later statement).
RowsReadable ==
    /\ Serving => user_version = SCHEMA_VERSION
    /\ user_version > SCHEMA_VERSION => \A p \in Procs : proc[p].pc \in {"down", "opening"}
    /\ user_version = SCHEMA_VERSION =>
          \A id \in Ids : rows[id] # NULL =>
              \/ validate_session_invariants(rows[id])
              \/ id \in legacy /\ is_legacy_null(rows[id])

\* No chain of migrations, repairs, touches, refreshes and changes between the
\* two binaries makes a session last longer than it was first promised: the
\* lifetime the old binary gave it, or the absolute lifetime of create_session.
\* A pending session is never accepted by the old binary.
NeverOutlivesPromise ==
    \A id \in Ids : rows[id] # NULL =>
        /\ old_accepts(rows[id]) => now < deadline[id] /\ rows[id].identity_state # "pending"
        /\ validate_session_invariants(rows[id]) /\ is_active(rows[id]) => now < deadline[id]

\* A gateway that serves can open every connection its limits admit (clients,
\* active and idle upstream transports, the listener) and still has the reserve
\* for the database, and its own paths have stream permits that proxied streams
\* cannot take; the blocking pool has a thread for every auth worker and every
\* resolver (run, Config::validate, required_nofile, RuntimePlan,
\* DownstreamStreamAdmission::from_config).
ServingWithinBudget ==
    \A p \in Procs : proc[p].pc = "serving" =>
        LET e == proc[p].env
            transports == IF e.proxy THEN e.max_active + UPSTREAM_IDLE_POOL_CAPACITY ELSE 0
            owned == IF e.proxy THEN e.max_downstream - e.max_active ELSE e.max_downstream
        IN  /\ e.soft_nofile = NULL
                  \/ e.max_downstream + transports + 1 + ANCILLARY_FD_RESERVE <= e.soft_nofile
            /\ owned >= (IF e.proxy THEN PROXY_DOWNSTREAM_HEADROOM ELSE 1)
            /\ AUTH_BLOCKING_WORKERS + e.resolvers < max_blocking_threads(e)
            /\ 0 < e.touch /\ e.touch <= e.absolute
=============================================================================
