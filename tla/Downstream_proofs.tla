-------------------------- MODULE Downstream_proofs --------------------------
(***************************************************************************)
(* Proofs about Startup and Downstream: processes that start on one        *)
(* database, for any number of processes and sessions, any lifetimes and   *)
(* any sequence of starts, stops and writes of both binaries; and the      *)
(* sockets and streams a process then accepts, for any number of them and  *)
(* any limits.                                                             *)
(***************************************************************************)
EXTENDS Startup, Downstream, FiniteSetTheorems, TLAPS

-----------------------------------------------------------------------------
(* Startup.  What its properties need beyond themselves: before version 2  *)
(* every row is one of the old binary's; the transaction has one owner; a  *)
(* process that is about to migrate has read a version no newer than the   *)
(* table's; and the deadlines in a row never pass the promise.             *)

Pc == {"down", "opening", "begin", "migrating", "serving"}

StartupTypeOK ==
    /\ now \in Nat /\ user_version \in Nat
    /\ rows \in [Ids -> Row \cup {NULL}]
    /\ writer \in Procs \cup {NoProc}
    /\ proc \in [Procs -> [pc : Pc, env : Environments \cup {NULL}, version : Nat]]
    /\ legacy \in SUBSET Ids
    /\ deadline \in [Ids -> Nat]

\* The transaction belongs to the process that migrates, which has read a
\* version up to the table's; one that serves has brought it to version 2.
ProcsOK ==
    \A p \in Procs :
        /\ writer = p <=> proc[p].pc = "migrating"
        /\ proc[p].pc \in {"begin", "migrating"} =>
               proc[p].version <= user_version /\ user_version <= SCHEMA_VERSION
        /\ proc[p].pc = "serving" => user_version = SCHEMA_VERSION
        /\ user_version > SCHEMA_VERSION => proc[p].pc \in {"down", "opening"}

RowOK(id) ==
    \/ is_legacy_null(rows[id]) /\ (user_version = SCHEMA_VERSION => id \in legacy)
    \/ validate_session_invariants(rows[id]) /\ user_version = SCHEMA_VERSION

WithinPromise(row, promise) ==
    /\ row.session_expires_at <= promise
    /\ row.absolute_expires_at # NULL => row.absolute_expires_at <= promise
    /\ row.identity_state = "pending" => row.session_expires_at = COMPAT_DENY_AT

RowsOK == \A id \in Ids : rows[id] # NULL => RowOK(id) /\ WithinPromise(rows[id], deadline[id])

IInv == StartupTypeOK /\ ProcsOK /\ RowsOK
-----------------------------------------------------------------------------
(* Rows.                                                                   *)

\* What backfill_v1_rows and repair_legacy_null_rows write for a row, whatever
\* was in it: a row that row_to_session accepts, within the old deadline.
LEMMA BackfilledRow ==
    ASSUME NEW row \in Row, NEW promise \in Nat, row.session_expires_at <= promise
    PROVE  /\ backfill_row(row) \in Row
           /\ validate_session_invariants(backfill_row(row))
           /\ WithinPromise(backfill_row(row), promise)
<1> DEFINE absolute == Minimum(row.session_expires_at, row.created_at + LEGACY_ABSOLUTE_TTL)
           idle == Minimum(row.session_expires_at, absolute)
           new == backfill_row(row)
<1>1. absolute \in Nat /\ idle \in Nat /\ idle <= absolute /\ absolute <= promise
    BY StartupAssumption DEF Row, Minimum
<1>2. /\ new \in Row
      /\ new.idle_expires_at = idle /\ new.absolute_expires_at = absolute
      /\ new.session_expires_at = idle /\ new.identity_state = "ready"
      /\ new.pending_since = NULL
    <2> HIDE DEF absolute, idle
    <2> QED BY Zenon, <1>1 DEF backfill_row, Row, Column, absolute, idle
<1> HIDE DEF absolute, idle, new
<1>3. validate_session_invariants(new)
    BY Zenon, <1>1, <1>2, StartupAssumption DEF validate_session_invariants
<1>4. WithinPromise(new, promise)
    BY <1>1, <1>2 DEF WithinPromise
<1> QED BY Zenon, <1>2, <1>3, <1>4 DEF new

\* One statement on one row: the invariant holds after it if the new row is
\* readable, or a legacy row, and keeps the promise.
LEMMA WrittenRow ==
    ASSUME IInv, NEW id \in Ids, NEW row \in Row \cup {NULL},
           Write(id, row),
           legacy' \in SUBSET Ids, deadline' \in [Ids -> Nat],
           \A other \in Ids \ {id} :
               deadline'[other] = deadline[other] /\ (other \in legacy => other \in legacy'),
           row # NULL =>
               /\ \/ is_legacy_null(row) /\ (user_version = SCHEMA_VERSION => id \in legacy')
                  \/ validate_session_invariants(row) /\ user_version = SCHEMA_VERSION
               /\ WithinPromise(row, deadline'[id])
    PROVE  IInv'
<1>1. /\ rows' = [rows EXCEPT ![id] = row]
      /\ UNCHANGED <<now, user_version, writer, proc>>
    BY Zenon DEF Write
<1>2. StartupTypeOK'
    BY Zenon, <1>1 DEF IInv, StartupTypeOK
<1>3. ProcsOK'
    BY Zenon, <1>1 DEF IInv, ProcsOK
<1>4. RowsOK'
    <2> SUFFICES ASSUME NEW other \in Ids, rows'[other] # NULL
                 PROVE  RowOK(other)' /\ WithinPromise(rows'[other], deadline'[other])
        BY Zenon DEF RowsOK
    <2>1. CASE other = id
        <3>1. rows'[other] = row
            BY Zenon, <1>1, <2>1 DEF IInv, StartupTypeOK
        <3> QED BY Zenon, <1>1, <2>1, <3>1 DEF RowOK, is_legacy_null, validate_session_invariants
    <2>2. CASE other # id
        <3>1. rows'[other] = rows[other]
            BY Zenon, <1>1, <2>2 DEF IInv, StartupTypeOK
        <3>2. RowOK(other) /\ WithinPromise(rows[other], deadline[other])
            BY Zenon, <3>1 DEF IInv, RowsOK
        <3> QED BY Zenon, <1>1, <2>2, <3>1, <3>2
                DEF RowOK, is_legacy_null, validate_session_invariants
    <2> QED BY Zenon, <2>1, <2>2
<1> QED BY Zenon, <1>2, <1>3, <1>4 DEF IInv

\* A readable row has all its columns.
LEMMA ReadableColumns ==
    ASSUME NEW row \in Row, validate_session_invariants(row)
    PROVE  /\ row.idle_expires_at \in Nat /\ row.absolute_expires_at \in Nat
           /\ row.identity_state \in {"ready", "pending"}
BY Zenon, StartupAssumption DEF Row, Column, validate_session_invariants

LEMMA InitIInv == Init => IInv
<1> SUFFICES ASSUME Init PROVE IInv
    OBVIOUS
<1>1. StartupTypeOK
    BY DEF Init, StartupTypeOK, SCHEMA_VERSION, Down, Pc
<1>2. ProcsOK
    BY Zenon, StartupAssumption DEF Init, ProcsOK, Down
<1>3. RowsOK
    BY Zenon DEF Init, RowsOK
<1> QED BY Zenon, <1>1, <1>2, <1>3 DEF IInv

-----------------------------------------------------------------------------
(* Steps of a process.                                                     *)

\* A step that leaves the table alone keeps its rows.
LEMMA RowsKept ==
    ASSUME IInv, UNCHANGED <<user_version, rows, legacy, deadline>>
    PROVE  RowsOK'
<1> SUFFICES ASSUME NEW id \in Ids, rows'[id] # NULL
             PROVE  RowOK(id)' /\ WithinPromise(rows'[id], deadline'[id])
    BY Zenon DEF RowsOK
<1>1. RowOK(id) /\ WithinPromise(rows[id], deadline[id])
    BY Zenon DEF IInv, RowsOK
<1> QED BY Zenon, <1>1 DEF RowOK, is_legacy_null, validate_session_invariants

LEMMA StepOfProcess ==
    ASSUME IInv, NEW p \in Procs,
           run(p) \/ ReadVersion(p) \/ BeginImmediate(p) \/ Exit(p)
    PROVE  IInv'
<1>1. CASE run(p)
    <2>1. PICK e \in Environments :
              proc' = [proc EXCEPT ![p] = [pc |-> "opening", env |-> e, version |-> 0]]
        BY Zenon, <1>1 DEF run
    <2>2. StartupTypeOK'
        BY Zenon, <1>1, <2>1 DEF run, IInv, StartupTypeOK, Pc
    <2>3. ProcsOK'
        BY Zenon, <1>1, <2>1 DEF run, IInv, StartupTypeOK, ProcsOK
    <2>4. RowsOK'
        BY Zenon, <1>1, RowsKept DEF run
    <2> QED BY Zenon, <2>2, <2>3, <2>4 DEF IInv
<1>2. CASE ReadVersion(p)
    <2>1. StartupTypeOK'
        BY ZenonT(60), <1>2 DEF ReadVersion, IInv, StartupTypeOK, Pc
    <2>2. ProcsOK'
        BY <1>2 DEF ReadVersion, IInv, StartupTypeOK, ProcsOK, SCHEMA_VERSION
    <2>3. RowsOK'
        BY Zenon, <1>2, RowsKept DEF ReadVersion
    <2> QED BY Zenon, <2>1, <2>2, <2>3 DEF IInv
<1>3. CASE BeginImmediate(p)
    <2>1. StartupTypeOK'
        BY Zenon, <1>3 DEF BeginImmediate, IInv, StartupTypeOK, Pc
    <2>2. ProcsOK'
        BY <1>3, StartupAssumption DEF BeginImmediate, IInv, StartupTypeOK, ProcsOK, SCHEMA_VERSION
    <2>3. RowsOK'
        BY Zenon, <1>3, RowsKept DEF BeginImmediate
    <2> QED BY <2>1, <2>2, <2>3 DEF IInv
<1>4. CASE Exit(p)
    <2>1. StartupTypeOK'
        BY Zenon, <1>4 DEF Exit, Down, IInv, StartupTypeOK, Pc
    <2>2. ProcsOK'
        BY Zenon, <1>4, StartupAssumption DEF Exit, Down, IInv, StartupTypeOK, ProcsOK, SCHEMA_VERSION
    <2>3. RowsOK'
        BY Zenon, <1>4, RowsKept DEF Exit
    <2> QED BY <2>1, <2>2, <2>3 DEF IInv
<1> QED BY Zenon, <1>1, <1>2, <1>3, <1>4

\* The rows the migration commits: none is left as the old binary wrote it.
LEMMA MigratedRows ==
    ASSUME IInv, NEW version \in Nat, version <= user_version,
           user_version <= SCHEMA_VERSION, ~(version < 2 /\ user_version >= 2),
           NEW id \in Ids, rows[id] # NULL
    PROVE  LET new == repair_legacy_null_rows(
                          IF version < 2 THEN backfill_v1_rows(rows) ELSE rows)[id]
           IN  /\ new \in Row /\ new # NULL
               /\ validate_session_invariants(new)
               /\ WithinPromise(new, deadline[id])
<1> DEFINE table == IF version < 2 THEN backfill_v1_rows(rows) ELSE rows
           new == repair_legacy_null_rows(table)[id]
<1>1. /\ rows[id] \in Row /\ deadline[id] \in Nat /\ user_version \in Nat
      /\ RowOK(id) /\ WithinPromise(rows[id], deadline[id])
    BY Zenon DEF IInv, StartupTypeOK, RowsOK
<1>2. rows[id].session_expires_at <= deadline[id]
    BY Zenon, <1>1 DEF WithinPromise
<1> DEFINE filled == backfill_row(rows[id])
<1>3. /\ filled \in Row /\ validate_session_invariants(filled)
      /\ WithinPromise(filled, deadline[id])
    BY Zenon, <1>1, <1>2, BackfilledRow
<1>4. filled # NULL /\ ~is_legacy_null(filled)
    BY Zenon, <1>3, StartupAssumption DEF validate_session_invariants, is_legacy_null
<1>5. CASE version < 2
    <2>1. table[id] = filled
        BY Zenon, <1>5 DEF backfill_v1_rows
    <2>2. new = filled
        <3> HIDE DEF table, filled
        <3> QED BY Zenon, <2>1, <1>4 DEF repair_legacy_null_rows
    <2> QED BY Zenon, <1>3, <1>4, <2>2
<1>6. CASE ~(version < 2)
    <2>1. table = rows /\ user_version = SCHEMA_VERSION
        BY <1>1, <1>6 DEF SCHEMA_VERSION
    <2>2. CASE is_legacy_null(rows[id])
        <3>1. new = filled
            BY Zenon, <2>1, <2>2 DEF repair_legacy_null_rows
        <3> QED BY <1>3, <1>4, <3>1
    <2>3. CASE ~is_legacy_null(rows[id])
        <3>1. new = rows[id]
            BY Zenon, <2>1, <2>3 DEF repair_legacy_null_rows
        <3> QED BY <1>1, <2>3, <3>1 DEF RowOK
    <2> QED BY Zenon, <2>2, <2>3
<1> QED BY Zenon, <1>5, <1>6

LEMMA StepOfMigration ==
    ASSUME IInv, NEW p \in Procs, migrate(p)
    PROVE  IInv'
<1>1. /\ proc[p].pc = "migrating" /\ proc[p].version \in Nat /\ user_version \in Nat
      /\ writer = p /\ writer' = NoProc
      /\ proc[p].version <= user_version /\ user_version <= SCHEMA_VERSION
      /\ UNCHANGED <<now, deadline>>
    BY Zenon DEF migrate, IInv, StartupTypeOK, ProcsOK
<1>2. CASE proc[p].version < 2 /\ user_version >= 2
    <2>1. proc' = [proc EXCEPT ![p] = Down] /\ UNCHANGED <<user_version, rows, legacy>>
        BY Zenon, <1>2 DEF migrate
    <2>2. StartupTypeOK'
        BY Zenon, <1>1, <2>1 DEF Down, IInv, StartupTypeOK, Pc
    <2>3. ProcsOK'
        BY Zenon, <1>1, <2>1, StartupAssumption DEF Down, IInv, StartupTypeOK, ProcsOK, SCHEMA_VERSION
    <2>4. RowsOK'
        BY Zenon, <1>1, <2>1, RowsKept
    <2> QED BY Zenon, <2>2, <2>3, <2>4 DEF IInv
<1>3. CASE ~(proc[p].version < 2 /\ user_version >= 2)
    <2> DEFINE new == repair_legacy_null_rows(
                          IF proc[p].version < 2 THEN backfill_v1_rows(rows) ELSE rows)
    <2>1. /\ rows' = new /\ user_version' = SCHEMA_VERSION /\ legacy' = {}
          /\ proc' = [proc EXCEPT ![p].pc = "serving"]
        BY Zenon, <1>3 DEF migrate
    <2>2. ASSUME NEW id \in Ids, rows[id] # NULL
          PROVE  /\ new[id] \in Row /\ new[id] # NULL
                 /\ validate_session_invariants(new[id])
                 /\ WithinPromise(new[id], deadline[id])
        BY Zenon, <1>1, <1>3, <2>2, MigratedRows
    <2>3. ASSUME NEW id \in Ids, rows[id] = NULL
          PROVE  new[id] = NULL
        BY Zenon, <2>3 DEF repair_legacy_null_rows, backfill_v1_rows
    <2>4. new \in [Ids -> Row \cup {NULL}]
        <3>1. new = [id \in Ids |-> new[id]]
            BY Zenon DEF repair_legacy_null_rows
        <3>2. \A id \in Ids : new[id] \in Row \cup {NULL}
            BY Zenon, <2>2, <2>3
        <3> HIDE DEF new
        <3> QED BY Zenon, <3>1, <3>2
    <2>5. StartupTypeOK'
        BY <1>1, <2>1, <2>4 DEF IInv, StartupTypeOK, Pc, SCHEMA_VERSION
    <2>6. ProcsOK'
        <3> SUFFICES ASSUME NEW q \in Procs
                     PROVE  /\ writer' = q <=> proc'[q].pc = "migrating"
                            /\ proc'[q].pc \in {"begin", "migrating"} =>
                                  /\ proc'[q].version <= user_version'
                                  /\ user_version' <= SCHEMA_VERSION
                            /\ proc'[q].pc = "serving" => user_version' = SCHEMA_VERSION
                            /\ user_version' > SCHEMA_VERSION =>
                                  proc'[q].pc \in {"down", "opening"}
            BY Zenon DEF ProcsOK
        <3>1. CASE q = p
            BY <1>1, <2>1, <3>1, StartupAssumption DEF IInv, StartupTypeOK, SCHEMA_VERSION
        <3>2. CASE q # p
            BY SMTT(60), <1>1, <2>1, <3>2, StartupAssumption DEF IInv, StartupTypeOK, ProcsOK, SCHEMA_VERSION
        <3> QED BY Zenon, <3>1, <3>2
    <2>7. RowsOK'
        <3> SUFFICES ASSUME NEW id \in Ids, rows'[id] # NULL
                     PROVE  RowOK(id)' /\ WithinPromise(rows'[id], deadline'[id])
            BY Zenon DEF RowsOK
        <3>1. /\ validate_session_invariants(rows'[id])
              /\ WithinPromise(rows'[id], deadline'[id])
            BY Zenon, <1>1, <2>1, <2>2, <2>3
        <3> QED BY Zenon, <2>1, <3>1 DEF RowOK, validate_session_invariants
    <2> QED BY <2>5, <2>6, <2>7 DEF IInv
<1> QED BY Zenon, <1>2, <1>3

-----------------------------------------------------------------------------
(* Statements on one row.                                                  *)

\* What persist_pending, finalize_pending and touch_ready find.
LEMMA UsableRow ==
    ASSUME IInv, NEW id \in Ids, Usable(id)
    PROVE  /\ rows[id] \in Row /\ rows[id] # NULL /\ user_version = SCHEMA_VERSION
           /\ validate_session_invariants(rows[id])
           /\ WithinPromise(rows[id], deadline[id]) /\ deadline[id] \in Nat /\ now \in Nat
           /\ legacy \in SUBSET Ids /\ deadline \in [Ids -> Nat]
BY Zenon DEF Usable, Serving, IInv, StartupTypeOK, ProcsOK, RowsOK

LEMMA StepOfGateway ==
    ASSUME IInv, NEW id \in Ids,
           \/ CreateSession(id) \/ PersistPending(id) \/ FinalizePending(id) \/ TouchReady(id)
           \/ RevokeSession(id) \/ Prune(id)
    PROVE  IInv'
<1>0. /\ now \in Nat /\ legacy \in SUBSET Ids /\ deadline \in [Ids -> Nat]
      /\ rows[id] \in Row \cup {NULL}
    BY Zenon DEF IInv, StartupTypeOK
<1>1. CASE CreateSession(id)
    <2> DEFINE row == create_session(now)
               promise == now + AbsoluteTTL
    <2>1. /\ Write(id, row) /\ deadline' = [deadline EXCEPT ![id] = promise]
          /\ legacy' = legacy /\ user_version = SCHEMA_VERSION
        BY Zenon, <1>1 DEF CreateSession, Serving, IInv, ProcsOK
    <2>2. row \in Row /\ validate_session_invariants(row) /\ WithinPromise(row, promise)
        BY <1>0, StartupAssumption DEF create_session, Minimum, Row, Column,
                    validate_session_invariants, WithinPromise
    <2>3. promise \in Nat
        BY SMTT(60), <1>0, StartupAssumption
    <2> HIDE DEF row, promise
    <2> QED BY Zenon, <1>0, <2>1, <2>2, <2>3, WrittenRow
<1>2. CASE PersistPending(id)
    <2> DEFINE row == [rows[id] EXCEPT !.identity_state = "pending", !.pending_since = now,
                                       !.session_expires_at = COMPAT_DENY_AT]
    <2>1. Usable(id) /\ Write(id, row) /\ UNCHANGED <<legacy, deadline>>
        BY Zenon, <1>2 DEF PersistPending
    <2>2. /\ row \in Row
          /\ row.identity_state = "pending" /\ row.pending_since = now
          /\ row.session_expires_at = COMPAT_DENY_AT
          /\ row.idle_expires_at = rows[id].idle_expires_at
          /\ row.absolute_expires_at = rows[id].absolute_expires_at
        BY ZenonT(60), <1>0, <2>1, UsableRow DEF Row, Column, COMPAT_DENY_AT
    <2> HIDE DEF row
    <2>3. validate_session_invariants(row)
        BY Zenon, <1>0, <2>1, <2>2, UsableRow, StartupAssumption DEF validate_session_invariants
    <2>4. WithinPromise(row, deadline[id])
        BY <2>1, <2>2, UsableRow DEF WithinPromise, COMPAT_DENY_AT
    <2> QED BY Zenon, <1>0, <2>1, <2>2, <2>3, <2>4, UsableRow, WrittenRow
<1>3. CASE FinalizePending(id)
    <2> DEFINE row == [rows[id] EXCEPT !.identity_state = "ready", !.pending_since = NULL,
                                       !.session_expires_at = rows[id].idle_expires_at]
    <2>1. Usable(id) /\ Write(id, row) /\ UNCHANGED <<legacy, deadline>>
        BY Zenon, <1>3 DEF FinalizePending
    <2>2. rows[id].idle_expires_at \in Nat /\ rows[id].absolute_expires_at \in Nat
        BY Zenon, <2>1, UsableRow, ReadableColumns
    <2>3. /\ row \in Row
          /\ row.identity_state = "ready" /\ row.pending_since = NULL
          /\ row.session_expires_at = rows[id].idle_expires_at
          /\ row.idle_expires_at = rows[id].idle_expires_at
          /\ row.absolute_expires_at = rows[id].absolute_expires_at
        BY Zenon, <2>1, <2>2, UsableRow DEF Row, Column
    <2> HIDE DEF row
    <2>4. validate_session_invariants(row)
        BY Zenon, <2>1, <2>2, <2>3, UsableRow, StartupAssumption DEF validate_session_invariants
    <2>5. WithinPromise(row, deadline[id])
        <3>1. /\ rows[id].idle_expires_at <= rows[id].absolute_expires_at
              /\ rows[id].absolute_expires_at <= deadline[id] /\ deadline[id] \in Nat
            BY Zenon, <2>1, <2>2, UsableRow, StartupAssumption
               DEF validate_session_invariants, WithinPromise
        <3> QED BY <2>2, <2>3, <3>1 DEF WithinPromise
    <2> QED BY Zenon, <1>0, <2>1, <2>3, <2>4, <2>5, UsableRow, WrittenRow
<1>4. CASE TouchReady(id)
    <2> DEFINE candidate == Minimum(now + IdleTTL, rows[id].absolute_expires_at)
               row == [rows[id] EXCEPT !.idle_expires_at = candidate,
                                       !.session_expires_at = candidate]
    <2>1. /\ Usable(id) /\ Write(id, row) /\ UNCHANGED <<legacy, deadline>>
          /\ rows[id].identity_state = "ready"
        BY Zenon, <1>4 DEF TouchReady
    <2>2. /\ rows[id].absolute_expires_at \in Nat
          /\ candidate \in Nat /\ candidate <= rows[id].absolute_expires_at
        BY <1>0, <2>1, UsableRow, ReadableColumns, StartupAssumption DEF Minimum
    <2> HIDE DEF candidate
    <2>3. /\ row \in Row
          /\ row.identity_state = "ready" /\ row.pending_since = rows[id].pending_since
          /\ row.session_expires_at = candidate /\ row.idle_expires_at = candidate
          /\ row.absolute_expires_at = rows[id].absolute_expires_at
        BY Zenon, <2>1, <2>2, UsableRow DEF Row, Column
    <2> HIDE DEF row
    <2>4. validate_session_invariants(row)
        BY Zenon, <2>1, <2>2, <2>3, UsableRow, StartupAssumption DEF validate_session_invariants
    <2>5. WithinPromise(row, deadline[id])
        <3>1. rows[id].absolute_expires_at <= deadline[id] /\ deadline[id] \in Nat
            BY Zenon, <2>1, <2>2, UsableRow, StartupAssumption DEF WithinPromise
        <3> QED BY <2>2, <2>3, <3>1 DEF WithinPromise
    <2> QED BY Zenon, <1>0, <2>1, <2>3, <2>4, <2>5, UsableRow, WrittenRow
<1>5. CASE RevokeSession(id)
    <2> DEFINE row == [rows[id] EXCEPT !.revoked = TRUE]
    <2>1. rows[id] # NULL /\ Write(id, row) /\ UNCHANGED <<legacy, deadline>>
        BY Zenon, <1>5 DEF RevokeSession
    <2>2. rows[id] \in Row /\ RowOK(id) /\ WithinPromise(rows[id], deadline[id])
        BY Zenon, <1>0, <2>1 DEF IInv, RowsOK
    <2>3. /\ row \in Row
          /\ row.identity_state = rows[id].identity_state
          /\ row.pending_since = rows[id].pending_since
          /\ row.session_expires_at = rows[id].session_expires_at
          /\ row.idle_expires_at = rows[id].idle_expires_at
          /\ row.absolute_expires_at = rows[id].absolute_expires_at
        BY Zenon, <2>2 DEF Row
    <2> HIDE DEF row
    <2>4. \/ is_legacy_null(row) /\ (user_version = SCHEMA_VERSION => id \in legacy')
          \/ validate_session_invariants(row) /\ user_version = SCHEMA_VERSION
        BY Zenon, <2>1, <2>2, <2>3 DEF RowOK, is_legacy_null, validate_session_invariants
    <2>5. WithinPromise(row, deadline'[id])
        BY Zenon, <2>1, <2>2, <2>3 DEF WithinPromise
    <2> QED BY Zenon, <1>0, <2>1, <2>3, <2>4, <2>5, WrittenRow
<1>6. CASE Prune(id)
    <2>1. Write(id, NULL) /\ legacy' = legacy \ {id} /\ deadline' = deadline
        BY Zenon, <1>6 DEF Prune
    <2> QED BY Zenon, <1>0, <2>1, WrittenRow
<1> QED BY Zenon, <1>1, <1>2, <1>3, <1>4, <1>5, <1>6

LEMMA StepOfOldBinary ==
    ASSUME IInv, NEW id \in Ids, OldCreates(id) \/ OldPrunes(id)
    PROVE  IInv'
<1>0. now \in Nat /\ legacy \in SUBSET Ids /\ deadline \in [Ids -> Nat]
    BY Zenon DEF IInv, StartupTypeOK
<1>1. CASE OldCreates(id)
    <2>1. PICK ttl \in OldTTLs : /\ Write(id, v1_row(now, ttl))
                                 /\ deadline' = [deadline EXCEPT ![id] = now + ttl]
        BY Zenon, <1>1 DEF OldCreates
    <2>2. legacy' = legacy \cup {id}
        BY Zenon, <1>1 DEF OldCreates
    <2> DEFINE row == v1_row(now, ttl)
    <2>3. ttl \in Nat /\ now + ttl \in Nat
        BY <1>0, StartupAssumption
    <2>4. row \in Row /\ is_legacy_null(row) /\ WithinPromise(row, now + ttl)
        BY <1>0, <2>3, StartupAssumption DEF v1_row, Row, Column, is_legacy_null, WithinPromise
    <2> HIDE DEF row
    <2>5. Write(id, row)
        BY Zenon, <2>1 DEF row
    <2> QED BY Zenon, <1>0, <2>1, <2>2, <2>3, <2>4, <2>5, WrittenRow
<1>2. CASE OldPrunes(id)
    <2>1. Write(id, NULL) /\ legacy' = legacy \ {id} /\ deadline' = deadline
        BY Zenon, <1>2 DEF OldPrunes
    <2> QED BY Zenon, <1>0, <2>1, WrittenRow
<1> QED BY Zenon, <1>1, <1>2

\* The old binary's first start, and time.
LEMMA StepOfTheRest ==
    ASSUME IInv, OldCreatesSchema \/ Tick \/ UNCHANGED vars
    PROVE  IInv'
<1>1. CASE OldCreatesSchema
    <2>1. StartupTypeOK'
        BY Zenon, <1>1 DEF OldCreatesSchema, IInv, StartupTypeOK
    <2>2. ProcsOK'
        BY <1>1 DEF OldCreatesSchema, IInv, StartupTypeOK, ProcsOK, SCHEMA_VERSION
    <2>3. RowsOK'
        BY <1>1 DEF OldCreatesSchema, IInv, RowsOK, RowOK, is_legacy_null, SCHEMA_VERSION,
                    validate_session_invariants, WithinPromise
    <2> QED BY Zenon, <2>1, <2>2, <2>3 DEF IInv
<1>2. CASE Tick
    <2>1. StartupTypeOK' /\ ProcsOK'
        BY <1>2 DEF Tick, IInv, StartupTypeOK, ProcsOK
    <2>2. RowsOK'
        BY Zenon, <1>2, RowsKept DEF Tick
    <2> QED BY Zenon, <2>1, <2>2 DEF IInv
<1>3. CASE UNCHANGED vars
    <2>1. StartupTypeOK' /\ ProcsOK'
        BY Zenon, <1>3 DEF vars, IInv, StartupTypeOK, ProcsOK
    <2>2. RowsOK'
        BY Zenon, <1>3, RowsKept DEF vars
    <2> QED BY <2>1, <2>2 DEF IInv
<1> QED BY Zenon, <1>1, <1>2, <1>3

LEMMA NextIInv == IInv /\ [Next]_vars => IInv'
<1> SUFFICES ASSUME IInv, [Next]_vars PROVE IInv'
    OBVIOUS
<1>1. ASSUME NEW p \in Procs,
             run(p) \/ ReadVersion(p) \/ BeginImmediate(p) \/ migrate(p) \/ Exit(p)
      PROVE  IInv'
    BY Zenon, <1>1, StepOfProcess, StepOfMigration
<1>2. ASSUME NEW id \in Ids,
             \/ CreateSession(id) \/ PersistPending(id) \/ FinalizePending(id) \/ TouchReady(id)
             \/ RevokeSession(id) \/ Prune(id) \/ OldCreates(id) \/ OldPrunes(id)
      PROVE  IInv'
    BY Zenon, <1>2, StepOfGateway, StepOfOldBinary
<1>3. ASSUME OldCreatesSchema \/ Tick \/ UNCHANGED vars
      PROVE  IInv'
    BY Zenon, <1>3, StepOfTheRest
<1> QED BY Zenon, <1>1, <1>2, <1>3 DEF Next

-----------------------------------------------------------------------------
(* Theorems.                                                               *)

LEMMA Invariance == Spec => []IInv
<1>1. Init => IInv
    BY Zenon, InitIInv
<1>2. IInv /\ [Next]_vars => IInv'
    BY Zenon, NextIInv
<1> QED BY <1>1, <1>2, PTL DEF Spec

\* In whatever order any number of gateways and the old binary start, stop,
\* fail and write, a gateway that serves finds version 2 and rows it can read,
\* except rows the old binary has inserted since (migrate, backfill_v1_rows,
\* repair_legacy_null_rows and every later statement).
THEOREM ServedRowsReadable == Spec => []RowsReadable
<1>1. IInv => RowsReadable
    BY Zenon DEF IInv, ProcsOK, RowsOK, RowOK, RowsReadable, Serving
<1> QED BY <1>1, Invariance, PTL

\* No chain of migrations, repairs and statements of either binary makes a
\* session last longer than it was first promised (backfill_row, touch_ready,
\* COMPAT_DENY_AT).
THEOREM PromiseKept == Spec => []NeverOutlivesPromise
<1>1. ASSUME IInv, NEW id \in Ids, rows[id] # NULL
      PROVE  /\ old_accepts(rows[id]) => now < deadline[id] /\ rows[id].identity_state # "pending"
             /\ validate_session_invariants(rows[id]) /\ is_active(rows[id]) => now < deadline[id]
    <2>1. /\ rows[id] \in Row /\ now \in Nat /\ deadline[id] \in Nat
          /\ WithinPromise(rows[id], deadline[id])
        BY Zenon, <1>1 DEF IInv, StartupTypeOK, RowsOK
    <2>2. rows[id].session_expires_at \in Nat
        BY Zenon, <2>1 DEF Row
    <2>3. old_accepts(rows[id]) => now < deadline[id] /\ rows[id].identity_state # "pending"
        BY <2>1, <2>2 DEF old_accepts, WithinPromise, COMPAT_DENY_AT
    <2>4. ASSUME validate_session_invariants(rows[id]), is_active(rows[id])
          PROVE  now < deadline[id]
        <3>1. rows[id].absolute_expires_at \in Nat /\ rows[id].absolute_expires_at # NULL
            BY Zenon, <2>1, <2>4, ReadableColumns, StartupAssumption
        <3> QED BY <2>1, <2>4, <3>1 DEF is_active, WithinPromise
    <2> QED BY Zenon, <2>3, <2>4
<1>2. IInv => NeverOutlivesPromise
    BY Zenon, <1>1 DEF NeverOutlivesPromise
<1> QED BY <1>2, Invariance, PTL

-----------------------------------------------------------------------------
(* Limits.                                                                 *)

AcceptedEnv == \A p \in Procs :
    proc[p].pc # "down" => proc[p].env \in Environments /\ run_accepts(proc[p].env)

LEMMA AcceptedStays == IInv /\ AcceptedEnv /\ [Next]_vars => AcceptedEnv'
<1> SUFFICES ASSUME IInv, AcceptedEnv, [Next]_vars, NEW q \in Procs, proc'[q].pc # "down"
             PROVE  proc'[q].env \in Environments /\ run_accepts(proc'[q].env)
    BY Zenon DEF AcceptedEnv, run_accepts, validate, validate_session_lifetimes, validate_capacity,
           validate_upstream_protocol, max_blocking_threads, required_nofile, validate_nofile
<1>1. proc \in [Procs -> [pc : Pc, env : Environments \cup {NULL}, version : Nat]]
    BY Zenon DEF IInv, StartupTypeOK
<1>2. CASE proc' = proc
    BY Zenon, <1>2 DEF AcceptedEnv
<1>3. ASSUME NEW p \in Procs, run(p)
      PROVE  proc'[q].env \in Environments /\ run_accepts(proc'[q].env)
    <2>1. PICK e \in Environments :
              /\ run_accepts(e)
              /\ proc' = [proc EXCEPT ![p] = [pc |-> "opening", env |-> e, version |-> 0]]
        BY Zenon, <1>3 DEF run
    <2>2. CASE q = p
        BY Zenon, <1>1, <2>1, <2>2
    <2>3. CASE q # p
        BY Zenon, <1>1, <2>1, <2>3 DEF AcceptedEnv
    <2> QED BY Zenon, <2>2, <2>3
<1>4. ASSUME NEW p \in Procs, ReadVersion(p) \/ BeginImmediate(p) \/ migrate(p) \/ Exit(p)
      PROVE  proc'[q].env \in Environments /\ run_accepts(proc'[q].env)
    <2>1. proc'[q].env = proc[q].env /\ proc[q].pc # "down"
        BY <1>1, <1>4 DEF ReadVersion, BeginImmediate, migrate, Exit, Down
    <2> QED BY Zenon, <2>1 DEF AcceptedEnv
<1>5. ASSUME NEW id \in Ids,
             \/ CreateSession(id) \/ PersistPending(id) \/ FinalizePending(id) \/ TouchReady(id)
             \/ RevokeSession(id) \/ Prune(id) \/ OldCreates(id) \/ OldPrunes(id)
      PROVE  proc' = proc
    BY Zenon, <1>5 DEF CreateSession, PersistPending, FinalizePending, TouchReady, RevokeSession, Prune,
                OldCreates, OldPrunes, Write
<1>6. OldCreatesSchema \/ Tick \/ UNCHANGED vars => proc' = proc
    BY Zenon DEF OldCreatesSchema, Tick, vars
<1> QED BY Zenon, <1>2, <1>3, <1>4, <1>5, <1>6 DEF Next

\* Whatever its environment: a gateway that serves has the descriptors, the
\* blocking threads and the stream permits its limits promise
\* (Config::validate, required_nofile_for, RuntimePlan::new).
THEOREM BudgetSuffices == Spec => []ServingWithinBudget
<1>1. Init => AcceptedEnv
    BY DEF Init, AcceptedEnv, Down
<1>2. Spec => []AcceptedEnv
    BY <1>1, AcceptedStays, Invariance, PTL DEF Spec
<1>3. AcceptedEnv => ServingWithinBudget
    <2> SUFFICES ASSUME AcceptedEnv, NEW p \in Procs, proc[p].pc = "serving"
                 PROVE  LET e == proc[p].env
                            transports == IF e.proxy
                                          THEN e.max_active + UPSTREAM_IDLE_POOL_CAPACITY ELSE 0
                            reserved == IF e.proxy THEN e.max_downstream - e.max_active
                                        ELSE e.max_downstream
                        IN  /\ e.soft_nofile = NULL
                                  \/ e.max_downstream + transports + 1 + ANCILLARY_FD_RESERVE
                                         <= e.soft_nofile
                            /\ reserved >= (IF e.proxy THEN PROXY_DOWNSTREAM_HEADROOM ELSE 1)
                            /\ AUTH_BLOCKING_WORKERS + e.resolvers < max_blocking_threads(e)
                            /\ 0 < e.touch /\ e.touch <= e.absolute
        BY Zenon DEF ServingWithinBudget
    <2>1. PICK e \in Environments : e = proc[p].env /\ run_accepts(e)
        BY Zenon DEF AcceptedEnv
    <2>2. /\ e.max_downstream \in Nat /\ e.max_active \in Nat /\ e.resolvers \in Nat
          /\ e.soft_nofile \in Nat \cup {NULL} /\ e.proxy \in BOOLEAN
          /\ e.touch \in Int /\ e.idle \in Int /\ e.absolute \in Int
        BY Zenon, EnvironmentsAssumption DEF Column
    <2>3. 0 < e.touch /\ e.touch <= e.absolute
        BY <2>1, <2>2 DEF run_accepts, validate, validate_session_lifetimes
    <2>4. /\ e.max_downstream >= 1
          /\ e.proxy => e.max_downstream >= e.max_active + PROXY_DOWNSTREAM_HEADROOM
        BY <2>1, <2>2 DEF run_accepts, validate, validate_capacity
    <2>5. e.soft_nofile # NULL => required_nofile(e) <= e.soft_nofile
        BY Zenon, <2>1 DEF run_accepts, validate_nofile
    <2> QED BY <2>1, <2>2, <2>3, <2>4, <2>5
            DEF required_nofile, max_blocking_threads, UPSTREAM_IDLE_POOL_CAPACITY,
                ANCILLARY_FD_RESERVE, LISTENER_FD_BUDGET, PROXY_DOWNSTREAM_HEADROOM,
                AUTH_BLOCKING_WORKERS, BLOCKING_RUNTIME_MARGIN
<1> QED BY <1>2, <1>3, PTL

-----------------------------------------------------------------------------
(* Downstream.  Every stream in use has a socket, a pool and somebody who  *)
(* holds its lease, so what is free and what is in use add up; and after a *)
(* failure of accept the loop waits, longer after the next one.            *)

Held(pool) == {s \in Streams : stream[s].pool = pool}

\* A stream that is in use has a socket, a pool and somebody who holds its lease.
StreamOK(s) ==
    \/ stream[s] = NoStream
    \/ stream[s].conn \in Connections /\ stream[s].pool # "none" /\ stream[s].holders # {}

\* Only as many sockets and streams are in use as there are permits: the sets are finite
\* however many names there are for them.
Counted(set, permits, all) == IsFiniteSet(set) /\ permits + Cardinality(set) = all

LoopHolds == IF loop = "accept" THEN 1 ELSE 0

PermitsInv ==
    /\ TypeOK
    /\ \A s \in Streams : StreamOK(s)
    /\ Counted(Leased, free + LoopHolds, MaxDownstream)
    /\ Counted(Held("owned"), owned, OwnedPermits)
    /\ ProxyMode => Counted(Held("fallback"), fallback, MaxActive)
    /\ FailuresReported
-----------------------------------------------------------------------------
LEMMA CountAdd ==
    ASSUME NEW set, NEW x, x \notin set, NEW p \in Nat, NEW q \in Nat, NEW all, p = q + 1,
           Counted(set, p, all)
    PROVE  Counted(set \cup {x}, q, all)
<1>1. Cardinality(set) \in Nat
  BY FS_CardinalityType DEF Counted
<1> QED BY <1>1, FS_AddElement DEF Counted

LEMMA CountRemove ==
    ASSUME NEW set, NEW x \in set, NEW p \in Nat, NEW all, Counted(set, p, all)
    PROVE  Counted(set \ {x}, p + 1, all)
<1>1. Cardinality(set) \in Nat
  BY FS_CardinalityType DEF Counted
<1>2. IsFiniteSet(set \ {x}) /\ Cardinality(set \ {x}) = Cardinality(set) - 1
  BY FS_RemoveElement DEF Counted
<1>3. p + Cardinality(set) = all
  BY DEF Counted
<1>4. p + 1 + (Cardinality(set) - 1) = all
  BY <1>1, <1>3
<1> QED BY <1>2, <1>4 DEF Counted

LEMMA LoopHoldsType == LoopHolds \in {0, 1}
BY DEF LoopHolds

LEMMA PermitsInit == DownstreamInit => PermitsInv
<1> SUFFICES ASSUME DownstreamInit PROVE PermitsInv
  OBVIOUS
<1>1. OwnedPermits \in Nat
  BY DownstreamAssumption DEF OwnedPermits
<1>2. TypeOK
  BY <1>1, DownstreamAssumption
     DEF DownstreamInit, TypeOK, NoBackoff, NoLog, NoStream, Holders, AcceptClasses
<1>3. \A s \in Streams : stream[s] = NoStream
  BY DEF DownstreamInit
<1>4. Leased = {} /\ Held("owned") = {} /\ Held("fallback") = {}
  BY <1>3 DEF Leased, LeaseHolders, Held, NoStream, DownstreamInit
<1>5. LoopHolds = 0
  BY DEF DownstreamInit, LoopHolds
<1> QED BY <1>1, <1>2, <1>3, <1>4, <1>5, FS_EmptySet, DownstreamAssumption
        DEF PermitsInv, StreamOK, Counted, FailuresReported, DownstreamInit, NoLog

\* A step of the accept loop alone.
LEMMA PermitsLoop ==
    ASSUME PermitsInv, UNCHANGED <<conn, stream, owned, fallback>>, TypeOK', FailuresReported',
           free' + LoopHolds' = free + LoopHolds
    PROVE  PermitsInv'
<1>1. Leased' = Leased /\ Held("owned")' = Held("owned") /\ Held("fallback")' = Held("fallback")
  BY DEF Leased, LeaseHolders, Held
<1> QED BY <1>1 DEF PermitsInv, Counted, StreamOK

LEMMA Failing ==
    ASSUME TypeOK, FailuresReported, NEW periodic \in BOOLEAN, failure(periodic)
    PROVE  FailuresReported' /\ reported' \in Nat /\ log' \in [failures : Nat, suppressed : Nat]
BY DEF TypeOK, FailuresReported, failure

LEMMA NextBackoff ==
    ASSUME TypeOK, NEW class \in AcceptClasses
    PROVE  /\ next_streak(class) \in Nat \ {0}
           /\ next_streak(class) = IF backoff.class = class THEN backoff.same_class_streak + 1 ELSE 1
BY DEF TypeOK, next_streak

LEMMA PermitsAcceptLoop ==
    ASSUME PermitsInv, AcquirePermit \/ AcceptFails \/ Slept \/ AcceptFatal
    PROVE  PermitsInv'
<1>1. CASE AcquirePermit
  BY <1>1, PermitsLoop DEF AcquirePermit, PermitsInv, TypeOK, FailuresReported, LoopHolds
<1>2. CASE AcceptFails
  <2>1. PICK class \in AcceptClasses, periodic \in BOOLEAN :
            /\ backoff' = [class |-> class, same_class_streak |-> next_streak(class)]
            /\ failure(periodic)
    BY <1>2 DEF AcceptFails
  <2>2. TypeOK' /\ FailuresReported'
    BY <1>2, <2>1, Failing, NextBackoff DEF AcceptFails, PermitsInv, TypeOK
  <2> QED BY <1>2, <2>2, PermitsLoop DEF AcceptFails, LoopHolds, PermitsInv, TypeOK
<1>3. CASE Slept
  BY <1>3, PermitsLoop DEF Slept, PermitsInv, TypeOK, FailuresReported, LoopHolds
<1>4. CASE AcceptFatal
  BY <1>4, PermitsLoop DEF AcceptFatal, PermitsInv, TypeOK, FailuresReported, LoopHolds
<1> QED BY <1>1, <1>2, <1>3, <1>4

LEMMA PermitsAccepted ==
    ASSUME PermitsInv, Accepted
    PROVE  PermitsInv'
<1> DEFINE unused == {c \in Connections : conn[c] = "closed" /\ \A s \in Streams : stream[s].conn # c}
           c == CHOOSE c \in unused : TRUE
<1>1. c \in unused
  BY DEF Accepted
<1>2. conn' = [conn EXCEPT ![c] = "head"] /\ UNCHANGED <<free, stream, owned, fallback>>
  BY DEF Accepted
<1> HIDE DEF c
<1>3. TypeOK' /\ FailuresReported'
  BY <1>1, <1>2 DEF Accepted, PermitsInv, TypeOK, FailuresReported, NoLog, NoBackoff
<1>4. c \notin Leased /\ Leased' = Leased \cup {c}
  BY <1>1, <1>2 DEF Leased, LeaseHolders, PermitsInv, TypeOK
<1>5. LoopHolds = 1 /\ LoopHolds' = 0
  BY DEF LoopHolds, Accepted
<1>6. Counted(Leased, free + LoopHolds, MaxDownstream)' 
  BY <1>2, <1>4, <1>5, CountAdd DEF PermitsInv, TypeOK
<1>7. Held("owned")' = Held("owned") /\ Held("fallback")' = Held("fallback")
  BY <1>2 DEF Held
<1> QED BY <1>2, <1>3, <1>6, <1>7 DEF PermitsInv, StreamOK

\* Request: the socket is open, and so its permit is out already.
LEMMA PermitsRequest ==
    ASSUME PermitsInv, NEW c \in Connections, NEW s \in Streams, Request(c, s)
    PROVE  PermitsInv'
<1>1. conn' \in [Connections -> {"closed", "head", "serving"}] /\ conn[c] # "closed"
      /\ \A d \in Connections : conn'[d] = "closed" <=> conn[d] = "closed"
  BY DEF Request, PermitsInv, TypeOK
<1>2. LoopHolds' = LoopHolds /\ UNCHANGED <<loopVars, free>> /\ FailuresReported'
  BY DEF Request, loopVars, LoopHolds, PermitsInv, FailuresReported
<1>3. PICK pool \in {"http1", "owned", "fallback"} :
         \/ /\ try_acquire(pool) /\ (pool = "fallback" => ProxyMode)
            /\ stream' = [stream EXCEPT ![s] = [conn |-> c, pool |-> pool, holders |-> {"handler"}]]
         \/ UNCHANGED <<stream, owned, fallback>>
  BY DEF Request, PoolOf
<1>4. CASE UNCHANGED <<stream, owned, fallback>>
  <2>1. Leased' = Leased /\ Held("owned")' = Held("owned") /\ Held("fallback")' = Held("fallback")
    BY <1>1, <1>4 DEF Leased, LeaseHolders, Held
  <2>2. TypeOK'
    BY <1>1, <1>2, <1>4 DEF PermitsInv, TypeOK, loopVars
  <2> QED BY <1>2, <1>4, <2>1, <2>2 DEF PermitsInv, StreamOK, Counted
<1>5. CASE try_acquire(pool) /\ (pool = "fallback" => ProxyMode)
           /\ stream' = [stream EXCEPT ![s] = [conn |-> c, pool |-> pool, holders |-> {"handler"}]]
  <2>1. /\ stream' \in [Streams -> [conn : Connections \cup {NoConnection},
                                     pool : {"none", "http1", "owned", "fallback"},
                                     holders : SUBSET Holders]]
        /\ stream'[s] = [conn |-> c, pool |-> pool, holders |-> {"handler"}]
        /\ \A u \in Streams \ {s} : stream'[u] = stream[u]
        /\ stream[s].pool = "none" /\ stream[s].conn = NoConnection
    BY <1>5 DEF PermitsInv, TypeOK, Request, NoStream, Holders
  <2>2. TypeOK'
    BY <1>1, <1>2, <1>5, <2>1 DEF PermitsInv, TypeOK, loopVars, try_acquire
  <2>3. Leased' = Leased
    BY <1>1, <2>1, DownstreamAssumption DEF Leased, LeaseHolders
  <2>4. ASSUME NEW u \in Streams PROVE StreamOK(u)'
    <3>1. CASE u = s
      BY <1>3, <2>1, <3>1 DEF StreamOK
    <3>2. CASE u # s
      BY <2>1, <3>2 DEF PermitsInv, StreamOK
    <3> QED BY <3>1, <3>2
  <2>5. Held("owned")' = IF pool = "owned" THEN Held("owned") \cup {s} ELSE Held("owned")
    BY <2>1 DEF Held
  <2>6. Held("fallback")' = IF pool = "fallback" THEN Held("fallback") \cup {s} ELSE Held("fallback")
    BY <2>1 DEF Held
  <2>7. s \notin Held("owned") /\ s \notin Held("fallback")
    BY <2>1 DEF Held
  <2>8. Counted(Held("owned")', owned', OwnedPermits)
    <3>1. CASE pool = "owned"
      BY <1>5, <2>2, <2>5, <2>7, <3>1, CountAdd DEF PermitsInv, TypeOK, try_acquire
    <3>2. CASE pool # "owned"
      BY <1>5, <2>5, <3>2 DEF PermitsInv, try_acquire
    <3> QED BY <3>1, <3>2
  <2>9. ProxyMode => Counted(Held("fallback")', fallback', MaxActive)
    <3>1. CASE pool = "fallback"
      BY <1>5, <2>2, <2>6, <2>7, <3>1, CountAdd DEF PermitsInv, TypeOK, try_acquire
    <3>2. CASE pool # "fallback"
      BY <1>5, <2>6, <3>2 DEF PermitsInv, try_acquire
    <3> QED BY <3>1, <3>2
  <2> QED BY <1>2, <2>2, <2>3, <2>4, <2>8, <2>9 DEF PermitsInv, Counted
<1> QED BY <1>3, <1>4, <1>5

\* A holder of a stream's lease drops its clone.
LEMMA PermitsRelease ==
    ASSUME PermitsInv, NEW s \in Streams, NEW left \in SUBSET Holders,
           stream[s].holders # {}, left \cap OnSocket # {} => stream[s].holders \cap OnSocket # {},
           Release(s, left), UNCHANGED <<loopVars, conn>>
    PROVE  PermitsInv'
<1> DEFINE c == stream[s].conn
           gone == conn[c] = "closed" /\ LeaseHolders(c) = {s} /\ left \cap OnSocket = {}
<1>1. c \in Connections /\ stream[s].pool # "none"
  BY DEF PermitsInv, StreamOK, NoStream
<1>2. /\ stream' \in [Streams -> [conn : Connections \cup {NoConnection},
                                   pool : {"none", "http1", "owned", "fallback"},
                                   holders : SUBSET Holders]]
      /\ stream'[s] = IF left = {} THEN NoStream ELSE [stream[s] EXCEPT !.holders = left]
      /\ \A u \in Streams \ {s} : stream'[u] = stream[u]
  BY DEF PermitsInv, TypeOK, Release, NoStream
<1>3. LoopHolds' = LoopHolds /\ FailuresReported'
  BY DEF loopVars, LoopHolds, PermitsInv, FailuresReported
<1>4. TypeOK'
  <2>1. free' \in Nat /\ owned' \in Nat /\ fallback' \in Nat
    BY DEF PermitsInv, TypeOK, Release
  <2> QED BY <1>2, <2>1 DEF PermitsInv, TypeOK, loopVars
<1>5. \A u \in Streams : StreamOK(u)'
  <2>1. stream'[s] = NoStream \/ (stream'[s].conn = c /\ stream'[s].pool = stream[s].pool
                                  /\ stream'[s].holders = left /\ left # {})
    BY <1>2 DEF PermitsInv, TypeOK
  <2> QED BY <1>1, <1>2, <2>1 DEF PermitsInv, StreamOK
<1>6. Counted(Held("owned")', owned', OwnedPermits)
  <2>1. CASE left = {} /\ stream[s].pool = "owned"
    <3>1. s \in Held("owned") /\ Held("owned")' = Held("owned") \ {s}
      BY <1>2, <2>1 DEF Held, NoStream
    <3> QED BY <2>1, <3>1, CountRemove DEF Release, PermitsInv, TypeOK
  <2>2. CASE ~(left = {} /\ stream[s].pool = "owned")
    <3>1. Held("owned")' = Held("owned")
      BY <1>2, <2>2 DEF Held, NoStream, PermitsInv, TypeOK
    <3> QED BY <2>2, <3>1 DEF Release, PermitsInv, TypeOK
  <2> QED BY <2>1, <2>2
<1>7. ProxyMode => Counted(Held("fallback")', fallback', MaxActive)
  <2>1. CASE left = {} /\ stream[s].pool = "fallback"
    <3>1. s \in Held("fallback") /\ Held("fallback")' = Held("fallback") \ {s}
      BY <1>2, <2>1 DEF Held, NoStream
    <3> QED BY <2>1, <3>1, CountRemove DEF Release, PermitsInv, TypeOK
  <2>2. CASE ~(left = {} /\ stream[s].pool = "fallback")
    <3>1. Held("fallback")' = Held("fallback")
      BY <1>2, <2>2 DEF Held, NoStream, PermitsInv, TypeOK
    <3> QED BY <2>2, <3>1 DEF Release, PermitsInv, TypeOK
  <2> QED BY <2>1, <2>2
<1>8. \A d \in Connections \ {c} : LeaseHolders(d)' = LeaseHolders(d)
  BY <1>2, DownstreamAssumption DEF LeaseHolders, NoStream, PermitsInv, TypeOK
<1>9. LeaseHolders(stream[s].conn) \ {s} = {u \in Streams \ {s} : stream'[u].conn = c /\ stream'[u].holders \cap OnSocket # {}}
  BY <1>2 DEF LeaseHolders
<1>10. s \in LeaseHolders(c) <=> stream[s].holders \cap OnSocket # {}
  BY DEF LeaseHolders
<1>11. \A d \in Connections : d \in Leased' <=> conn[d] # "closed" \/ LeaseHolders(d)' # {}
  BY DEF Leased
<1>12. s \in {u \in Streams : stream'[u].conn = c /\ stream'[u].holders \cap OnSocket # {}}
          <=> left \cap OnSocket # {}
  BY <1>2 DEF NoStream, PermitsInv, TypeOK
<1>13. Counted(Leased', free' + LoopHolds, MaxDownstream)
  <2>1. CASE gone
    <3>1. c \in Leased /\ Leased' = Leased \ {c}
      BY <1>1, <1>8, <1>9, <1>10, <1>11, <1>12, <2>1 DEF Leased, LeaseHolders
    <3> QED BY <2>1, <3>1, CountRemove, LoopHoldsType DEF Release, PermitsInv, TypeOK
  <2>2. CASE ~gone
    <3>1. Leased' = Leased
      BY <1>1, <1>8, <1>9, <1>10, <1>11, <1>12, <2>2 DEF Leased, LeaseHolders
    <3> QED BY <2>2, <3>1 DEF Release, PermitsInv, TypeOK
  <2> QED BY <2>1, <2>2
<1> QED BY <1>3, <1>4, <1>5, <1>6, <1>7, <1>13 DEF PermitsInv, Counted

LEMMA PermitsStream ==
    ASSUME PermitsInv, NEW s \in Streams,
           \/ Respond(s) \/ StreamEnds(s)
           \/ \E part \in Outliving : ExchangeEnds(s, part)
    PROVE  PermitsInv'
<1>1. stream[s].holders \in SUBSET Holders
  BY DEF PermitsInv, TypeOK
<1>2. CASE Respond(s)
  <2>1. PICK tunnel \in {{}, {"tunnel"}} :
            Release(s, (stream[s].holders \ {"handler"}) \cup {"response"} \cup tunnel)
    BY <1>2 DEF Respond
  <2>2. (stream[s].holders \ {"handler"}) \cup {"response"} \cup tunnel \in SUBSET Holders
    BY <1>1 DEF Holders
  <2>3. stream[s].holders \cap OnSocket # {} /\ stream[s].holders # {}
    BY <1>2 DEF Respond, OnSocket
  <2> QED BY <1>2, <2>1, <2>2, <2>3, PermitsRelease DEF Respond
<1>3. CASE StreamEnds(s)
  BY <1>1, <1>3, PermitsRelease DEF StreamEnds, Outliving
<1>4. ASSUME NEW part \in Outliving, ExchangeEnds(s, part) PROVE PermitsInv'
  BY <1>1, <1>4, PermitsRelease DEF ExchangeEnds
<1> QED BY <1>2, <1>3, <1>4

LEMMA PermitsForward ==
    ASSUME PermitsInv, NEW s \in Streams, Forward(s)
    PROVE  PermitsInv'
<1>1. /\ stream' \in [Streams -> [conn : Connections \cup {NoConnection},
                                   pool : {"none", "http1", "owned", "fallback"},
                                   holders : SUBSET Holders]]
      /\ \A u \in Streams : stream'[u].conn = stream[u].conn /\ stream'[u].pool = stream[u].pool
      /\ \A u \in Streams \ {s} : stream'[u] = stream[u]
      /\ stream[s].holders = {"handler"} /\ stream'[s].holders = {"handler", "upload"}
  BY DEF Forward, PermitsInv, TypeOK, Holders
<1>2. UNCHANGED <<loop, backoff, log, reported, free, conn, owned, fallback>>
  BY DEF Forward, loopVars
<1>3. Leased' = Leased /\ Held("owned")' = Held("owned") /\ Held("fallback")' = Held("fallback")
  BY <1>1, <1>2 DEF Leased, LeaseHolders, Held, OnSocket
<1>4. TypeOK' /\ FailuresReported' /\ LoopHolds' = LoopHolds
  BY <1>1, <1>2 DEF PermitsInv, TypeOK, FailuresReported, LoopHolds
<1>5. \A u \in Streams : StreamOK(u)'
  BY <1>1 DEF PermitsInv, StreamOK, NoStream
<1> QED BY <1>2, <1>3, <1>4, <1>5 DEF PermitsInv, Counted

LEMMA PermitsClose ==
    ASSUME PermitsInv, NEW c \in Connections, Close(c)
    PROVE  PermitsInv'
<1> DEFINE ours == {s \in Streams : stream[s].conn = c}
           kept(s) == stream[s].holders \cap (IF stream[s].pool = "http1" THEN Outliving ELSE Holders)
           gone == \A s \in ours : kept(s) \cap OnSocket = {}
<1>1. \A s \in Streams : kept(s) \in SUBSET Holders /\ kept(s) \subseteq stream[s].holders
  BY DEF PermitsInv, TypeOK
<1>2. \A s \in Streams : stream'[s] = IF s \notin ours THEN stream[s]
                                      ELSE IF kept(s) = {} THEN NoStream
                                      ELSE [stream[s] EXCEPT !.holders = kept(s)]
  BY DEF Close
<1>3. stream' \in [Streams -> [conn : Connections \cup {NoConnection},
                               pool : {"none", "http1", "owned", "fallback"},
                               holders : SUBSET Holders]]
  BY <1>1 DEF Close, PermitsInv, TypeOK, NoStream
<1>4. UNCHANGED <<loop, backoff, log, reported, owned, fallback>>
      /\ free' = free + (IF gone THEN 1 ELSE 0)
      /\ conn' = [conn EXCEPT ![c] = "closed"] /\ conn[c] # "closed"
  BY DEF Close, loopVars
<1>5. TypeOK' /\ FailuresReported' /\ LoopHolds' = LoopHolds
  BY <1>3, <1>4 DEF PermitsInv, TypeOK, FailuresReported, LoopHolds
<1>6. \A s \in Streams : stream[s].pool \in {"owned", "fallback"} => kept(s) = stream[s].holders /\ kept(s) # {}
  BY DEF PermitsInv, TypeOK, StreamOK, NoStream
<1>7. ASSUME NEW s \in Streams
      PROVE  \/ stream'[s] = stream[s] /\ s \notin ours
             \/ stream'[s] = NoStream /\ s \in ours /\ kept(s) = {}
             \/ /\ s \in ours /\ kept(s) # {}
                /\ stream'[s].conn = stream[s].conn /\ stream'[s].pool = stream[s].pool
                /\ stream'[s].holders = kept(s)
  <2>1. stream[s] \in [conn : Connections \cup {NoConnection},
                       pool : {"none", "http1", "owned", "fallback"}, holders : SUBSET Holders]
    BY Zenon DEF PermitsInv, TypeOK
  <2>2. ASSUME NEW k, stream'[s] = [stream[s] EXCEPT !.holders = k]
        PROVE  /\ stream'[s].conn = stream[s].conn /\ stream'[s].pool = stream[s].pool
               /\ stream'[s].holders = k
    BY Zenon, <2>1, <2>2
  <2> HIDE DEF ours, kept
  <2> QED BY Zenon, <1>2, <2>2
<1> HIDE DEF kept
<1>8. ASSUME NEW s \in Streams PROVE StreamOK(s)'
  <2>1. StreamOK(s) /\ c # NoConnection
    BY DownstreamAssumption DEF PermitsInv
  <2>2. CASE stream'[s] = stream[s]
    BY <2>1, <2>2 DEF StreamOK
  <2>3. CASE stream'[s] = NoStream
    BY <2>3 DEF StreamOK
  <2>4. CASE /\ s \in ours /\ kept(s) # {}
             /\ stream'[s].conn = stream[s].conn /\ stream'[s].pool = stream[s].pool
             /\ stream'[s].holders = kept(s)
    <3>1. stream[s].conn # NoStream.conn
      BY <2>1, <2>4 DEF NoStream
    <3> QED BY <2>1, <2>4, <3>1 DEF StreamOK
  <2> QED BY <1>7, <2>2, <2>3, <2>4
<1>9. Held("owned")' = Held("owned") /\ Held("fallback")' = Held("fallback")
  BY <1>6, <1>7 DEF Held, NoStream
<1>10. \A d \in Connections \ {c} : LeaseHolders(d)' = LeaseHolders(d)
  BY <1>7, DownstreamAssumption DEF LeaseHolders, NoStream
<1>11. LeaseHolders(c)' = {} <=> gone
  BY <1>7, DownstreamAssumption DEF LeaseHolders, NoStream
<1>12. c \in Leased /\ Leased' = IF gone THEN Leased \ {c} ELSE Leased
  BY <1>4, <1>10, <1>11 DEF Leased, PermitsInv, TypeOK
<1> HIDE DEF gone
<1>13. Counted(Leased', free' + LoopHolds, MaxDownstream)
  <2>1. CASE gone
    <3>1. Counted(Leased \ {c}, free + LoopHolds + 1, MaxDownstream)
      <4>1. free + LoopHolds \in Nat /\ c \in Leased
        BY <1>12, LoopHoldsType DEF PermitsInv, TypeOK
      <4>2. Counted(Leased, free + LoopHolds, MaxDownstream)
        BY DEF PermitsInv
      <4> QED BY <4>1, <4>2, CountRemove
    <3>2. free' + LoopHolds = free + LoopHolds + 1
      BY <1>4, <2>1, LoopHoldsType DEF PermitsInv, TypeOK
    <3> QED BY <3>1, <3>2, <1>12, <2>1
  <2>2. CASE ~gone
    BY <1>4, <1>12, <2>2 DEF PermitsInv, TypeOK
  <2> QED BY <2>1, <2>2
<1> QED BY <1>4, <1>5, <1>8, <1>9, <1>13 DEF PermitsInv, Counted

LEMMA PermitsNext == PermitsInv /\ [DownstreamNext]_downstreamVars => PermitsInv'
<1> SUFFICES ASSUME PermitsInv, [DownstreamNext]_downstreamVars PROVE PermitsInv'
  OBVIOUS
<1>1. CASE DownstreamNext
  BY <1>1, PermitsAcceptLoop, PermitsAccepted, PermitsRequest, PermitsStream, PermitsForward,
     PermitsClose DEF DownstreamNext
<1>2. CASE UNCHANGED downstreamVars
  BY <1>2, PermitsLoop DEF downstreamVars, PermitsInv, TypeOK, FailuresReported, LoopHolds
<1> QED BY <1>1, <1>2

LEMMA PermitsInvariant == DownstreamSpec => []PermitsInv
BY PermitsInit, PermitsNext, PTL DEF DownstreamSpec

\* No permit of a connection, of an own path or of a forwarded stream is lost or counted
\* twice, with any number of sockets and streams and any limits that validate accepts, in
\* whatever order handlers, bodies, uploads, tunnels and the connection's task end
\* (drive_accept_loop, serve_downstream_connection, SharedPermit).
THEOREM NoPermitIsLost == DownstreamSpec => []PermitsAddUp
<1>1. PermitsInv => PermitsAddUp
  <2> SUFFICES ASSUME PermitsInv PROVE PermitsAddUp
    OBVIOUS
  <2>1. Cardinality(Leased) \in Nat
    BY FS_CardinalityType DEF PermitsInv, Counted
  <2>2. free + Cardinality(Leased) + LoopHolds = MaxDownstream
    BY <2>1, LoopHoldsType DEF PermitsInv, Counted, TypeOK
  <2> QED BY <2>2 DEF PermitsInv, PermitsAddUp, Counted, Held, LoopHolds
<1> QED BY <1>1, PermitsInvariant, PTL

LEMMA MinOfTwo ==
    ASSUME NEW a \in Nat, NEW b \in Nat
    PROVE  Min({a, b}) = IF a <= b THEN a ELSE b
BY DEF Min

LEMMA BackoffStep ==
    ASSUME PermitsInv, [DownstreamNext]_downstreamVars,
           backoff' # backoff, backoff'.class # "none"
    PROVE  IF backoff'.class = backoff.class
           THEN /\ Delay(backoff') >= Delay(backoff)
                /\ Delay(backoff') <= Delay(backoff) + 1
           ELSE Delay(backoff') = 1
<1>1. AcceptFails
  <2>1. ~Accepted /\ ~AcquirePermit /\ ~Slept /\ ~AcceptFatal
    BY DEF AcquirePermit, Accepted, NoBackoff, Slept, AcceptFatal
  <2>2. \A c \in Connections : ~Close(c) /\ \A s \in Streams : ~Request(c, s)
    BY Zenon DEF Close, Request, loopVars
  <2>3. \A s \in Streams : /\ ~Forward(s) /\ ~Respond(s) /\ ~StreamEnds(s)
                           /\ \A part \in Outliving : ~ExchangeEnds(s, part)
    BY Zenon DEF Forward, Respond, StreamEnds, ExchangeEnds, loopVars
  <2> QED BY <2>1, <2>2, <2>3 DEF DownstreamNext, downstreamVars
<1>2. PICK class \in AcceptClasses :
          backoff' = [class |-> class, same_class_streak |-> next_streak(class)]
  BY <1>1 DEF AcceptFails
<1>3. /\ next_streak(class) \in Nat \ {0}
      /\ next_streak(class) = IF backoff.class = class THEN backoff.same_class_streak + 1 ELSE 1
  BY NextBackoff DEF PermitsInv
<1>4. StepsOf[class] \in Nat \ {0} /\ backoff.same_class_streak \in Nat
  BY DownstreamAssumption DEF PermitsInv, TypeOK
<1>5. Delay(backoff') = IF next_streak(class) <= StepsOf[class] THEN next_streak(class) ELSE StepsOf[class]
  BY <1>2, <1>3, <1>4, MinOfTwo DEF Delay
<1>6. CASE backoff.class = class
  <2>1. Delay(backoff) = IF backoff.same_class_streak <= StepsOf[class]
                         THEN backoff.same_class_streak ELSE StepsOf[class]
    BY <1>4, <1>6, MinOfTwo DEF Delay
  <2> QED BY <1>2, <1>3, <1>4, <1>5, <1>6, <2>1
<1>7. CASE backoff.class # class
  BY <1>2, <1>3, <1>4, <1>5, <1>7
<1> QED BY <1>6, <1>7

\* Every accept failure is reported once, and repeated ones wait longer and longer, for
\* any lengths of the delay tables (AcceptFailureLogState, AcceptBackoff).
THEOREM OutagesArePaced == DownstreamSpec => OutagePaced
<1>1. PermitsInv => FailuresReported
  BY DEF PermitsInv
<1>2. PermitsInv /\ [DownstreamNext]_downstreamVars =>
         [ backoff' # backoff /\ backoff'.class # "none" =>
              IF backoff'.class = backoff.class
              THEN /\ Delay(backoff') >= Delay(backoff)
                   /\ Delay(backoff') <= Delay(backoff) + 1
              ELSE Delay(backoff') = 1 ]_downstreamVars
  BY BackoffStep
<1> QED BY <1>1, <1>2, PermitsInvariant, PTL DEF DownstreamSpec, OutagePaced, BackoffGrows
=============================================================================
