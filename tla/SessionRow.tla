----------------------------- MODULE SessionRow -----------------------------
(***************************************************************************)
(* One row of the gateway_sessions table and the SQL statements of         *)
(* src/src/db.rs that read or write it.                                    *)
(*                                                                         *)
(* A statement is a pair of operators: the WHERE clause that selects the   *)
(* row (X_Matches) and the SET clause that gives its new contents          *)
(* (X_Update).  Times are natural numbers, one unit per tick of the model  *)
(* clock; time 0 stands for COMPAT_DENY_AT, 1970-01-01, which is before    *)
(* every moment at which the gateway runs.                                 *)
(*                                                                         *)
(* An operator X_Mutant is X with a mistake; no specification uses it.  It *)
(* documents which mistake the properties of the project would notice.     *)
(***************************************************************************)
EXTENDS Naturals

CONSTANTS
    Users,            \* subjects an access token may name
    Audiences,        \* audiences an access token may be signed for
    IdleTTL,          \* config.session_ttl_seconds
    AbsoluteTTL,      \* config.session_absolute_ttl_seconds
    TouchInterval,    \* config.session_touch_interval_seconds
    RefreshSkew       \* config.refresh_skew_seconds

\* Config::validate accepts only 0 < touch <= idle <= absolute, parse_i64 only a
\* positive skew.
ASSUME SessionRowAssumption ==
    /\ IdleTTL \in Nat /\ AbsoluteTTL \in Nat
    /\ TouchInterval \in Nat /\ RefreshSkew \in Nat \ {0}
    /\ 0 < TouchInterval /\ TouchInterval <= IdleTTL /\ IdleTTL <= AbsoluteTTL

COMPAT_DENY_AT == 0

Minimum(a, b) == IF a <= b THEN a ELSE b

(***************************************************************************)
(* An access token is what verification reads of it.  A refresh token is   *)
(* the number of the rotation that issued it.                              *)
(***************************************************************************)
AccessToken == [exp : Nat, aud : Audiences, user : Users]

IdentityState == {"ready", "pending"}

\* revoked_at is NULL ("no"), or set; the model also keeps by whom, which
\* the table does not store and no operation reads.
Revocation == {"no", "logout", "remote", "audience"}

GatewaySession ==
    [refresh_generation     : Nat,
     refresh_token          : Nat,
     access                 : AccessToken,
     user_id                : Users,
     identity_state         : IdentityState,
     pending_since_set      : BOOLEAN,
     session_expires_at     : Nat,
     idle_expires_at        : Nat,
     absolute_expires_at    : Nat,
     last_touched_at        : Nat,
     revoked                : Revocation]

ObservedVersion == [generation : Nat, identity_state : IdentityState]

observed_version(s) ==
    [generation |-> s.refresh_generation, identity_state |-> s.identity_state]

\* The row create_session inserts at time t for verified initial tokens.
create_session(t, token, access) ==
    LET absolute == t + AbsoluteTTL
        idle     == Minimum(t + IdleTTL, absolute)
    IN  [refresh_generation  |-> 0,
         refresh_token       |-> token,
         access              |-> access,
         user_id             |-> access.user,
         identity_state      |-> "ready",
         pending_since_set   |-> FALSE,
         session_expires_at  |-> idle,
         idle_expires_at     |-> idle,
         absolute_expires_at |-> absolute,
         last_touched_at     |-> t,
         revoked             |-> "no"]

-----------------------------------------------------------------------------
(* Reading a row.                                                          *)

is_active_Mutant(s, t) ==
    t < s.idle_expires_at /\ t < s.absolute_expires_at

is_active(s, t) ==
    /\ s.revoked = "no"
    /\ t < s.idle_expires_at
    /\ t < s.absolute_expires_at

\* What row_to_session demands of a row; a row that fails it can be neither
\* used nor refreshed, every lookup of it is an error.
validate_session_invariants(s) ==
    /\ s.idle_expires_at <= s.absolute_expires_at
    /\ s.refresh_generation >= 0
    /\ \/ /\ s.identity_state = "ready"
          /\ ~s.pending_since_set
          /\ s.session_expires_at = s.idle_expires_at
       \/ /\ s.identity_state = "pending"
          /\ s.pending_since_set
          /\ s.session_expires_at = COMPAT_DENY_AT

session_needs_refresh(s, t) == s.access.exp <= t + RefreshSkew

\* The comparison refresh_gateway_session and revoke_expected_generation make
\* between a row just read and the session they started from.
has_changed(current, expected) ==
    \/ observed_version(current) # observed_version(expected)
    \/ current.refresh_token # expected.refresh_token

-----------------------------------------------------------------------------
(* Writing a row.                                                          *)

revoke_session_Matches(s) == s.revoked = "no"

conditional_revoke_Matches_Mutant(s, expected, t) == is_active(s, t)

conditional_revoke_Matches(s, expected, t) ==
    /\ s.refresh_generation = expected.refresh_generation
    /\ s.refresh_token = expected.refresh_token
    /\ s.identity_state = expected.identity_state
    /\ is_active(s, t)

revoke_Update(s, by) == [s EXCEPT !.revoked = by]

persist_pending_Matches_Mutant(s, original, t) ==
    s.refresh_generation = original.refresh_generation

persist_pending_Matches(s, original, t) ==
    /\ s.refresh_generation = original.refresh_generation
    /\ s.refresh_token = original.refresh_token
    /\ s.identity_state = original.identity_state
    /\ is_active(s, t)

persist_pending_Update(s, token, access) ==
    [refresh_generation  |-> s.refresh_generation + 1,
     refresh_token       |-> token,
     access              |-> access,
     user_id             |-> access.user,
     identity_state      |-> "pending",
     pending_since_set   |-> TRUE,
     session_expires_at  |-> COMPAT_DENY_AT,
     idle_expires_at     |-> s.idle_expires_at,
     absolute_expires_at |-> s.absolute_expires_at,
     last_touched_at     |-> s.last_touched_at,
     revoked             |-> s.revoked]

finalize_pending_Matches_Mutant(s, pending, t) ==
    s.identity_state = "pending" /\ s.user_id = pending.user_id /\ is_active(s, t)

finalize_pending_Matches(s, pending, t) ==
    /\ s.refresh_generation = pending.refresh_generation
    /\ s.identity_state = "pending"
    /\ s.user_id = pending.user_id
    /\ is_active(s, t)

finalize_pending_Update(s) ==
    [s EXCEPT !.identity_state = "ready",
              !.pending_since_set = FALSE,
              !.session_expires_at = s.idle_expires_at]

touch_Candidate_Mutant(s, t) == t + IdleTTL

touch_Candidate(s, t) == Minimum(t + IdleTTL, s.absolute_expires_at)

\* touch_ready answers NotDue, without looking at the database again.
touch_NotDue(s, t) ==
    \/ t < s.last_touched_at + TouchInterval
    \/ touch_Candidate(s, t) <= s.idle_expires_at

touch_ready_Matches(s, original, t) ==
    /\ s.refresh_generation = original.refresh_generation
    /\ s.identity_state = "ready"
    /\ s.idle_expires_at = original.idle_expires_at
    /\ is_active(s, t)

touch_ready_Update(s, candidate, t) ==
    [s EXCEPT !.idle_expires_at = candidate,
              !.session_expires_at = candidate,
              !.last_touched_at = t]

\* The row prune deletes.
prune_Matches(s, t) ==
    \/ s.revoked # "no"
    \/ s.idle_expires_at <= t
    \/ s.absolute_expires_at <= t
=============================================================================
